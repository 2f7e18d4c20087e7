---------------------------- MODULE DaemonProofs ----------------------------
(***************************************************************************)
(* Proofs about the handoff of calls from the daemon to its windows, for   *)
(* any number of calls, windows and signaling connections.                 *)
(*                                                                         *)
(* NoStuckClaim and OneSpeaker are two readings of one fact: an invitation *)
(* is claimed exactly while it has a session (Claims), a session belongs   *)
(* to a running handler of that call (Owners), and a running handler of a  *)
(* pending call is the one in its session (Holders).  A call that is       *)
(* announced is new to the daemon (Known), which is why it has neither.    *)
(* OwnConnection needs that a handler about to send holds the connection   *)
(* on which its call arrived (Taken).                                      *)
(***************************************************************************)
EXTENDS Daemon, TLAPS

Offline == {"connecting", "clearing", "waiting"}
Stages == Offline \union {"connected", "lost"}
Places == {"none", "ready", "loop", "valid", "send", "forget", "release", "closed"}

DaemonTypeOK ==
    /\ phase \in Stages
    /\ made \in Nat /\ signal \in Nat
    /\ pending \in [DOMAIN pending -> BOOLEAN]
    /\ sessions \in [DOMAIN sessions -> Windows]
    /\ invited \in [DOMAIN invited -> Nat]
    /\ pc \in [Windows -> Places]
    /\ call \in [Windows -> Calls \union {NoCall}]
    /\ client \in [Windows -> Nat]

Owners == \A c \in DOMAIN sessions : Handled(sessions[c]) /\ call[sessions[c]] = c

Claims == \A c \in DOMAIN pending : pending[c] <=> c \in DOMAIN sessions

Holders ==
    \A w \in Windows : Handled(w) =>
        /\ call[w] \in DOMAIN invited
        /\ call[w] \in DOMAIN pending =>
              call[w] \in DOMAIN sessions /\ sessions[call[w]] = w

Known == DOMAIN pending \subseteq DOMAIN invited /\ DOMAIN sessions \subseteq DOMAIN invited

Online == signal = 0 <=> phase \in Offline

Taken == \A w \in Windows : pc[w] = "send" => client[w] = invited[call[w]]

\* The handoff: what release, handleSignal and clearSignal keep in order.
Handoff == Owners /\ Claims /\ Holders /\ Known

DaemonInv == DaemonTypeOK /\ Handoff /\ Online /\ Taken /\ DiscardedOnLoss

\* The daemon starts without calls and windows.
LEMMA InitInv == Init => DaemonInv
<1> SUFFICES ASSUME Init PROVE DaemonInv
  OBVIOUS
<1>1. DOMAIN pending = {} /\ DOMAIN sessions = {} /\ DOMAIN invited = {}
  BY DEF Init, Nothing
<1>2. DaemonTypeOK
  BY <1>1 DEF Init, Nothing, DaemonTypeOK, Places, Stages, Offline
<1>3. Handoff
  BY <1>1 DEF Init, Handoff, Owners, Claims, Holders, Known, Handled
<1>4. Online /\ Taken /\ DiscardedOnLoss
  BY <1>1 DEF Init, Online, Offline, Taken, DiscardedOnLoss
<1> QED  BY <1>2, <1>3, <1>4 DEF DaemonInv

\* A handler that goes on handling its call.
LEMMA MoveInv ==
  ASSUME DaemonInv, NEW w \in Windows, Handled(w), NEW x \in Places \ {"none", "closed"},
         pc' = [pc EXCEPT ![w] = x],
         NEW n \in Nat, client' = [client EXCEPT ![w] = n],
         x = "send" => n = invited[call[w]],
         UNCHANGED <<phase, made, signal, pending, sessions, invited, call>>
  PROVE  DaemonInv'
<1>1. /\ pc'[w] = x /\ \A v \in Windows : v # w => pc'[v] = pc[v]
      /\ client'[w] = n /\ \A v \in Windows : v # w => client'[v] = client[v]
  BY DEF DaemonInv, DaemonTypeOK
<1>2. \A v \in Windows : Handled(v)' <=> Handled(v)
  BY <1>1 DEF Handled
<1>3. DaemonTypeOK'
  BY DEF DaemonInv, DaemonTypeOK
<1>4. Handoff'
  BY <1>2 DEF DaemonInv, DaemonTypeOK, Handoff, Owners, Claims, Holders, Known
<1>5. Online' /\ DiscardedOnLoss' /\ Taken'
  BY <1>1 DEF DaemonInv, Online, DiscardedOnLoss, Taken
<1> QED  BY <1>3, <1>4, <1>5 DEF DaemonInv

\* A step that touches neither the daemon's maps nor its handlers.
LEMMA AsideInv ==
  ASSUME DaemonInv, phase' \in Stages,
         signal = 0 <=> phase' \in Offline,
         UNCHANGED <<made, signal, pending, sessions, invited, pc, call, client>>
  PROVE  DaemonInv'
  BY DEF DaemonInv, DaemonTypeOK, Handoff, Owners, Claims, Holders, Known, Online, Taken,
         DiscardedOnLoss, Handled

\* The window of a handler that has returned makes room for the next.
LEMMA FreshInv ==
  ASSUME DaemonInv, NEW w \in Windows, ~Handled(w),
         pc' = [pc EXCEPT ![w] = "none"], call' = [call EXCEPT ![w] = NoCall],
         UNCHANGED <<phase, made, signal, pending, sessions, invited, client>>
  PROVE  DaemonInv'
<1>1. /\ pc'[w] = "none" /\ \A v \in Windows : v # w => pc'[v] = pc[v]
      /\ \A v \in Windows : v # w => call'[v] = call[v]
  BY DEF DaemonInv, DaemonTypeOK
<1>2. \A v \in Windows : Handled(v)' <=> Handled(v)
  BY <1>1 DEF Handled
<1>3. \A c \in DOMAIN sessions : sessions[c] \in Windows /\ sessions[c] # w
  BY DEF DaemonInv, DaemonTypeOK, Handoff, Owners
<1>4. DaemonTypeOK'
  BY DEF DaemonInv, DaemonTypeOK, Places
<1>5. Handoff'
  BY <1>1, <1>2, <1>3 DEF DaemonInv, Handoff, Owners, Claims, Holders, Known
<1>6. Online' /\ DiscardedOnLoss' /\ Taken'
  BY <1>1 DEF DaemonInv, Online, DiscardedOnLoss, Taken
<1> QED  BY <1>4, <1>5, <1>6 DEF DaemonInv

\* Calls leave the daemon's maps, a session only together with its claim.
LEMMA ForgetInv ==
  ASSUME DaemonInv, NEW P, NEW S,
         DOMAIN pending \intersect S \subseteq P,
         pending' = [c \in DOMAIN pending \ P |-> pending[c]],
         sessions' = [c \in DOMAIN sessions \ S |-> sessions[c]],
         UNCHANGED <<phase, made, signal, invited, pc, call, client>>
  PROVE  DaemonInv'
<1>1. /\ DOMAIN pending' = DOMAIN pending \ P
      /\ \A c \in DOMAIN pending' : pending'[c] = pending[c]
      /\ DOMAIN sessions' = DOMAIN sessions \ S
      /\ \A c \in DOMAIN sessions' : sessions'[c] = sessions[c]
  OBVIOUS
<1>2. DaemonTypeOK'
  BY DEF DaemonInv, DaemonTypeOK
<1>3. Handoff'
  BY <1>1 DEF DaemonInv, Handoff, Owners, Claims, Holders, Known, Handled
<1>4. Online' /\ DiscardedOnLoss' /\ Taken'
  BY <1>1 DEF DaemonInv, Online, DiscardedOnLoss, Taken
<1> QED  BY <1>2, <1>3, <1>4 DEF DaemonInv

\* Run: the connection comes and goes.
LEMMA RunInv ==
  ASSUME DaemonInv,
         \/ ConnectFails \/ Connect \/ LoseConnection \/ ClearSignal \/ Retry
         \/ \E stable \in BOOLEAN : Pause(stable)
  PROVE  DaemonInv'
<1> USE DEF Stages, Offline
<1>1. CASE ConnectFails \/ Retry \/ \E stable \in BOOLEAN : Pause(stable)
  <2>1. /\ phase' \in Offline /\ signal = 0
        /\ UNCHANGED <<made, signal, pending, sessions, invited, pc, call, client>>
    BY <1>1 DEF ConnectFails, Wait, Retry, Pause, DaemonInv, Online, handoff, local
  <2> QED  BY <2>1, AsideInv
<1>2. CASE LoseConnection
  <2>1. /\ phase' \in {"connected", "lost"} /\ signal # 0
        /\ UNCHANGED <<made, signal, pending, sessions, invited, pc, call, client>>
    BY <1>2 DEF LoseConnection, Ready, DaemonInv, Online, handoff, local
  <2> QED  BY <2>1, AsideInv
<1>3. CASE Connect
  <2>1. /\ phase' = "connected" /\ made' = made + 1 /\ signal' = made + 1 /\ signal = 0
        /\ UNCHANGED <<pending, sessions, invited, pc, call, client>>
    BY <1>3 DEF Connect, DaemonInv, Online, handoff, local
  <2>2. DOMAIN pending = {} /\ made + 1 \in Nat /\ made + 1 # 0
    BY <2>1 DEF DaemonInv, DiscardedOnLoss, DaemonTypeOK
  <2>3. DaemonTypeOK'
    BY <2>1, <2>2 DEF DaemonInv, DaemonTypeOK
  <2>4. Handoff' /\ Taken'
    BY <2>1 DEF DaemonInv, Handoff, Owners, Claims, Holders, Known, Handled, Taken
  <2>5. Online' /\ DiscardedOnLoss'
    BY <2>1, <2>2 DEF Online, DiscardedOnLoss
  <2> QED  BY <2>3, <2>4, <2>5 DEF DaemonInv
<1>4. CASE ClearSignal
  <2>1. /\ phase' = "clearing" /\ signal' = 0
        /\ pending' = Nothing /\ sessions' = Nothing
        /\ UNCHANGED <<made, invited, pc, call, client>>
    BY <1>4 DEF ClearSignal, local
  <2>2. DOMAIN pending' = {} /\ DOMAIN sessions' = {}
    BY <2>1 DEF Nothing
  <2>3. DaemonTypeOK'
    BY <2>1, <2>2 DEF DaemonInv, DaemonTypeOK, Nothing
  <2>4. Handoff'
    BY <2>1, <2>2 DEF DaemonInv, Handoff, Owners, Claims, Holders, Known, Handled
  <2>5. Online' /\ DiscardedOnLoss' /\ Taken'
    BY <2>1, <2>2 DEF DaemonInv, Online, DiscardedOnLoss, Taken
  <2> QED  BY <2>3, <2>4, <2>5 DEF DaemonInv
<1> QED  BY <1>1, <1>2, <1>3, <1>4

\* handleInvite: the call is new, so nobody claims or handles it.
LEMMA InviteInv ==
  ASSUME DaemonInv, NEW c \in Calls, HandleInvite(c)
  PROVE  DaemonInv'
<1>1. /\ c \notin DOMAIN invited /\ signal # 0
      /\ c \notin DOMAIN sessions /\ c \notin DOMAIN pending
      /\ UNCHANGED <<phase, made, signal, sessions, pc, call, client>>
  BY DEF HandleInvite, Ready, DaemonInv, Online, Offline, Handoff, Known, local
<1>2. /\ DOMAIN invited' = DOMAIN invited \union {c} /\ invited'[c] = signal
      /\ \A d \in DOMAIN invited : invited'[d] = invited[d]
      /\ invited' \in [DOMAIN invited' -> Nat]
  BY <1>1 DEF HandleInvite, Put, DaemonInv, DaemonTypeOK
<1>3. /\ DOMAIN pending' = DOMAIN pending \union {c} /\ pending'[c] = FALSE
      /\ \A d \in DOMAIN pending : pending'[d] = pending[d]
      /\ pending' \in [DOMAIN pending' -> BOOLEAN]
  BY <1>1 DEF HandleInvite, Put, DaemonInv, DaemonTypeOK
<1>4. DaemonTypeOK'
  BY <1>1, <1>2, <1>3 DEF DaemonInv, DaemonTypeOK
<1>5. Handoff'
  BY <1>1, <1>2, <1>3 DEF DaemonInv, Handoff, Owners, Claims, Holders, Known, Handled
<1>6. Online' /\ DiscardedOnLoss'
  BY <1>1, <1>2, <1>3 DEF DaemonInv, Online, DiscardedOnLoss, Handoff, Known
<1>7. Taken'
  BY <1>1, <1>2 DEF DaemonInv, Taken, Handoff, Holders, Handled
<1> QED  BY <1>4, <1>5, <1>6, <1>7 DEF DaemonInv

\* A window claims a pending call that nobody has.
LEMMA AttachInv ==
  ASSUME DaemonInv, NEW w \in Windows, NEW c \in Calls, Attach(w, c)
  PROVE  DaemonInv'
<1>1. /\ c \in DOMAIN pending /\ ~pending[c] /\ c \notin DOMAIN sessions
      /\ ~Handled(w) /\ signal # 0
      /\ UNCHANGED <<phase, made, signal, invited, client>>
  BY DEF Attach, Available, DaemonInv, Handoff, Claims, Handled
<1>2. /\ DOMAIN pending' = DOMAIN pending /\ pending'[c] = TRUE
      /\ \A d \in DOMAIN pending : d # c => pending'[d] = pending[d]
      /\ pending' \in [DOMAIN pending' -> BOOLEAN]
  BY <1>1 DEF Attach, DaemonInv, DaemonTypeOK
<1>3. /\ DOMAIN sessions' = DOMAIN sessions \union {c} /\ sessions'[c] = w
      /\ \A d \in DOMAIN sessions : sessions'[d] = sessions[d] /\ sessions[d] # w
      /\ sessions' \in [DOMAIN sessions' -> Windows]
  BY <1>1 DEF Attach, Put, DaemonInv, DaemonTypeOK, Handoff, Owners
<1>4. /\ pc'[w] = "ready" /\ \A v \in Windows : v # w => pc'[v] = pc[v]
      /\ call'[w] = c /\ \A v \in Windows : v # w => call'[v] = call[v]
  BY DEF Attach, DaemonInv, DaemonTypeOK
<1>5. Handled(w)' /\ \A v \in Windows : v # w => (Handled(v)' <=> Handled(v))
  BY <1>4 DEF Handled
<1>6. DaemonTypeOK'
  BY <1>1, <1>2, <1>3 DEF Attach, DaemonInv, DaemonTypeOK, Places
<1>7. Handoff'
  <2>1. Owners' /\ Claims' /\ Known'
    BY <1>1, <1>2, <1>3, <1>4, <1>5
    DEF DaemonInv, DaemonTypeOK, Handoff, Owners, Claims, Known
  <2>2. Holders'
    BY <1>1, <1>2, <1>3, <1>4, <1>5 DEF DaemonInv, Handoff, Holders, Known
  <2> QED  BY <2>1, <2>2 DEF Handoff
<1>8. Online' /\ DiscardedOnLoss' /\ Taken'
  BY <1>1, <1>2, <1>4 DEF DaemonInv, Online, DiscardedOnLoss, Taken
<1> QED  BY <1>6, <1>7, <1>8 DEF DaemonInv

\* release: the handler returns, and the call it holds becomes free.
LEMMA ReleaseInv ==
  ASSUME DaemonInv, NEW w \in Windows, Release(w)
  PROVE  DaemonInv'
<1> DEFINE c == call[w]
           mine == c \in DOMAIN sessions /\ sessions[c] = w
<1>0. /\ pc[w] = "release" /\ Handled(w)
      /\ UNCHANGED <<phase, made, signal, invited, client>>
  BY DEF Release, Handled
<1>1. PICK x \in {"none", "closed"}, n \in Calls \union {NoCall} :
        pc' = [pc EXCEPT ![w] = x] /\ call' = [call EXCEPT ![w] = n]
  BY DEF Release, Fresh, DaemonInv, DaemonTypeOK
<1>2. /\ \A v \in Windows : v # w => pc'[v] = pc[v] /\ call'[v] = call[v]
      /\ ~Handled(w)' /\ \A v \in Windows : v # w => (Handled(v)' <=> Handled(v))
      /\ pc'[w] # "send"
  BY <1>1 DEF Handled, DaemonInv, DaemonTypeOK
<1>3. \A d \in DOMAIN sessions : d # c => sessions[d] # w /\ sessions[d] \in Windows
  BY DEF DaemonInv, DaemonTypeOK, Handoff, Owners
<1>4. CASE mine
  <2>1. /\ DOMAIN sessions' = DOMAIN sessions \ {c}
        /\ \A d \in DOMAIN sessions' : sessions'[d] = sessions[d]
        /\ sessions' \in [DOMAIN sessions' -> Windows]
    BY <1>4 DEF Release, GiveUp, Delete, DaemonInv, DaemonTypeOK
  <2>2. /\ DOMAIN pending' = DOMAIN pending
        /\ c \in DOMAIN pending => pending'[c] = FALSE
        /\ \A d \in DOMAIN pending : d # c => pending'[d] = pending[d]
        /\ pending' \in [DOMAIN pending' -> BOOLEAN]
    BY <1>4 DEF Release, GiveUp, DaemonInv, DaemonTypeOK
  <2> HIDE DEF c
  <2>3. DaemonTypeOK'
    BY <1>0, <1>1, <2>1, <2>2 DEF DaemonInv, DaemonTypeOK, Places
  <2>4. Owners' /\ Claims' /\ Known'
    BY <1>0, <1>2, <1>3, <2>1, <2>2 DEF DaemonInv, Handoff, Owners, Claims, Known
  <2>5. Holders'
    BY <1>0, <1>2, <1>4, <2>1, <2>2 DEF DaemonInv, Handoff, Holders
  <2>6. Online' /\ DiscardedOnLoss' /\ Taken'
    BY <1>0, <1>2, <2>1, <2>2 DEF DaemonInv, Online, DiscardedOnLoss, Taken
  <2> QED  BY <2>3, <2>4, <2>5, <2>6 DEF DaemonInv, Handoff
<1>5. CASE ~mine
  <2>1. UNCHANGED <<sessions, pending>>
    BY <1>5 DEF Release, GiveUp
  <2>2. \A d \in DOMAIN sessions : sessions[d] # w /\ sessions[d] \in Windows
    BY <1>3, <1>5 DEF DaemonInv, DaemonTypeOK
  <2>3. DaemonTypeOK'
    BY <1>0, <1>1, <2>1 DEF DaemonInv, DaemonTypeOK, Places
  <2>4. Handoff'
    BY <1>0, <1>2, <2>1, <2>2 DEF DaemonInv, Handoff, Owners, Claims, Holders, Known
  <2>5. Online' /\ DiscardedOnLoss' /\ Taken'
    BY <1>0, <1>2, <2>1 DEF DaemonInv, Online, DiscardedOnLoss, Taken
  <2> QED  BY <2>3, <2>4, <2>5 DEF DaemonInv
<1> QED  BY <1>4, <1>5

\* handleLocal between attach and release.
LEMMA HandlerInv ==
  ASSUME DaemonInv, NEW w \in Windows, Handler(w)
  PROVE  DaemonInv'
<1>0. client[w] \in Nat /\ client = [client EXCEPT ![w] = client[w]]
  BY DEF DaemonInv, DaemonTypeOK
<1>1. CASE SendReady(w) \/ WindowGone(w)
  <2>1. PICK x \in {"loop", "release"} : pc' = [pc EXCEPT ![w] = x]
    BY <1>1 DEF SendReady, WindowGone
  <2>2. /\ Handled(w) /\ x \in Places \ {"none", "closed"}
        /\ UNCHANGED <<phase, made, signal, pending, sessions, invited, call, client>>
    BY <1>1 DEF SendReady, WindowGone, Handled, handoff, Places
  <2> QED  BY <1>0, <2>1, <2>2, MoveInv
<1>2. CASE Validate(w)
  <2>0. UNCHANGED <<phase, made, signal, pending, sessions, invited, call, client>>
        /\ pc[w] = "loop"
    BY <1>2 DEF Validate, handoff
  <2>1. CASE pc' = [pc EXCEPT ![w] = "valid"]
    <3>1. Handled(w) /\ "valid" \in Places \ {"none", "closed"} /\ "valid" # "send"
      BY <2>0 DEF Handled, Places
    <3>2. client' = [client EXCEPT ![w] = client[w]]
      BY <1>0, <2>0
    <3> QED  BY <1>0, <2>0, <2>1, <3>1, <3>2, MoveInv
  <2>2. CASE pc' = pc
    <3>1. /\ phase' \in Stages
          /\ signal = 0 <=> phase' \in Offline
      BY <2>0 DEF DaemonInv, DaemonTypeOK, Online, Stages, Offline
    <3> QED  BY <2>0, <2>2, <3>1, AsideInv
  <2> QED  BY <1>2, <2>1, <2>2 DEF Validate
<1>3. CASE TakeClient(w)
  <2>0. UNCHANGED <<phase, made, signal, pending, sessions, invited, call>>
        /\ Handled(w)
    BY <1>3 DEF TakeClient, handoff, Handled
  <2>1. CASE signal = 0 \/ call[w] \notin DOMAIN pending
    <3>1. pc' = [pc EXCEPT ![w] = "release"] /\ client' = client
      BY <1>3, <2>1 DEF TakeClient
    <3>2. /\ "release" \in Places \ {"none", "closed"} /\ "release" # "send"
          /\ client' = [client EXCEPT ![w] = client[w]]
      BY <1>0, <3>1 DEF Places
    <3> QED  BY <1>0, <2>0, <3>1, <3>2, MoveInv
  <2>2. CASE ~(signal = 0 \/ call[w] \notin DOMAIN pending)
    <3>1. pc' = [pc EXCEPT ![w] = "send"] /\ client' = [client EXCEPT ![w] = signal]
      BY <1>3, <2>2 DEF TakeClient
    <3>2. signal \in Nat /\ signal = invited[call[w]]
      BY <2>2 DEF DaemonInv, DaemonTypeOK, DiscardedOnLoss
    <3> QED  BY <2>0, <3>1, <3>2, MoveInv DEF Places
  <2> QED  BY <2>1, <2>2
<1>4. CASE Send(w)
  <2>1. PICK x \in {"loop", "forget", "release"} : pc' = [pc EXCEPT ![w] = x]
    BY <1>4 DEF Send
  <2>2. /\ Handled(w) /\ x \in Places \ {"none", "closed"} /\ x # "send"
        /\ client' = [client EXCEPT ![w] = 0] /\ 0 \in Nat
        /\ UNCHANGED <<phase, made, signal, pending, sessions, invited, call>>
    BY <1>4 DEF Send, Handled, handoff, Places
  <2> QED  BY <2>1, <2>2, MoveInv
<1>5. CASE Forget(w)
  <2>0. /\ pc[w] = "forget" /\ pc' = [pc EXCEPT ![w] = "release"]
        /\ pending' = [c \in DOMAIN pending \ {call[w]} |-> pending[c]]
        /\ UNCHANGED <<phase, made, signal, sessions, invited, call, client>>
    BY <1>5 DEF Forget, Delete
  <2>1. /\ pc'[w] = "release" /\ \A v \in Windows : v # w => pc'[v] = pc[v]
        /\ \A v \in Windows : Handled(v)' <=> Handled(v)
    BY <2>0 DEF DaemonInv, DaemonTypeOK, Handled
  <2>2. /\ DOMAIN pending' = DOMAIN pending \ {call[w]}
        /\ \A c \in DOMAIN pending' : pending'[c] = pending[c]
    BY <2>0
  <2>3. DaemonTypeOK'
    BY <2>0 DEF DaemonInv, DaemonTypeOK, Places
  <2>4. Handoff'
    BY <2>0, <2>1, <2>2
    DEF DaemonInv, DaemonTypeOK, Handoff, Owners, Claims, Holders, Known
  <2>5. Online' /\ DiscardedOnLoss' /\ Taken'
    BY <2>0, <2>1, <2>2 DEF DaemonInv, Online, DiscardedOnLoss, Taken
  <2> QED  BY <2>3, <2>4, <2>5 DEF DaemonInv
<1> QED  BY <1>1, <1>2, <1>3, <1>4, <1>5, ReleaseInv DEF Handler

\* What a window does frees at most its own, already released, place.
LEMMA WindowInv ==
  ASSUME DaemonInv, NEW w \in Windows,
         \/ WindowReads(w) \/ WindowLosesDaemon(w) \/ Accept(w) \/ ControlOpens(w)
         \/ \E last \in {<<>>, <<"END">>} : WindowEnds(w, last)
  PROVE  DaemonInv'
<1>1. UNCHANGED <<phase, made, signal, pending, sessions, invited, client>>
  BY DEF WindowReads, WindowLosesDaemon, Accept, ControlOpens, WindowEnds, handoff, local
<1>2. \/ UNCHANGED <<pc, call>>
      \/ /\ pc[w] = "closed" /\ pc' = [pc EXCEPT ![w] = "none"]
         /\ call' = [call EXCEPT ![w] = NoCall]
  BY DEF WindowReads, WindowLosesDaemon, Accept, ControlOpens, WindowEnds, Quits, Fresh, local
<1>3. CASE UNCHANGED <<pc, call>>
  <2>1. /\ phase' \in Stages
        /\ signal = 0 <=> phase' \in Offline
    BY <1>1 DEF DaemonInv, DaemonTypeOK, Online, Stages, Offline
  <2> QED  BY <1>1, <1>3, <2>1, AsideInv
<1>4. CASE /\ pc[w] = "closed" /\ pc' = [pc EXCEPT ![w] = "none"]
           /\ call' = [call EXCEPT ![w] = NoCall]
  BY <1>1, <1>4, FreshInv DEF Handled
<1> QED  BY <1>2, <1>3, <1>4

\* Every step keeps the invariant.
LEMMA NextInv == DaemonInv /\ [Next]_vars => DaemonInv'
<1> SUFFICES ASSUME DaemonInv, [Next]_vars PROVE DaemonInv'
  OBVIOUS
<1>0. /\ phase \in Stages
      /\ signal = 0 <=> phase \in Offline
  BY DEF DaemonInv, DaemonTypeOK, Online, Stages, Offline
<1>1. ASSUME NEW c \in Calls, HandleTerminal(c) PROVE DaemonInv'
  <2>1. /\ pending' = [d \in DOMAIN pending \ {c} |-> pending[d]]
        /\ sessions' = [d \in DOMAIN sessions \ {c} |-> sessions[d]]
        /\ UNCHANGED <<phase, made, signal, invited, pc, call, client>>
    BY <1>1 DEF HandleTerminal, Delete, local
  <2>2. DOMAIN pending \intersect {c} \subseteq {c}
    OBVIOUS
  <2> QED  BY <2>1, <2>2, ForgetInv
<1>2. CASE HandleFault \/ (\E w \in Windows : TellPeer(w)) \/ UNCHANGED vars
  <2>1. UNCHANGED <<phase, made, signal, pending, sessions, invited, pc, call, client>>
    BY <1>2 DEF HandleFault, TellPeer, vars, handoff, local
  <2> QED  BY <1>0, <2>1, AsideInv
<1> QED  BY <1>1, <1>2, RunInv, InviteInv, AttachInv, HandlerInv, WindowInv DEF Next

\* The inductive invariant of the handoff.
THEOREM DaemonInvariant == Spec => []DaemonInv
  BY InitInv, NextInv, PTL DEF Spec

\* For any number of calls and windows: a claimed invitation has a running
\* handler that will release it, and an unclaimed one has none.
THEOREM ClaimsAreReleased == Spec => []NoStuckClaim
<1>1. DaemonInv => NoStuckClaim
  BY DEF DaemonInv, Handoff, Owners, Claims, NoStuckClaim
<1> QED  BY <1>1, DaemonInvariant, PTL

\* For any number of windows: two windows that handle the same call cannot
\* both get a signal of it through, because the call is not pending any more.
THEOREM SpeakersAreAlone == Spec => []OneSpeaker
<1>1. DaemonInv => OneSpeaker
  BY DEF DaemonInv, Handoff, Holders, OneSpeaker
<1> QED  BY <1>1, DaemonInvariant, PTL

\* Without a signaling connection the daemon knows no call, and with one only
\* calls that arrived over it.
THEOREM LossDiscards == Spec => []DiscardedOnLoss
<1>1. DaemonInv => DiscardedOnLoss
  BY DEF DaemonInv
<1> QED  BY <1>1, DaemonInvariant, PTL

\* However connections, signals and windows interleave, a window's signal
\* leaves only over the connection that announced its call.
THEOREM SignalsStayHome == Spec => OwnConnection
<1> DEFINE Own == \A w \in Windows :
      pc[w] = "send" /\ pc'[w] \in {"loop", "forget"} => signal = invited[call[w]]
<1>1. DaemonInv /\ [Next]_vars => [Own]_vars
  <2> SUFFICES ASSUME DaemonInv, [Next]_vars,
                      NEW w \in Windows, pc[w] = "send", pc'[w] \in {"loop", "forget"}
               PROVE  signal = invited[call[w]]
    OBVIOUS
  <2>1. Send(w)
    <3>1. pc \in [Windows -> Places]
      BY DEF DaemonInv, DaemonTypeOK
    <3>2. ASSUME NEW v \in Windows, NEW x, pc' = [pc EXCEPT ![v] = x] PROVE v = w
      BY <3>1, <3>2
    <3>3. ~UNCHANGED pc
      OBVIOUS
    <3>4. \A v \in Windows : Handler(v) => v = w
      BY <3>2, <3>3 DEF Handler, SendReady, WindowGone, Validate, TakeClient, Send, Forget,
                        Release, Fresh
    <3>5. \A v \in Windows : ~(WindowReads(v) \/ WindowLosesDaemon(v) \/ Accept(v)
                               \/ ControlOpens(v)
                               \/ \E last \in {<<>>, <<"END">>} : WindowEnds(v, last))
      BY <3>1, <3>3 DEF WindowReads, WindowLosesDaemon, Accept, ControlOpens, WindowEnds,
                        Quits, Fresh, local
    <3>6. \A v \in Windows, c \in Calls : ~Attach(v, c)
      BY <3>1 DEF Attach
    <3>7. Handler(w)
      BY <3>3, <3>4, <3>5, <3>6
      DEF Next, vars, local, ConnectFails, Connect, LoseConnection, ClearSignal, TellPeer,
          Pause, Retry, HandleInvite, HandleTerminal, HandleFault
    <3> QED  BY <3>7 DEF Handler, SendReady, WindowGone, Validate, TakeClient, Forget, Release
  <2>2. client[w] = signal
    BY <2>1 DEF Send, DaemonInv, DaemonTypeOK
  <2> QED  BY <2>2 DEF DaemonInv, Taken
<1> QED  BY <1>1, DaemonInvariant, PTL DEF Spec, OwnConnection

----------------------------------------------------------------------------
\* The backoff.

\* What powers of two are.  (The provers take n |-> 2^n for an unknown function.)
Doubling ==
    /\ 2^0 = 1
    /\ \A n \in Nat : 2^n \in Nat \ {0} /\ 2^(n + 1) = 2 * 2^n

\* The delay after n others.
Delay(n) == Smaller(ReconnectMin * 2^n, ReconnectMax)

\* Both the delay being waited and the next one follow the count, as long as
\* the count is exact.
Backoff ==
    /\ attempts \in Nat /\ backoff \in Nat
    /\ attempts < MaxAttempts => backoff = Delay(attempts)
    /\ phase = "waiting" /\ attempts < MaxAttempts =>
          attempts # 0 /\ delay = Delay(attempts - 1)

\* Doubling under the maximum is doubling and then taking the maximum.
LEMMA DelayDoubles ==
  ASSUME Doubling, NEW n \in Nat
  PROVE  Delay(n + 1) = Smaller(2 * Delay(n), ReconnectMax) /\ Delay(n) \in Nat
<1>1. 2^n \in Nat /\ 2^(n + 1) = 2 * 2^n
  BY DEF Doubling
<1>2. PICK x \in Nat : x = ReconnectMin * 2^n
  BY <1>1, BackoffAssumption
<1>3. ReconnectMin * 2^(n + 1) = 2 * x
  BY <1>1, <1>2, BackoffAssumption
<1> QED  BY <1>2, <1>3, BackoffAssumption DEF Delay, Smaller

\* waitForReconnect with the right delay leaves the right delay for next time.
LEMMA WaitBackoff ==
  ASSUME Doubling, NEW b \in Nat, NEW n \in Nat, n < MaxAttempts => b = Delay(n), Wait(b, n)
  PROVE  Backoff'
<1>1. attempts' \in Nat /\ backoff' \in Nat
  BY BackoffAssumption DEF Wait, Smaller
<1>2. ASSUME attempts' < MaxAttempts
      PROVE  attempts' = n + 1 /\ backoff' = Delay(n + 1) /\ delay' = Delay(n)
  BY <1>2, DelayDoubles, BackoffAssumption DEF Wait, Smaller
<1>3. attempts' < MaxAttempts =>
        attempts' # 0 /\ backoff' = Delay(attempts') /\ delay' = Delay(attempts' - 1)
  BY <1>2
<1> QED  BY <1>1, <1>3 DEF Backoff

\* Only Run waits: every other step leaves the timing as it is.
LEMMA NextBackoff ==
  ASSUME Doubling, Backoff, [Next]_vars PROVE Backoff'
<1>1. Delay(0) = ReconnectMin
  BY BackoffAssumption DEF Delay, Smaller, Doubling
<1>2. CASE ConnectFails
  BY <1>2, WaitBackoff DEF ConnectFails, Backoff
<1>3. ASSUME NEW stable \in BOOLEAN, Pause(stable) PROVE Backoff'
  <2>1. CASE stable
    BY <1>1, <1>3, <2>1, WaitBackoff, BackoffAssumption DEF Pause
  <2>2. CASE ~stable
    BY <1>3, <2>2, WaitBackoff DEF Pause, Backoff
  <2> QED  BY <2>1, <2>2
<1>4. CASE UNCHANGED timing /\ (phase' = "waiting" => phase = "waiting")
  BY <1>4 DEF Backoff, timing
<1>5. CASE Retry
  BY <1>5 DEF Retry, Backoff
<1>6. ASSUME ~ConnectFails, ~Retry, ~\E stable \in BOOLEAN : Pause(stable)
      PROVE  UNCHANGED timing /\ (phase' = "waiting" => phase = "waiting")
  BY <1>6
  DEF Next, vars, Connect, LoseConnection, ClearSignal, TellPeer, HandleInvite, HandleTerminal, HandleFault, Attach,
      Handler, SendReady, WindowGone, Validate, TakeClient, Send, Forget, Release, Fresh,
      WindowReads, WindowLosesDaemon, Accept, ControlOpens, WindowEnds
<1> QED  BY <1>2, <1>3, <1>4, <1>5, <1>6

\* Whatever connects, breaks or fails, the delays double up to the maximum
\* and only a stable connection takes them back to the minimum.
THEOREM DelaysDouble == ASSUME Doubling PROVE Spec => []BackoffDoubles
<1>1. Init => Backoff
  BY BackoffAssumption DEF Init, Backoff, Delay, Smaller, Doubling
<1>2. Backoff /\ [Next]_vars => Backoff'
  BY NextBackoff
<1>3. Backoff => BackoffDoubles
  BY DEF Backoff, BackoffDoubles, Delay
<1> QED  BY <1>1, <1>2, <1>3, PTL DEF Spec
=============================================================================
