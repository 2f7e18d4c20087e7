------------------------- MODULE CallManagerProofs -------------------------
(***************************************************************************)
(* Proofs about the call table for every set of users and call identifiers *)
(* and every timeout.  ManagerInv is inductive: BusyConsistent needs       *)
(* ManagerTypeOK, and an Expire step needs to know that the calls it ends  *)
(* do not share a user with the ones it leaves, which is BusyConsistent    *)
(* again.  The action properties follow from Evolves, what a step can do   *)
(* to one call, which needs the instants of SweepCanFinish.  The last part *)
(* shows that the table implements CallContract.                           *)
(***************************************************************************)
EXTENDS CallManager, TLAPS

ManagerInv == ManagerTypeOK /\ BusyConsistent /\ SweepCanFinish

\* The empty tables of New satisfy the invariant.
LEMMA NewInv == New => ManagerInv
  BY TimeAssumption
  DEF New, ManagerInv, ManagerTypeOK, BusyConsistent, SweepCanFinish, Call

\* A step that replaces one live call by another live record of the same two
\* users keeps the invariant.
LEMMA ReplaceInv ==
  ASSUME ManagerInv,
         NEW c \in DOMAIN calls, NEW r \in Call,
         ~Terminal(calls[c]), ~Terminal(r),
         r.caller = calls[c].caller, r.callee = calls[c].callee,
         r.deadline # NoTime <=> r.state \in Establishing,
         r.cleanupAt = NoTime,
         calls' = [calls EXCEPT ![c] = r], UNCHANGED active
  PROVE  ManagerInv'
<1>1. DOMAIN calls' = DOMAIN calls /\ calls'[c] = r
      /\ \A d \in DOMAIN calls : d # c => calls'[d] = calls[d]
  BY DEF ManagerInv, ManagerTypeOK
<1>2. ManagerTypeOK'
  BY <1>1 DEF ManagerInv, ManagerTypeOK
<1>3. BusyConsistent'
  BY <1>1 DEF ManagerInv, BusyConsistent, Participants
<1>4. SweepCanFinish'
  BY <1>1 DEF ManagerInv, SweepCanFinish
<1> QED  BY <1>2, <1>3, <1>4 DEF ManagerInv

\* finished() yields a terminal call of the same users.
LEMMA FinishedCall ==
  ASSUME NEW call \in Call, NEW s \in TerminalStates, NEW lag \in Lags
  PROVE  /\ finished(call, s, lag) \in Call
         /\ finished(call, s, lag).caller = call.caller
         /\ finished(call, s, lag).callee = call.callee
         /\ finished(call, s, lag).state = s
         /\ finished(call, s, lag).deadline = NoTime
         /\ finished(call, s, lag).cleanupAt # NoTime
<1>1. CleanupAfter - lag \in Instant /\ CleanupAfter - lag # NoTime
  BY TimeAssumption DEF Lags, Instant
<1>2. NoTime \in Instant /\ s \in State
  BY DEF Instant, State
<1> QED  BY <1>1, <1>2 DEF finished, setState, Call

\* finish() ends a live call and frees both of its users.
LEMMA FinishInv ==
  ASSUME ManagerInv,
         NEW c \in DOMAIN calls, ~Terminal(calls[c]),
         NEW s \in TerminalStates, NEW lag \in Lags,
         finish(c, s, lag)
  PROVE  ManagerInv'
<1> DEFINE r == finished(calls[c], s, lag)
<1>0. calls[c] \in Call
  BY DEF ManagerInv, ManagerTypeOK
<1>r. /\ r \in Call /\ r.caller = calls[c].caller /\ r.callee = calls[c].callee
      /\ r.state = s /\ r.deadline = NoTime /\ r.cleanupAt # NoTime
  BY <1>0, FinishedCall
<1> HIDE DEF r
<1>1. DOMAIN calls' = DOMAIN calls /\ calls'[c] = r
      /\ calls' = [calls EXCEPT ![c] = r]
      /\ \A d \in DOMAIN calls : d # c => calls'[d] = calls[d]
  BY DEF ManagerInv, ManagerTypeOK, finish, r
<1>2. /\ DOMAIN active' = DOMAIN active \ Participants(calls[c])
      /\ \A u \in DOMAIN active' : active'[u] = active[u]
      /\ active' \in [DOMAIN active' -> CallIds]
  BY DEF ManagerInv, ManagerTypeOK, finish, Delete
<1>3. ManagerTypeOK'
  BY <1>r, <1>1, <1>2 DEF ManagerInv, ManagerTypeOK
<1>4. BusyConsistent'
  BY <1>r, <1>1, <1>2 DEF ManagerInv, ManagerTypeOK, BusyConsistent, Participants, Terminal
<1>5. SweepCanFinish'
  BY <1>r, <1>1 DEF ManagerInv, SweepCanFinish, Terminal, TerminalStates, Establishing
<1> QED  BY <1>3, <1>4, <1>5 DEF ManagerInv

\* Invite adds a ringing call between two users who are not busy.
LEMMA InviteInv ==
  ASSUME ManagerInv,
         NEW c \in CallIds, NEW u \in Users, NEW v \in Users, NEW lag \in Lags,
         Invite(c, u, v, lag)
  PROVE  ManagerInv'
<1> DEFINE r == [caller |-> u, callee |-> v, state |-> "RINGING",
                 deadline |-> RingTimeout - lag, cleanupAt |-> NoTime,
                 callerCandidates |-> 0, calleeCandidates |-> 0]
<1>0. u # v /\ c \notin DOMAIN calls /\ u \notin DOMAIN active /\ v \notin DOMAIN active
  BY DEF Invite, InviteVerdict
<1>r. r \in Call /\ r.deadline # NoTime
  BY TimeAssumption, LimitAssumption
  DEF Call, Instant, State, Establishing, Lags
<1>s. /\ r.caller = u /\ r.callee = v /\ r.state = "RINGING"
      /\ r.cleanupAt = NoTime
  OBVIOUS
<1>1. calls' = Put(calls, c, r) /\ active' = Put(Put(active, u, c), v, c)
  BY DEF Invite
<1> HIDE DEF r
<1>2. /\ DOMAIN calls' = DOMAIN calls \union {c} /\ calls'[c] = r
      /\ \A d \in DOMAIN calls : calls'[d] = calls[d]
      /\ calls' \in [DOMAIN calls' -> Call]
  BY <1>0, <1>1, <1>r DEF ManagerInv, ManagerTypeOK, Put
<1>3. /\ DOMAIN active' = DOMAIN active \union {u, v}
      /\ active'[u] = c /\ active'[v] = c
      /\ \A w \in DOMAIN active : active'[w] = active[w]
      /\ active' \in [DOMAIN active' -> CallIds]
  BY <1>0, <1>1 DEF ManagerInv, ManagerTypeOK, Put
<1>4. ManagerTypeOK'
  BY <1>2, <1>3 DEF ManagerInv, ManagerTypeOK
<1>5. BusyConsistent'
  BY <1>0, <1>s, <1>2, <1>3
  DEF ManagerInv, ManagerTypeOK, BusyConsistent, Participants, Terminal, TerminalStates
<1>6. SweepCanFinish'
  BY <1>r, <1>s, <1>2
  DEF ManagerInv, SweepCanFinish, Terminal, TerminalStates, Establishing
<1> QED  BY <1>4, <1>5, <1>6 DEF ManagerInv

\* Accept, Offer, Answer and the candidates replace one live call.
LEMMA TransitionInv ==
  ASSUME ManagerInv,
         NEW c \in CallIds, NEW u \in Users, NEW v \in Users,
         Transition(c, u, v)
  PROVE  ManagerInv'
<1>0. /\ c \in DOMAIN calls /\ calls[c] \in Call
      /\ calls[c].deadline # NoTime <=> calls[c].state \in Establishing
      /\ calls[c].cleanupAt # NoTime <=> Terminal(calls[c])
  BY DEF ManagerInv, ManagerTypeOK, SweepCanFinish, Transition, Accept, Decline, Cancel,
         Offer, Answer, ICECandidate, ICEComplete, End, Between
<1>t. \A lag \in Lags : /\ NegotiationTimeout - lag \in Instant
                        /\ NegotiationTimeout - lag # NoTime
  BY TimeAssumption DEF Lags, Instant
<1>n. NoTime \in Instant
  BY DEF Instant
<1>1. ASSUME NEW lag \in Lags, Accept(c, u, v, lag) PROVE ManagerInv'
  <2> DEFINE r == [calls[c] EXCEPT !.state = "ACCEPTED",
                                   !.deadline = NegotiationTimeout - lag]
  <2>1. calls' = [calls EXCEPT ![c] = r] /\ UNCHANGED active
        /\ calls[c].state = "RINGING"
    BY <1>1 DEF Accept, setState
  <2>2. r \in Call /\ r.caller = calls[c].caller /\ r.callee = calls[c].callee
        /\ r.state = "ACCEPTED" /\ r.deadline # NoTime
        /\ r.cleanupAt = calls[c].cleanupAt
    BY <1>0, <1>t DEF Call, State, Establishing
  <2>3. ~Terminal(calls[c]) /\ ~Terminal(r) /\ r.state \in Establishing
    BY <2>1, <2>2 DEF Terminal, TerminalStates, Establishing
  <2> HIDE DEF r
  <2> QED  BY <1>0, <2>1, <2>2, <2>3, ReplaceInv
<1>2. ASSUME NEW lag \in Lags, Decline(c, u, v, lag) PROVE ManagerInv'
  <2>1. ~Terminal(calls[c]) /\ finish(c, "DECLINED", lag)
    BY <1>2 DEF Decline, Terminal, TerminalStates
  <2> QED  BY <1>0, <2>1, FinishInv DEF TerminalStates
<1>3. ASSUME NEW lag \in Lags, Cancel(c, u, v, lag) PROVE ManagerInv'
  <2>1. ~Terminal(calls[c]) /\ finish(c, "CANCELLED", lag)
    BY <1>3 DEF Cancel, Terminal, TerminalStates
  <2> QED  BY <1>0, <2>1, FinishInv DEF TerminalStates
<1>4. ASSUME NEW lag \in Lags, Offer(c, u, v, lag) PROVE ManagerInv'
  <2> DEFINE b == IF calls[c].state = "CONNECTED"
                  THEN [calls[c] EXCEPT !.callerCandidates = 0,
                                        !.calleeCandidates = 0]
                  ELSE calls[c]
             r == [b EXCEPT !.state = "NEGOTIATING",
                            !.deadline = NegotiationTimeout - lag]
  <2>1. calls' = [calls EXCEPT ![c] = r] /\ UNCHANGED active
        /\ calls[c].state \in {"ACCEPTED", "CONNECTED"}
    BY <1>4 DEF Offer, setState
  <2>2. b \in Call /\ b.caller = calls[c].caller /\ b.callee = calls[c].callee
        /\ b.cleanupAt = calls[c].cleanupAt
    <3>1. CASE calls[c].state = "CONNECTED"
      <4>1. 0 \in 0..MaxICECandidates
        BY LimitAssumption
      <4>2. b = [calls[c] EXCEPT !.callerCandidates = 0, !.calleeCandidates = 0]
        BY <3>1
      <4> QED  BY <4>1, <4>2, <1>0 DEF Call
    <3>2. CASE calls[c].state # "CONNECTED"
      BY <3>2, <1>0
    <3> QED  BY <3>1, <3>2
  <2> HIDE DEF b
  <2>3. r \in Call /\ r.caller = calls[c].caller /\ r.callee = calls[c].callee
        /\ r.state = "NEGOTIATING" /\ r.deadline # NoTime
        /\ r.cleanupAt = calls[c].cleanupAt
    BY <2>2, <1>t DEF Call, State, Establishing
  <2>4. ~Terminal(calls[c]) /\ ~Terminal(r) /\ r.state \in Establishing
    BY <2>1, <2>3 DEF Terminal, TerminalStates, Establishing
  <2> HIDE DEF r
  <2> QED  BY <1>0, <2>1, <2>3, <2>4, ReplaceInv
<1>5. ASSUME Answer(c, u, v) PROVE ManagerInv'
  <2> DEFINE r == [calls[c] EXCEPT !.state = "CONNECTED", !.deadline = NoTime]
  <2>1. calls' = [calls EXCEPT ![c] = r] /\ UNCHANGED active
        /\ calls[c].state = "NEGOTIATING"
    BY <1>5 DEF Answer, setState
  <2>2. r \in Call /\ r.caller = calls[c].caller /\ r.callee = calls[c].callee
        /\ r.state = "CONNECTED" /\ r.deadline = NoTime
        /\ r.cleanupAt = calls[c].cleanupAt
    BY <1>0, <1>n DEF Call, State
  <2>3. ~Terminal(calls[c]) /\ ~Terminal(r) /\ r.state \notin Establishing
    BY <2>1, <2>2 DEF Terminal, TerminalStates, Establishing
  <2> HIDE DEF r
  <2> QED  BY <1>0, <2>1, <2>2, <2>3, ReplaceInv
<1>6. ASSUME ICECandidate(c, u, v) PROVE ManagerInv'
  <2>1. PICK r \in Call :
           /\ calls' = [calls EXCEPT ![c] = r]
           /\ r.caller = calls[c].caller /\ r.callee = calls[c].callee
           /\ r.state = calls[c].state /\ r.deadline = calls[c].deadline
           /\ r.cleanupAt = calls[c].cleanupAt
    <3>1. CASE u = calls[c].caller
      <4> DEFINE r == [calls[c] EXCEPT !.callerCandidates = @ + 1]
      <4>1. r \in Call
        BY <1>6, <1>0, <3>1, LimitAssumption DEF ICECandidate, Call
      <4>2. calls' = [calls EXCEPT ![c] = r]
        BY <1>6, <3>1 DEF ICECandidate
      <4> QED  BY <4>1, <4>2, <1>0 DEF Call
    <3>2. CASE u # calls[c].caller
      <4> DEFINE r == [calls[c] EXCEPT !.calleeCandidates = @ + 1]
      <4>1. r \in Call
        BY <1>6, <1>0, <3>2, LimitAssumption DEF ICECandidate, Call
      <4>2. calls' = [calls EXCEPT ![c] = r]
        BY <1>6, <3>2 DEF ICECandidate
      <4> QED  BY <4>1, <4>2, <1>0 DEF Call
    <3> QED  BY <3>1, <3>2
  <2>2. UNCHANGED active /\ ~Terminal(calls[c])
    BY <1>6 DEF ICECandidate, Terminal, TerminalStates, Established
  <2>3. ~Terminal(r)
    BY <2>1, <2>2 DEF Terminal
  <2> QED  BY <1>0, <2>1, <2>2, <2>3, ReplaceInv
<1>7. ASSUME ICEComplete(c, u, v) PROVE ManagerInv'
  BY <1>7 DEF ICEComplete, mvars, ManagerInv, ManagerTypeOK, BusyConsistent, SweepCanFinish
<1>8. ASSUME NEW lag \in Lags, End(c, u, v, lag) PROVE ManagerInv'
  <2>1. ~Terminal(calls[c]) /\ finish(c, "ENDED", lag)
    BY <1>8 DEF End, Terminal, TerminalStates, Established
  <2> QED  BY <1>0, <2>1, FinishInv DEF TerminalStates
<1> QED  BY <1>1, <1>2, <1>3, <1>4, <1>5, <1>6, <1>7, <1>8 DEF Transition

\* Expire ends every due call at once and deletes old ones.
LEMMA ExpireInv ==
  ASSUME ManagerInv, NEW lag \in Lags, Expire(lag)
  PROVE  ManagerInv'
<1> DEFINE E == Expired(lag)
           D == Cleaned(lag)
           F == UNION {Participants(calls[c]) : c \in E}
<1>0. /\ E \subseteq DOMAIN calls /\ \A c \in E : ~Terminal(calls[c])
      /\ D \subseteq DOMAIN calls /\ \A c \in D : Terminal(calls[c])
      /\ \A u : u \in F <=> \E c \in E : u \in Participants(calls[c])
  BY DEF Expired, Cleaned
<1>1. /\ DOMAIN calls' = DOMAIN calls \ D
      /\ \A c \in DOMAIN calls' : calls'[c] =
            IF c \in E THEN finished(calls[c], "TIMED_OUT", lag) ELSE calls[c]
      /\ calls' = [c \in DOMAIN calls' |-> calls'[c]]
  BY DEF Expire
<1>2. /\ DOMAIN active' = DOMAIN active \ F
      /\ \A u \in DOMAIN active' : active'[u] = active[u]
      /\ active' \in [DOMAIN active' -> CallIds]
  BY DEF Expire, Delete, ManagerInv, ManagerTypeOK
<1> HIDE DEF E, D, F
<1>3. \A c \in DOMAIN calls' :
         /\ calls'[c] \in Call
         /\ calls'[c].caller = calls[c].caller /\ calls'[c].callee = calls[c].callee
         /\ c \in E => /\ calls'[c].state = "TIMED_OUT"
                       /\ calls'[c].deadline = NoTime /\ calls'[c].cleanupAt # NoTime
         /\ c \notin E => calls'[c] = calls[c]
  <2> TAKE c \in DOMAIN calls'
  <2>1. calls[c] \in Call /\ c \in DOMAIN calls
    BY <1>1 DEF ManagerInv, ManagerTypeOK
  <2>2. CASE c \in E
    <3> DEFINE r == finished(calls[c], "TIMED_OUT", lag)
    <3>1. /\ r \in Call /\ r.caller = calls[c].caller /\ r.callee = calls[c].callee
          /\ r.state = "TIMED_OUT" /\ r.deadline = NoTime /\ r.cleanupAt # NoTime
      BY <2>1, FinishedCall DEF TerminalStates
    <3>2. calls'[c] = r
      BY <2>2, <1>1
    <3> HIDE DEF r
    <3> QED  BY <3>1, <3>2, <2>2
  <2>3. CASE c \notin E
    BY <2>1, <2>3, <1>1
  <2> QED  BY <2>2, <2>3
<1>4. ManagerTypeOK'
  BY <1>1, <1>2, <1>3 DEF ManagerInv, ManagerTypeOK
<1>5. BusyConsistent'
  <2>1. \A c \in DOMAIN calls' : calls'[c].caller # calls'[c].callee
    BY <1>1, <1>3 DEF ManagerInv, BusyConsistent
  <2>2. \A c \in DOMAIN calls' :
          /\ Participants(calls'[c]) = Participants(calls[c])
          /\ Terminal(calls'[c]) <=> (c \in E \/ Terminal(calls[c]))
    BY <1>3 DEF Participants, Terminal, TerminalStates
  <2>3. ASSUME NEW u \in Users, NEW c \in CallIds
        PROVE  (u \in DOMAIN active' /\ active'[u] = c)
                 <=> /\ c \in DOMAIN calls' /\ ~Terminal(calls'[c])
                     /\ u \in Participants(calls'[c])
    <3>1. ASSUME u \in DOMAIN active', active'[u] = c
          PROVE  /\ c \in DOMAIN calls' /\ ~Terminal(calls'[c])
                 /\ u \in Participants(calls'[c])
      <4>1. /\ c \in DOMAIN calls /\ ~Terminal(calls[c])
            /\ u \in Participants(calls[c]) /\ u \notin F
        BY <3>1, <1>2 DEF ManagerInv, BusyConsistent
      <4> QED  BY <4>1, <1>0, <1>1, <2>2
    <3>2. ASSUME c \in DOMAIN calls', ~Terminal(calls'[c]), u \in Participants(calls'[c])
          PROVE  u \in DOMAIN active' /\ active'[u] = c
      <4>1. c \in DOMAIN calls /\ ~Terminal(calls[c]) /\ c \notin E
            /\ u \in Participants(calls[c])
        BY <3>2, <1>1, <2>2
      <4>2. u \in DOMAIN active /\ active[u] = c
        BY <4>1 DEF ManagerInv, BusyConsistent
      <4>3. \A d \in E : u \notin Participants(calls[d])
        BY <4>1, <4>2, <1>0 DEF ManagerInv, BusyConsistent, ManagerTypeOK
      <4> QED  BY <4>2, <4>3, <1>0, <1>2
    <3> QED  BY <3>1, <3>2
  <2> QED  BY <2>1, <2>3 DEF BusyConsistent
<1>6. SweepCanFinish'
  BY <1>1, <1>3 DEF ManagerInv, SweepCanFinish, Terminal, TerminalStates, Establishing
<1> QED  BY <1>4, <1>5, <1>6 DEF ManagerInv

\* Disconnect ends the user's live call; the branch for a dangling busy entry
\* never changes anything.
LEMMA DisconnectInv ==
  ASSUME ManagerInv, NEW u \in Users, NEW lag \in Lags, Disconnect(u, lag)
  PROVE  ManagerInv'
<1>1. CASE Dropped(u) = {}
  <2>1. u \notin DOMAIN active
    BY <1>1 DEF Dropped, ManagerInv, BusyConsistent, ManagerTypeOK
  <2>2. active' = active /\ calls' = calls
    <3>1. active' = Delete(active, {u}) /\ calls' = calls
      BY <1>1 DEF Disconnect
    <3>2. Delete(active, {u}) = active
      BY <2>1 DEF Delete, ManagerInv, ManagerTypeOK
    <3> QED  BY <3>1, <3>2
  <2> QED  BY <2>2 DEF ManagerInv, ManagerTypeOK, BusyConsistent, SweepCanFinish
<1>2. CASE Dropped(u) # {}
  <2>1. PICK c \in Dropped(u) : finish(c, "ENDED", lag)
    BY <1>2 DEF Disconnect
  <2>2. c \in DOMAIN calls /\ ~Terminal(calls[c])
    BY DEF Dropped
  <2> QED  BY <2>1, <2>2, FinishInv DEF TerminalStates
<1> QED  BY <1>1, <1>2

\* Time only moves the instants.
LEMMA TickInv ==
  ASSUME ManagerInv, Tick
  PROVE  ManagerInv'
<1>1. /\ DOMAIN calls' = DOMAIN calls /\ calls' = [c \in DOMAIN calls' |-> calls'[c]]
      /\ active' = active
      /\ \A c \in DOMAIN calls : calls'[c] =
            [calls[c] EXCEPT !.deadline = Older(@), !.cleanupAt = Older(@)]
  BY DEF Tick
<1>2. \A i \in Instant : Older(i) \in Instant /\ (Older(i) # NoTime <=> i # NoTime)
  BY TimeAssumption DEF Older, Instant
<1>3. \A c \in DOMAIN calls :
         /\ calls'[c] \in Call
         /\ calls'[c].caller = calls[c].caller /\ calls'[c].callee = calls[c].callee
         /\ calls'[c].state = calls[c].state
         /\ calls'[c].deadline # NoTime <=> calls[c].deadline # NoTime
         /\ calls'[c].cleanupAt # NoTime <=> calls[c].cleanupAt # NoTime
  <2> TAKE c \in DOMAIN calls
  <2>1. calls[c] \in Call
    BY DEF ManagerInv, ManagerTypeOK
  <2> QED  BY <2>1, <1>1, <1>2 DEF Call
<1>4. ManagerTypeOK'
  BY <1>1, <1>3 DEF ManagerInv, ManagerTypeOK
<1>5. BusyConsistent'
  BY <1>1, <1>3 DEF ManagerInv, BusyConsistent, Participants, Terminal
<1>6. SweepCanFinish'
  BY <1>1, <1>3 DEF ManagerInv, SweepCanFinish, Terminal
<1> QED  BY <1>4, <1>5, <1>6 DEF ManagerInv

\* Every step of the manager keeps the invariant.
LEMMA NextInv == ManagerInv /\ [ManagerNext]_mvars => ManagerInv'
<1> SUFFICES ASSUME ManagerInv, [ManagerNext]_mvars PROVE ManagerInv'
  OBVIOUS
<1>1. CASE UNCHANGED mvars
  BY <1>1 DEF mvars, ManagerInv, ManagerTypeOK, BusyConsistent, SweepCanFinish
<1>2. CASE ManagerNext
  BY <1>2, InviteInv, TransitionInv, DisconnectInv, ExpireInv, TickInv
  DEF ManagerNext, Sweep
<1> QED  BY <1>1, <1>2

\* The invariant of the call table.
THEOREM ManagerInvariant == ManagerSpec => []ManagerInv
<1>1. ManagerInit => ManagerInv
  BY NewInv DEF ManagerInit
<1> QED  BY <1>1, NextInv, PTL DEF ManagerSpec

\* Both maps of the manager keep their types.
THEOREM TypeCorrect == ManagerSpec => []ManagerTypeOK
<1>1. ManagerInv => ManagerTypeOK
  BY DEF ManagerInv
<1> QED  BY <1>1, ManagerInvariant, PTL

\* For any number of users and calls, the busy index and the call table agree:
\* no user is in two live calls, and no finished call keeps a user busy.
THEOREM BusyIndexCorrect == ManagerSpec => []BusyConsistent
<1>1. ManagerInv => BusyConsistent
  BY DEF ManagerInv
<1> QED  BY <1>1, ManagerInvariant, PTL

\* Every call but a connected one carries the instant at which the sweeper
\* acts on it.
THEOREM SweepInstants == ManagerSpec => []SweepCanFinish
<1>1. ManagerInv => SweepCanFinish
  BY DEF ManagerInv
<1> QED  BY <1>1, ManagerInvariant, PTL

----------------------------------------------------------------------------
\* What a step may do to a call of the table: leave it alone, let it age,
\* carry a live call on (with a fresh budget only by an ICE restart), time it
\* out when its deadline has passed, or delete it when its cleanup time has.
Kept(c) == c \in DOMAIN calls' /\ calls'[c] = calls[c]

Aged(c) ==
    /\ c \in DOMAIN calls'
    /\ calls'[c] = [calls[c] EXCEPT !.deadline = Older(@), !.cleanupAt = Older(@)]

CarriedOn(c) ==
    /\ c \in DOMAIN calls'
    /\ ~Terminal(calls[c]) /\ calls'[c].state # "TIMED_OUT"
    /\ \/ calls[c].state = "CONNECTED" /\ calls'[c].state = "NEGOTIATING"
       \/ /\ calls'[c].callerCandidates >= calls[c].callerCandidates
          /\ calls'[c].calleeCandidates >= calls[c].calleeCandidates

TimedOut(c) ==
    /\ c \in DOMAIN calls'
    /\ calls[c].state \in Establishing /\ calls[c].deadline <= 0
    /\ calls'[c].callerCandidates = calls[c].callerCandidates
    /\ calls'[c].calleeCandidates = calls[c].calleeCandidates

Forgotten(c) ==
    c \notin DOMAIN calls' /\ Terminal(calls[c]) /\ calls[c].cleanupAt <= 0

Evolves(c) == Kept(c) \/ Aged(c) \/ CarriedOn(c) \/ TimedOut(c) \/ Forgotten(c)

\* A finished call is not timed out and keeps its candidate counters.
LEMMA FinishEvolves ==
  ASSUME ManagerInv, NEW d \in DOMAIN calls, ~Terminal(calls[d]),
         NEW s \in TerminalStates \ {"TIMED_OUT"}, NEW lag \in Lags,
         finish(d, s, lag)
  PROVE  \A c \in DOMAIN calls : Evolves(c)
<1>1. calls[d] \in Call
  BY DEF ManagerInv, ManagerTypeOK
<1>2. /\ DOMAIN calls' = DOMAIN calls /\ calls'[d] = finished(calls[d], s, lag)
      /\ \A c \in DOMAIN calls : c # d => calls'[c] = calls[c]
  BY DEF ManagerInv, ManagerTypeOK, finish
<1>3. /\ calls'[d].state = s
      /\ calls'[d].callerCandidates = calls[d].callerCandidates
      /\ calls'[d].calleeCandidates = calls[d].calleeCandidates
  BY <1>1, <1>2 DEF finished, setState, Call
<1>4. CarriedOn(d)
  BY <1>1, <1>2, <1>3, LimitAssumption DEF CarriedOn, Call
<1> QED  BY <1>2, <1>4 DEF Evolves, Kept

\* The signals of the clients carry a live call on.
LEMMA TransitionEvolves ==
  ASSUME ManagerInv, NEW d \in CallIds, NEW u \in Users, NEW v \in Users,
         Transition(d, u, v)
  PROVE  \A c \in DOMAIN calls : Evolves(c)
<1>0. d \in DOMAIN calls /\ calls[d] \in Call
  BY DEF ManagerInv, ManagerTypeOK, Transition, Accept, Decline, Cancel,
         Offer, Answer, ICECandidate, ICEComplete, End, Between
<1>s. \A r : calls' = [calls EXCEPT ![d] = r] =>
          /\ DOMAIN calls' = DOMAIN calls /\ calls'[d] = r
          /\ \A c \in DOMAIN calls : c # d => calls'[c] = calls[c]
  BY <1>0 DEF ManagerInv, ManagerTypeOK
<1>1. ASSUME NEW lag \in Lags, Accept(d, u, v, lag)
      PROVE  \A c \in DOMAIN calls : Evolves(c)
  <2> DEFINE r == setState(calls[d], "ACCEPTED", NegotiationTimeout - lag)
  <2>1. calls' = [calls EXCEPT ![d] = r] /\ calls[d].state = "RINGING"
    BY <1>1 DEF Accept
  <2>2. /\ r.state = "ACCEPTED" /\ r.callerCandidates = calls[d].callerCandidates
        /\ r.calleeCandidates = calls[d].calleeCandidates
    BY <1>0 DEF setState, Call
  <2> HIDE DEF r
  <2>3. CarriedOn(d)
    BY <1>0, <1>s, <2>1, <2>2, LimitAssumption
    DEF CarriedOn, Call, Terminal, TerminalStates
  <2> QED  BY <1>s, <2>1, <2>3 DEF Evolves, Kept
<1>2. ASSUME NEW lag \in Lags,
             Decline(d, u, v, lag) \/ Cancel(d, u, v, lag) \/ End(d, u, v, lag)
      PROVE  \A c \in DOMAIN calls : Evolves(c)
  <2>1. ~Terminal(calls[d])
    BY <1>2 DEF Decline, Cancel, End, Established, Terminal, TerminalStates
  <2>2. PICK s \in {"DECLINED", "CANCELLED", "ENDED"} : finish(d, s, lag)
    BY <1>2 DEF Decline, Cancel, End
  <2>3. s \in TerminalStates \ {"TIMED_OUT"}
    BY DEF TerminalStates
  <2> QED  BY <1>0, <2>1, <2>2, <2>3, FinishEvolves
<1>3. ASSUME NEW lag \in Lags, Offer(d, u, v, lag)
      PROVE  \A c \in DOMAIN calls : Evolves(c)
  <2> DEFINE b == IF calls[d].state = "CONNECTED"
                  THEN [calls[d] EXCEPT !.callerCandidates = 0,
                                        !.calleeCandidates = 0]
                  ELSE calls[d]
             r == setState(b, "NEGOTIATING", NegotiationTimeout - lag)
  <2>1. calls' = [calls EXCEPT ![d] = r] /\ calls[d].state \in {"ACCEPTED", "CONNECTED"}
    BY <1>3 DEF Offer
  <2>2. r.state = "NEGOTIATING"
    BY <1>0 DEF setState, Call
  <2>3. calls[d].state = "ACCEPTED" =>
          /\ r.callerCandidates = calls[d].callerCandidates
          /\ r.calleeCandidates = calls[d].calleeCandidates
    BY <1>0 DEF setState, Call
  <2> HIDE DEF r
  <2>4. CarriedOn(d)
    BY <1>0, <1>s, <2>1, <2>2, <2>3, LimitAssumption
    DEF CarriedOn, Call, Terminal, TerminalStates
  <2> QED  BY <1>s, <2>1, <2>4 DEF Evolves, Kept
<1>4. ASSUME Answer(d, u, v)
      PROVE  \A c \in DOMAIN calls : Evolves(c)
  <2> DEFINE r == setState(calls[d], "CONNECTED", NoTime)
  <2>1. calls' = [calls EXCEPT ![d] = r] /\ calls[d].state = "NEGOTIATING"
    BY <1>4 DEF Answer
  <2>2. /\ r.state = "CONNECTED" /\ r.callerCandidates = calls[d].callerCandidates
        /\ r.calleeCandidates = calls[d].calleeCandidates
    BY <1>0 DEF setState, Call
  <2> HIDE DEF r
  <2>3. CarriedOn(d)
    BY <1>0, <1>s, <2>1, <2>2, LimitAssumption
    DEF CarriedOn, Call, Terminal, TerminalStates
  <2> QED  BY <1>s, <2>1, <2>3 DEF Evolves, Kept
<1>5. ASSUME ICECandidate(d, u, v)
      PROVE  \A c \in DOMAIN calls : Evolves(c)
  <2>1. PICK r : /\ calls' = [calls EXCEPT ![d] = r]
                 /\ r.state = calls[d].state
                 /\ r.callerCandidates >= calls[d].callerCandidates
                 /\ r.calleeCandidates >= calls[d].calleeCandidates
    <3>1. CASE u = calls[d].caller
      <4> DEFINE r == [calls[d] EXCEPT !.callerCandidates = @ + 1]
      <4>1. calls' = [calls EXCEPT ![d] = r]
        BY <1>5, <3>1 DEF ICECandidate
      <4>2. /\ r.state = calls[d].state
            /\ r.callerCandidates = calls[d].callerCandidates + 1
            /\ r.calleeCandidates = calls[d].calleeCandidates
        BY <1>0 DEF Call
      <4>3. /\ r.callerCandidates >= calls[d].callerCandidates
            /\ r.calleeCandidates >= calls[d].calleeCandidates
        BY <4>2, <1>0, LimitAssumption DEF Call
      <4> QED  BY <4>1, <4>2, <4>3
    <3>2. CASE u # calls[d].caller
      <4> DEFINE r == [calls[d] EXCEPT !.calleeCandidates = @ + 1]
      <4>1. calls' = [calls EXCEPT ![d] = r]
        BY <1>5, <3>2 DEF ICECandidate
      <4>2. /\ r.state = calls[d].state
            /\ r.callerCandidates = calls[d].callerCandidates
            /\ r.calleeCandidates = calls[d].calleeCandidates + 1
        BY <1>0 DEF Call
      <4>3. /\ r.callerCandidates >= calls[d].callerCandidates
            /\ r.calleeCandidates >= calls[d].calleeCandidates
        BY <4>2, <1>0, LimitAssumption DEF Call
      <4> QED  BY <4>1, <4>2, <4>3
    <3> QED  BY <3>1, <3>2
  <2>2. calls[d].state \in Established
    BY <1>5 DEF ICECandidate
  <2>3. CarriedOn(d)
    BY <1>0, <1>s, <2>1, <2>2 DEF CarriedOn, Established, Terminal, TerminalStates
  <2> QED  BY <1>s, <2>1, <2>3 DEF Evolves, Kept
<1>6. ASSUME ICEComplete(d, u, v)
      PROVE  \A c \in DOMAIN calls : Evolves(c)
  BY <1>6 DEF ICEComplete, mvars, Evolves, Kept
<1> QED  BY <1>1, <1>2, <1>3, <1>4, <1>5, <1>6 DEF Transition

\* The sweeper times out and deletes only what is due.
LEMMA ExpireEvolves ==
  ASSUME ManagerInv, NEW lag \in Lags, Expire(lag)
  PROVE  \A c \in DOMAIN calls : Evolves(c)
<1> TAKE c \in DOMAIN calls
<1>0. /\ calls[c] \in Call
      /\ calls[c].deadline # NoTime <=> calls[c].state \in Establishing
  BY DEF ManagerInv, ManagerTypeOK, SweepCanFinish
<1>1. \A i \in Instant : Reached(i, lag) => i # NoTime /\ i <= 0
  BY TimeAssumption DEF Reached, Instant, Lags
<1>2. CASE c \in Cleaned(lag)
  <2>1. c \notin DOMAIN calls'
    BY <1>2 DEF Expire
  <2>2. Terminal(calls[c]) /\ calls[c].cleanupAt <= 0
    BY <1>2, <1>0, <1>1 DEF Cleaned, Call
  <2> QED  BY <2>1, <2>2 DEF Evolves, Forgotten
<1>3. CASE c \in Expired(lag)
  <2>1. c \notin Cleaned(lag)
    BY <1>3 DEF Expired, Cleaned
  <2>2. c \in DOMAIN calls' /\ calls'[c] = finished(calls[c], "TIMED_OUT", lag)
    BY <1>3, <2>1 DEF Expire
  <2>3. /\ calls'[c].callerCandidates = calls[c].callerCandidates
        /\ calls'[c].calleeCandidates = calls[c].calleeCandidates
    BY <1>0, <2>2 DEF finished, setState, Call
  <2>4. calls[c].state \in Establishing /\ calls[c].deadline <= 0
    BY <1>3, <1>0, <1>1 DEF Expired, Call
  <2> QED  BY <2>2, <2>3, <2>4 DEF Evolves, TimedOut
<1>4. CASE c \notin Cleaned(lag) /\ c \notin Expired(lag)
  BY <1>4 DEF Expire, Evolves, Kept
<1> QED  BY <1>2, <1>3, <1>4

\* In every step every call of the table evolves in one of these ways.
LEMMA NextEvolves ==
  ManagerInv /\ [ManagerNext]_mvars => \A c \in DOMAIN calls : Evolves(c)
<1> SUFFICES ASSUME ManagerInv, [ManagerNext]_mvars
             PROVE  \A c \in DOMAIN calls : Evolves(c)
  OBVIOUS
<1>1. CASE UNCHANGED mvars
  BY <1>1 DEF mvars, Evolves, Kept
<1>2. ASSUME NEW d \in CallIds, NEW u \in Users, NEW v \in Users, NEW lag \in Lags,
             Invite(d, u, v, lag)
      PROVE  \A c \in DOMAIN calls : Evolves(c)
  BY <1>2 DEF Invite, InviteVerdict, Put, Evolves, Kept
<1>3. ASSUME NEW u \in Users, NEW lag \in Lags, Disconnect(u, lag)
      PROVE  \A c \in DOMAIN calls : Evolves(c)
  <2>1. CASE Dropped(u) = {}
    BY <1>3, <2>1 DEF Disconnect, Evolves, Kept
  <2>2. CASE Dropped(u) # {}
    <3>1. PICK d \in Dropped(u) : finish(d, "ENDED", lag)
      BY <1>3, <2>2 DEF Disconnect
    <3>2. d \in DOMAIN calls /\ ~Terminal(calls[d])
      BY DEF Dropped
    <3>3. "ENDED" \in TerminalStates \ {"TIMED_OUT"}
      BY DEF TerminalStates
    <3> QED  BY <3>1, <3>2, <3>3, FinishEvolves
  <2> QED  BY <2>1, <2>2
<1>4. ASSUME Tick
      PROVE  \A c \in DOMAIN calls : Evolves(c)
  BY <1>4 DEF Tick, Evolves, Aged
<1> QED  BY <1>1, <1>2, <1>3, <1>4, TransitionEvolves, ExpireEvolves DEF ManagerNext, Sweep

\* For any number of users and calls, a finished call is never revived or
\* rewritten, and its identifier becomes free only after its cleanup time.
THEOREM TerminalForGood == ManagerSpec => TerminalIsFinal
<1> DEFINE Final(c) ==
      Terminal(calls[c]) =>
        IF c \in DOMAIN calls'
        THEN [calls'[c] EXCEPT !.cleanupAt = 0] = [calls[c] EXCEPT !.cleanupAt = 0]
        ELSE calls[c].cleanupAt <= 0
<1>1. ASSUME ManagerInv, NEW c \in DOMAIN calls, Evolves(c)
      PROVE  Final(c)
  <2>0. /\ calls[c] \in Call
        /\ Terminal(calls[c]) => calls[c].deadline = NoTime
    BY <1>1 DEF ManagerInv, ManagerTypeOK, SweepCanFinish, Terminal, TerminalStates,
                Establishing
  <2>1. CASE Aged(c)
    <3> SUFFICES ASSUME Terminal(calls[c])
                 PROVE  [calls'[c] EXCEPT !.cleanupAt = 0]
                          = [calls[c] EXCEPT !.cleanupAt = 0]
      BY <2>1 DEF Aged
    <3>1. calls[c].deadline = Older(calls[c].deadline)
      BY <2>0 DEF Older
    <3> QED  BY <2>0, <2>1, <3>1 DEF Aged, Call
  <2>2. CASE TimedOut(c)
    BY <2>2 DEF TimedOut, Terminal, TerminalStates, Establishing
  <2> QED  BY <1>1, <2>1, <2>2 DEF Evolves, Kept, CarriedOn, Forgotten
<1>2. ManagerInv /\ [ManagerNext]_mvars => [\A c \in DOMAIN calls : Final(c)]_mvars
  BY <1>1, NextEvolves
<1> QED  BY <1>2, ManagerInvariant, PTL DEF ManagerSpec, TerminalIsFinal

\* The action of TimeoutOnlyWhenDue.
DueStep ==
    \A c \in DOMAIN calls \intersect DOMAIN calls' :
        calls'[c].state = "TIMED_OUT" /\ calls[c].state # "TIMED_OUT"
          => calls[c].state \in Establishing /\ calls[c].deadline <= 0

\* A step of the manager times out only what is due.
LEMMA NextDue == ManagerInv /\ [ManagerNext]_mvars => DueStep
<1> SUFFICES ASSUME ManagerInv, [ManagerNext]_mvars,
                    NEW c \in DOMAIN calls \intersect DOMAIN calls',
                    calls'[c].state = "TIMED_OUT", calls[c].state # "TIMED_OUT"
             PROVE  calls[c].state \in Establishing /\ calls[c].deadline <= 0
  BY DEF DueStep
<1>1. calls[c] \in Call /\ Evolves(c)
  BY NextEvolves DEF ManagerInv, ManagerTypeOK
<1>2. CASE Aged(c)
  BY <1>1, <1>2 DEF Aged, Call
<1> QED  BY <1>1, <1>2 DEF Evolves, Kept, CarriedOn, TimedOut, Forgotten

\* However late the sweeper's time is, it times a call out only after the
\* call's deadline, and never a call that was answered.
THEOREM TimeoutsAreDue == ManagerSpec => TimeoutOnlyWhenDue
<1>1. ManagerInv /\ [ManagerNext]_mvars => [DueStep]_mvars
  BY NextDue
<1> QED  BY <1>1, ManagerInvariant, PTL DEF ManagerSpec, TimeoutOnlyWhenDue, DueStep

\* A side's candidate budget is renewed by nothing but an ICE restart.
THEOREM BudgetRenewal == ManagerSpec => BudgetOnlyByRestart
<1> DEFINE Budget(c) ==
      (\/ calls'[c].callerCandidates < calls[c].callerCandidates
       \/ calls'[c].calleeCandidates < calls[c].calleeCandidates)
        => calls[c].state = "CONNECTED" /\ calls'[c].state = "NEGOTIATING"
<1>1. ASSUME ManagerInv, ManagerTypeOK',
             NEW c \in DOMAIN calls \intersect DOMAIN calls', Evolves(c)
      PROVE  Budget(c)
  <2>0. calls[c] \in Call /\ calls'[c] \in Call
    BY <1>1 DEF ManagerInv, ManagerTypeOK
  <2>1. CASE Aged(c)
    <3>1. /\ calls'[c].callerCandidates = calls[c].callerCandidates
          /\ calls'[c].calleeCandidates = calls[c].calleeCandidates
      BY <2>0, <2>1 DEF Aged, Call
    <3> QED  BY <3>1, <2>0, LimitAssumption DEF Call
  <2>2. CASE Kept(c) \/ TimedOut(c)
    BY <2>0, <2>2, LimitAssumption DEF Kept, TimedOut, Call
  <2>3. CASE CarriedOn(c)
    BY <2>0, <2>3, LimitAssumption DEF CarriedOn, Call
  <2> QED  BY <1>1, <2>1, <2>2, <2>3 DEF Evolves, Forgotten
<1>2. ManagerInv /\ ManagerInv' /\ [ManagerNext]_mvars
        => [\A c \in DOMAIN calls \intersect DOMAIN calls' : Budget(c)]_mvars
  BY <1>1, NextEvolves DEF ManagerInv
<1> QED  BY <1>2, ManagerInvariant, PTL DEF ManagerSpec, BudgetOnlyByRestart

----------------------------------------------------------------------------
(***************************************************************************)
(* The refinement of CallContract.  Under the mapping of CallManager an    *)
(* invitation is Ask, an acceptance Agree, every way to end, time out or   *)
(* delete calls is Close, and the rest stutters.  Only Ask needs more than *)
(* the types: the contract asks whether a user is in an open call, the     *)
(* code whether the user is in the busy index, and BusyConsistent is what  *)
(* makes the two answers agree.                                            *)
(***************************************************************************)

\* What the mapping shows of a call.
View(call) == [caller |-> call.caller, callee |-> call.callee,
               agreed |-> call.state # "RINGING"]

Mapping == OpenCalls = [c \in DOMAIN calls \ ClosedCalls |-> View(calls[c])]

\* The open calls as a function, before and after a step.
LEMMA OpenView == Mapping /\ Mapping'
<1>1. {d \in DOMAIN calls : ~Terminal(calls[d])} = DOMAIN calls \ ClosedCalls
  BY DEF ClosedCalls
<1>2. {d \in DOMAIN calls' : ~Terminal(calls'[d])} = DOMAIN calls' \ ClosedCalls'
  BY DEF ClosedCalls
<1> QED  BY <1>1, <1>2 DEF OpenCalls, View, Mapping

\* The empty table is the contract's initial state.
LEMMA ContractInit == ManagerInit => Contract!Init
<1> SUFFICES ASSUME ManagerInit PROVE Contract!Init
  OBVIOUS
<1>1. DOMAIN calls = {}
  BY DEF ManagerInit, New
<1>2. ClosedCalls = {} /\ OpenCalls = [c \in {} |-> View(calls[c])]
  BY <1>1, OpenView DEF Mapping, ClosedCalls
<1> QED  BY <1>2 DEF Contract!Init

\* A step that leaves the two users of every call, and whether it is over or
\* still ringing, shows nothing.
LEMMA Invisible ==
  ASSUME DOMAIN calls' = DOMAIN calls,
         \A c \in DOMAIN calls :
            /\ calls'[c].caller = calls[c].caller
            /\ calls'[c].callee = calls[c].callee
            /\ calls'[c].state = "RINGING" <=> calls[c].state = "RINGING"
            /\ Terminal(calls'[c]) <=> Terminal(calls[c])
  PROVE  UNCHANGED Contract!vars
<1>1. ClosedCalls' = ClosedCalls
  BY DEF ClosedCalls
<1>2. \A c \in DOMAIN calls : View(calls'[c]) = View(calls[c])
  BY DEF View
<1>3. OpenCalls' = [c \in DOMAIN calls' \ ClosedCalls' |-> View(calls'[c])]
  BY OpenView DEF Mapping
<1>4. OpenCalls' = OpenCalls
  BY <1>1, <1>2, <1>3, OpenView DEF Mapping
<1> QED  BY <1>1, <1>4 DEF Contract!vars

\* A step that ends the live calls E, deletes the finished calls D and leaves
\* the others alone is Close(E, D).
LEMMA Closing ==
  ASSUME NEW E \in SUBSET (DOMAIN calls \ ClosedCalls), NEW D \in SUBSET ClosedCalls,
         DOMAIN calls' = DOMAIN calls \ D,
         \A c \in DOMAIN calls' :
            IF c \in E THEN Terminal(calls'[c]) ELSE calls'[c] = calls[c]
  PROVE  Contract!Next
<1>1. ClosedCalls' = (ClosedCalls \ D) \union E
  BY DEF ClosedCalls
<1>2. DOMAIN calls' \ ClosedCalls' = (DOMAIN calls \ ClosedCalls) \ E
  BY <1>1 DEF ClosedCalls
<1>3. OpenCalls' = [c \in DOMAIN calls' \ ClosedCalls' |-> View(calls'[c])]
  BY OpenView DEF Mapping
<1>4. \A c \in (DOMAIN calls \ ClosedCalls) \ E : calls'[c] = calls[c]
  BY <1>2
<1>5. OpenCalls = [c \in DOMAIN calls \ ClosedCalls |-> View(calls[c])]
      /\ DOMAIN OpenCalls = DOMAIN calls \ ClosedCalls
  BY OpenView DEF Mapping
<1>6. OpenCalls' = [c \in DOMAIN OpenCalls \ E |-> OpenCalls[c]]
  BY <1>2, <1>3, <1>4, <1>5
<1>7. Contract!Close(E, D)
  BY <1>1, <1>5, <1>6 DEF Contract!Close
<1> QED  BY <1>5, <1>7 DEF Contract!Next

\* finish closes one call.
LEMMA FinishCloses ==
  ASSUME ManagerInv, NEW c \in DOMAIN calls, ~Terminal(calls[c]),
         NEW s \in TerminalStates, NEW lag \in Lags, finish(c, s, lag)
  PROVE  Contract!Next
<1>1. calls[c] \in Call
  BY DEF ManagerInv, ManagerTypeOK
<1>2. /\ DOMAIN calls' = DOMAIN calls /\ calls'[c] = finished(calls[c], s, lag)
      /\ \A d \in DOMAIN calls : d # c => calls'[d] = calls[d]
  BY DEF ManagerInv, ManagerTypeOK, finish
<1>3. Terminal(calls'[c])
  BY <1>1, <1>2, FinishedCall DEF Terminal
<1>4. {c} \in SUBSET (DOMAIN calls \ ClosedCalls) /\ {} \in SUBSET ClosedCalls
  BY DEF ClosedCalls
<1>5. /\ DOMAIN calls' = DOMAIN calls \ {}
      /\ \A d \in DOMAIN calls' :
            IF d \in {c} THEN Terminal(calls'[d]) ELSE calls'[d] = calls[d]
  BY <1>2, <1>3
<1> QED  BY <1>4, <1>5, Closing

\* An invitation is Ask: a user who is not in the busy index is in no open call.
LEMMA InviteAsks ==
  ASSUME ManagerInv, NEW c \in CallIds, NEW u \in Users, NEW v \in Users,
         NEW lag \in Lags, Invite(c, u, v, lag)
  PROVE  Contract!Next
<1>0. u # v /\ c \notin DOMAIN calls /\ u \notin DOMAIN active /\ v \notin DOMAIN active
  BY DEF Invite, InviteVerdict
<1> DEFINE r == [caller |-> u, callee |-> v, state |-> "RINGING",
                 deadline |-> RingTimeout - lag, cleanupAt |-> NoTime,
                 callerCandidates |-> 0, calleeCandidates |-> 0]
<1>1. View(r) = [caller |-> u, callee |-> v, agreed |-> FALSE] /\ ~Terminal(r)
  BY DEF View, Terminal, TerminalStates
<1>2. calls' = Put(calls, c, r)
  BY DEF Invite
<1> HIDE DEF r
<1>3. /\ DOMAIN calls' = DOMAIN calls \union {c} /\ calls'[c] = r
      /\ \A d \in DOMAIN calls : calls'[d] = calls[d]
  BY <1>0, <1>2 DEF Put
<1>4. ClosedCalls' = ClosedCalls /\ c \notin ClosedCalls
  BY <1>0, <1>1, <1>3 DEF ClosedCalls
<1>5. OpenCalls = [d \in DOMAIN calls \ ClosedCalls |-> View(calls[d])]
      /\ DOMAIN OpenCalls = DOMAIN calls \ ClosedCalls
  BY OpenView DEF Mapping
<1>6. OpenCalls' = [d \in DOMAIN calls' \ ClosedCalls' |-> View(calls'[d])]
  BY OpenView DEF Mapping
<1>7. OpenCalls' = [d \in DOMAIN OpenCalls \union {c} |->
          IF d = c THEN [caller |-> u, callee |-> v, agreed |-> FALSE]
                   ELSE OpenCalls[d]]
  BY <1>0, <1>1, <1>3, <1>4, <1>5, <1>6
<1>8. ASSUME NEW w \in Users, w \notin DOMAIN active, NEW d \in DOMAIN OpenCalls
      PROVE  w # OpenCalls[d].caller /\ w # OpenCalls[d].callee
  <2>1. d \in CallIds /\ d \in DOMAIN calls /\ ~Terminal(calls[d])
    BY <1>5 DEF ManagerInv, ManagerTypeOK, ClosedCalls
  <2>2. w \notin Participants(calls[d])
    BY <1>8, <2>1 DEF ManagerInv, BusyConsistent
  <2>3. /\ OpenCalls[d].caller = calls[d].caller
        /\ OpenCalls[d].callee = calls[d].callee
    BY <1>5 DEF View
  <2> QED  BY <2>2, <2>3 DEF Participants
<1>9. Contract!Ask(c, u, v)
  BY <1>0, <1>4, <1>5, <1>7, <1>8 DEF Contract!Ask, Contract!Engaged
<1> QED  BY <1>9 DEF Contract!Next

\* An acceptance is Agree.
LEMMA AcceptAgrees ==
  ASSUME ManagerInv, NEW c \in CallIds, NEW u \in Users, NEW v \in Users,
         NEW lag \in Lags, Accept(c, u, v, lag)
  PROVE  Contract!Next
<1> DEFINE r == setState(calls[c], "ACCEPTED", NegotiationTimeout - lag)
<1>0. /\ c \in DOMAIN calls /\ calls[c] \in Call /\ calls[c].state = "RINGING"
      /\ calls' = [calls EXCEPT ![c] = r]
  BY DEF ManagerInv, ManagerTypeOK, Accept, Between
<1>1. /\ r.caller = calls[c].caller /\ r.callee = calls[c].callee
      /\ r.state = "ACCEPTED"
  BY <1>0 DEF setState, Call
<1> HIDE DEF r
<1>2. /\ DOMAIN calls' = DOMAIN calls /\ calls'[c] = r
      /\ \A d \in DOMAIN calls : d # c => calls'[d] = calls[d]
  BY <1>0 DEF ManagerInv, ManagerTypeOK
<1>3. ClosedCalls' = ClosedCalls /\ c \notin ClosedCalls
  BY <1>0, <1>1, <1>2 DEF ClosedCalls, Terminal, TerminalStates
<1>4. OpenCalls = [d \in DOMAIN calls \ ClosedCalls |-> View(calls[d])]
      /\ DOMAIN OpenCalls = DOMAIN calls \ ClosedCalls
  BY OpenView DEF Mapping
<1>5. OpenCalls' = [d \in DOMAIN calls' \ ClosedCalls' |-> View(calls'[d])]
  BY OpenView DEF Mapping
<1>6. OpenCalls[c].agreed = FALSE
  BY <1>0, <1>3, <1>4 DEF View
<1>7. [OpenCalls[c] EXCEPT !.agreed = TRUE] = View(r)
  <2>1. OpenCalls[c] = [caller |-> calls[c].caller, callee |-> calls[c].callee,
                        agreed |-> FALSE]
    BY <1>0, <1>3, <1>4 DEF View
  <2>2. View(r) = [caller |-> calls[c].caller, callee |-> calls[c].callee,
                   agreed |-> TRUE]
    BY <1>1 DEF View
  <2>3. ASSUME NEW x, NEW y, NEW a, NEW b
        PROVE  [[caller |-> x, callee |-> y, agreed |-> a] EXCEPT !.agreed = b]
                 = [caller |-> x, callee |-> y, agreed |-> b]
    OBVIOUS
  <2>4. [[caller |-> calls[c].caller, callee |-> calls[c].callee, agreed |-> FALSE]
            EXCEPT !.agreed = TRUE]
          = [caller |-> calls[c].caller, callee |-> calls[c].callee, agreed |-> TRUE]
    BY <2>3, Zenon
  <2> QED  BY <2>1, <2>2, <2>4, Zenon
<1>8. OpenCalls' = [OpenCalls EXCEPT ![c] = View(r)]
  BY <1>0, <1>2, <1>3, <1>4, <1>5
<1>9. OpenCalls' = [OpenCalls EXCEPT ![c].agreed = TRUE]
  BY <1>7, <1>8
<1>10. Contract!Agree(c)
  BY <1>0, <1>3, <1>4, <1>6, <1>9 DEF Contract!Agree
<1> QED  BY <1>10 DEF Contract!Next

\* A signal that moves on a live call which has been accepted is not visible.
LEMMA SignalInvisible ==
  ASSUME ManagerInv, NEW c \in DOMAIN calls, calls[c].state \in Established,
         NEW r, r.state \in Established,
         r.caller = calls[c].caller, r.callee = calls[c].callee,
         calls' = [calls EXCEPT ![c] = r]
  PROVE  UNCHANGED Contract!vars
<1>1. /\ DOMAIN calls' = DOMAIN calls /\ calls'[c] = r
      /\ \A d \in DOMAIN calls : d # c => calls'[d] = calls[d]
  BY DEF ManagerInv, ManagerTypeOK
<1>2. \A d \in DOMAIN calls :
            /\ calls'[d].caller = calls[d].caller
            /\ calls'[d].callee = calls[d].callee
            /\ calls'[d].state = "RINGING" <=> calls[d].state = "RINGING"
            /\ Terminal(calls'[d]) <=> Terminal(calls[d])
  BY <1>1 DEF Established, Terminal, TerminalStates
<1> QED  BY <1>1, <1>2, Invisible

\* A signal of a call agrees to it, closes it, or is invisible to the contract.
LEMMA TransitionRefines ==
  ASSUME ManagerInv, NEW c \in CallIds, NEW u \in Users, NEW v \in Users,
         Transition(c, u, v)
  PROVE  [Contract!Next]_(Contract!vars)
<1>0. c \in DOMAIN calls /\ calls[c] \in Call
  BY DEF ManagerInv, ManagerTypeOK, Transition, Accept, Decline, Cancel,
         Offer, Answer, ICECandidate, ICEComplete, End, Between
<1>1. ASSUME NEW lag \in Lags, Accept(c, u, v, lag)
      PROVE  Contract!Next
  BY <1>1, AcceptAgrees
<1>2. ASSUME NEW lag \in Lags,
             Decline(c, u, v, lag) \/ Cancel(c, u, v, lag) \/ End(c, u, v, lag)
      PROVE  Contract!Next
  <2>1. ~Terminal(calls[c])
    BY <1>2 DEF Decline, Cancel, End, Established, Terminal, TerminalStates
  <2>2. PICK s \in {"DECLINED", "CANCELLED", "ENDED"} : finish(c, s, lag)
    BY <1>2 DEF Decline, Cancel, End
  <2>3. s \in TerminalStates
    BY DEF TerminalStates
  <2> QED  BY <1>0, <2>1, <2>2, <2>3, FinishCloses
<1>3. ASSUME NEW lag \in Lags, Offer(c, u, v, lag)
      PROVE  UNCHANGED Contract!vars
  <2> DEFINE b == IF calls[c].state = "CONNECTED"
                  THEN [calls[c] EXCEPT !.callerCandidates = 0,
                                        !.calleeCandidates = 0]
                  ELSE calls[c]
             r == setState(b, "NEGOTIATING", NegotiationTimeout - lag)
  <2>1. /\ calls' = [calls EXCEPT ![c] = r]
        /\ calls[c].state \in Established
    BY <1>3 DEF Offer, Established
  <2>2. /\ r.state \in Established
        /\ r.caller = calls[c].caller /\ r.callee = calls[c].callee
    BY <1>0 DEF setState, Call, Established
  <2> HIDE DEF r
  <2> QED  BY <1>0, <2>1, <2>2, SignalInvisible
<1>4. ASSUME Answer(c, u, v)
      PROVE  UNCHANGED Contract!vars
  <2> DEFINE r == setState(calls[c], "CONNECTED", NoTime)
  <2>1. calls' = [calls EXCEPT ![c] = r] /\ calls[c].state \in Established
    BY <1>4 DEF Answer, Established
  <2>2. /\ r.state \in Established
        /\ r.caller = calls[c].caller /\ r.callee = calls[c].callee
    BY <1>0 DEF setState, Call, Established
  <2> HIDE DEF r
  <2> QED  BY <1>0, <2>1, <2>2, SignalInvisible
<1>5. ASSUME ICECandidate(c, u, v)
      PROVE  UNCHANGED Contract!vars
  <2>1. PICK r : /\ calls' = [calls EXCEPT ![c] = r]
                 /\ r.state = calls[c].state
                 /\ r.caller = calls[c].caller /\ r.callee = calls[c].callee
    <3>1. CASE u = calls[c].caller
      <4> DEFINE r == [calls[c] EXCEPT !.callerCandidates = @ + 1]
      <4>1. calls' = [calls EXCEPT ![c] = r]
        BY <1>5, <3>1 DEF ICECandidate
      <4>2. /\ r.state = calls[c].state
            /\ r.caller = calls[c].caller /\ r.callee = calls[c].callee
        BY <1>0 DEF Call
      <4> QED  BY <4>1, <4>2
    <3>2. CASE u # calls[c].caller
      <4> DEFINE r == [calls[c] EXCEPT !.calleeCandidates = @ + 1]
      <4>1. calls' = [calls EXCEPT ![c] = r]
        BY <1>5, <3>2 DEF ICECandidate
      <4>2. /\ r.state = calls[c].state
            /\ r.caller = calls[c].caller /\ r.callee = calls[c].callee
        BY <1>0 DEF Call
      <4> QED  BY <4>1, <4>2
    <3> QED  BY <3>1, <3>2
  <2>2. calls[c].state \in Established
    BY <1>5 DEF ICECandidate
  <2> QED  BY <1>0, <2>1, <2>2, SignalInvisible
<1>6. ASSUME ICEComplete(c, u, v)
      PROVE  UNCHANGED Contract!vars
  BY <1>6, Invisible DEF ICEComplete, mvars
<1> QED  BY <1>1, <1>2, <1>3, <1>4, <1>5, <1>6 DEF Transition

\* Expire closes the calls it times out and forgets the ones it deletes.
LEMMA ExpireCloses ==
  ASSUME ManagerInv, NEW lag \in Lags, Expire(lag)
  PROVE  Contract!Next
<1> DEFINE E == Expired(lag)
           D == Cleaned(lag)
<1>1. E \in SUBSET (DOMAIN calls \ ClosedCalls) /\ D \in SUBSET ClosedCalls
  BY DEF Expired, Cleaned, ClosedCalls
<1>2. /\ DOMAIN calls' = DOMAIN calls \ D
      /\ \A c \in DOMAIN calls' : calls'[c] =
            IF c \in E THEN finished(calls[c], "TIMED_OUT", lag) ELSE calls[c]
  BY DEF Expire
<1> HIDE DEF E, D
<1>3. ASSUME NEW c \in DOMAIN calls', c \in E
      PROVE  Terminal(calls'[c])
  <2>1. calls[c] \in Call /\ "TIMED_OUT" \in TerminalStates
    BY <1>2 DEF ManagerInv, ManagerTypeOK, TerminalStates
  <2> QED  BY <1>2, <1>3, <2>1, FinishedCall DEF Terminal
<1>4. \A c \in DOMAIN calls' :
         IF c \in E THEN Terminal(calls'[c]) ELSE calls'[c] = calls[c]
  BY <1>2, <1>3
<1> QED  BY <1>1, <1>2, <1>4, Closing

\* A disconnection closes the user's call, if there is one.
LEMMA DisconnectRefines ==
  ASSUME ManagerInv, NEW u \in Users, NEW lag \in Lags, Disconnect(u, lag)
  PROVE  [Contract!Next]_(Contract!vars)
<1>1. CASE Dropped(u) = {}
  <2>1. calls' = calls
    BY <1>1 DEF Disconnect
  <2>2. UNCHANGED Contract!vars
    BY <2>1, Invisible
  <2> QED  BY <2>2
<1>2. CASE Dropped(u) # {}
  <2>1. PICK c \in Dropped(u) : finish(c, "ENDED", lag)
    BY <1>2 DEF Disconnect
  <2>2. c \in DOMAIN calls /\ ~Terminal(calls[c]) /\ "ENDED" \in TerminalStates
    BY DEF Dropped, TerminalStates
  <2> QED  BY <2>1, <2>2, FinishCloses
<1> QED  BY <1>1, <1>2

\* Time passing is not visible.
LEMMA TickInvisible ==
  ASSUME ManagerInv, Tick
  PROVE  UNCHANGED Contract!vars
<1>1. /\ DOMAIN calls' = DOMAIN calls
      /\ \A c \in DOMAIN calls : calls'[c] =
            [calls[c] EXCEPT !.deadline = Older(@), !.cleanupAt = Older(@)]
  BY DEF Tick
<1>2. ASSUME NEW c \in DOMAIN calls
      PROVE  /\ calls'[c].caller = calls[c].caller
             /\ calls'[c].callee = calls[c].callee
             /\ calls'[c].state = calls[c].state
  <2>1. calls[c] \in Call
    BY DEF ManagerInv, ManagerTypeOK
  <2> QED  BY <1>1, <2>1 DEF Call
<1> QED  BY <1>1, <1>2, Invisible DEF Terminal

\* Every step of the manager is a step of the contract or a stutter.
LEMMA ContractNext ==
  ManagerInv /\ [ManagerNext]_mvars => [Contract!Next]_(Contract!vars)
<1> SUFFICES ASSUME ManagerInv, [ManagerNext]_mvars
             PROVE  [Contract!Next]_(Contract!vars)
  OBVIOUS
<1>1. CASE UNCHANGED mvars
  <2>1. UNCHANGED Contract!vars
    BY <1>1, Invisible DEF mvars
  <2> QED  BY <2>1
<1>2. CASE ManagerNext
  BY <1>2, InviteAsks, TransitionRefines, DisconnectRefines, ExpireCloses, TickInvisible
  DEF ManagerNext, Sweep
<1> QED  BY <1>1, <1>2

\* For any number of users and calls and any timeouts, the call table with its
\* busy index, deadlines and lagging clocks implements the contract: calls are
\* asked for between users in no open call, agreed to once, and closed once.
THEOREM TableImplementsContract == ManagerSpec => ImplementsContract
  BY ContractInit, ContractNext, ManagerInvariant, PTL
  DEF ManagerSpec, ImplementsContract, Contract!Spec
=============================================================================
