------------------------------- MODULE Daemon -------------------------------
(***************************************************************************)
(* The incoming-call daemon, internal/client/daemon/daemon.go: one         *)
(* goroutine (Run) connects to signaling, reads signals and reconnects;    *)
(* one goroutine per call window (handleLocal) relays the window's signals *)
(* over whatever signaling connection the daemon has.  service.mu protects *)
(* signal, pending and sessions; an action is what happens under one       *)
(* holding of the lock, or one send or read.                               *)
(*                                                                         *)
(* At the other end of the unix socket is the window: daemon/client.go and *)
(* RunIncoming of app.go, a process of its own that the user or a crash    *)
(* ends at any time.  What runSession does with the peer connection is in  *)
(* Session; here its control channel opens or does not.                    *)
(*                                                                         *)
(* Signaling connections are numbered.  The verification and rate limit of *)
(* an invitation (TrustStore, Admission) are one choice here: it is kept,  *)
(* or declined at once.  A second window for a call is refused.            *)
(***************************************************************************)
EXTENDS Naturals, Sequences

CONSTANTS
    Calls, Windows, NoCall,
    ReconnectMin, ReconnectMax,
    MaxConn,      \* bound: signaling connections in a behaviour
    MaxAttempts   \* bound: the history of attempts stops counting here

ASSUME BackoffAssumption ==
    /\ ReconnectMin \in Nat \ {0} /\ ReconnectMax \in Nat
    /\ ReconnectMin <= ReconnectMax
    /\ MaxConn \in Nat /\ MaxAttempts \in Nat

VARIABLES
    phase,     \* of Run: "connecting", "connected", "lost", "clearing", "waiting"
    made,      \* signaling connections made so far
    signal,    \* service.signal: the number of the connection, 0 for nil
    alive,     \* the current connection is not closed
    owed,      \* what Run, with the lock released, has still to send, per
               \* window: a message, or "none"
    pending,   \* service.pending: call -> is it claimed
    sessions,  \* service.sessions: call -> window
    invited,   \* history: call -> the connection that announced it (the
               \* callers' random identifiers are not reused)
    pc,        \* of handleLocal, per window; "closed" once it has returned
    call,      \* the call the window attached to
    client,    \* the connection handleLocal took from service.signal
    cut,       \* the daemon closed the local socket
    window,    \* the window: "none", "connecting", "prompt", "session" (of
               \* runSession), "peer" (its control channel is open), "alone"
               \* (and signaling given up), "gone"
    inbox,     \* messages of the daemon the window has not read
    outbox,    \* signals of the window the daemon has not read
    crossed,   \* history: a call.cancel reached runSession, which ignores it
    backoff,   \* the next delay
    delay,     \* the delay being waited
    attempts   \* history: delays since start or the last stable connection

handoff == <<pending, sessions, invited>>
local == <<pc, call, client, cut>>
remote == <<window, inbox, outbox, crossed>>
timing == <<backoff, delay, attempts>>
vars == <<phase, made, signal, alive, owed, handoff, local, remote, timing>>

Put(f, k, v) == [x \in DOMAIN f \union {k} |-> IF x = k THEN v ELSE f[x]]
Delete(f, k) == [x \in DOMAIN f \ {k} |-> f[x]]
Nothing == [c \in {} |-> c]

Init ==
    /\ phase = "connecting" /\ made = 0 /\ signal = 0 /\ alive = FALSE
    /\ owed = [w \in Windows |-> "none"]
    /\ pending = Nothing /\ sessions = Nothing /\ invited = Nothing
    /\ pc = [w \in Windows |-> "none"] /\ call = [w \in Windows |-> NoCall]
    /\ client = [w \in Windows |-> 0] /\ cut = [w \in Windows |-> FALSE]
    /\ window = [w \in Windows |-> "none"] /\ crossed = [w \in Windows |-> FALSE]
    /\ inbox = [w \in Windows |-> <<>>] /\ outbox = [w \in Windows |-> <<>>]
    /\ backoff = ReconnectMin /\ delay = 0 /\ attempts = 0

----------------------------------------------------------------------------
\* Run.

Smaller(a, b) == IF a < b THEN a ELSE b

\* waitForReconnect(backoff); then the backoff doubles.
Wait(b, n) ==
    /\ phase' = "waiting"
    /\ delay' = b
    /\ backoff' = Smaller(2 * b, ReconnectMax)
    /\ attempts' = Smaller(n + 1, MaxAttempts)

ConnectFails ==
    /\ phase = "connecting"
    /\ Wait(backoff, attempts)
    /\ UNCHANGED <<made, signal, alive, owed, handoff, local, remote>>

\* config.Connect succeeds and setSignal publishes the client.
Connect ==
    /\ phase = "connecting" /\ made < MaxConn
    /\ phase' = "connected"
    /\ made' = made + 1 /\ signal' = made + 1 /\ alive' = TRUE
    /\ UNCHANGED <<owed, handoff, local, remote, timing>>

\* runConnected handles one message after the other, its sends included.
Ready == phase = "connected" /\ \A w \in Windows : owed[w] = "none"

\* The connection breaks or the client closes itself.  runConnected returns
\* when it is told, which it is not after a failed pong (LossReported of
\* SignalingClient).
LoseConnection ==
    /\ phase = "connected" /\ alive' = FALSE
    /\ phase' = phase \/ (Ready /\ phase' = "lost")
    /\ UNCHANGED <<made, signal, owed, handoff, local, remote, timing>>

\* peer.send to w, which comes to nothing once the socket is closed.
Reaches(w) == ~cut[w] /\ window[w] # "gone"
Tell(w, message) ==
    /\ inbox' = IF Reaches(w) THEN [inbox EXCEPT ![w] = Append(@, message)] ELSE inbox
    /\ UNCHANGED <<window, outbox, crossed>>

\* The windows in W are told outside the lock.
Owe(W, message) == owed' = [w \in Windows |-> IF w \in W THEN message ELSE owed[w]]

\* The next of them.  The socket is closed if the send fails, and by
\* clearSignal in any case.
TellPeer(w) ==
    /\ owed[w] # "none"
    /\ Tell(w, owed[w]) /\ owed' = [owed EXCEPT ![w] = "none"]
    /\ cut' = [cut EXCEPT ![w] = @ \/ window[w] = "gone" \/ phase = "clearing"]
    /\ UNCHANGED <<phase, made, signal, alive, handoff, pc, call, client, timing>>

Attached == {sessions[c] : c \in DOMAIN sessions}

\* Mutant: the pending invitations outlive the connection.
ClearSessions ==
    /\ phase = "lost" /\ phase' = "clearing"
    /\ signal' = 0
    /\ sessions' = Nothing
    /\ Owe(Attached, "ERROR")
    /\ UNCHANGED <<made, alive, pending, invited, local, remote, timing>>

\* clearSignal forgets every call; the windows it knew are told and closed.
ClearSignal ==
    /\ phase = "lost" /\ phase' = "clearing"
    /\ signal' = 0
    /\ pending' = Nothing /\ sessions' = Nothing
    /\ Owe(Attached, "ERROR")
    /\ UNCHANGED <<made, alive, invited, local, remote, timing>>

\* Mutant: every connection, however short, resets the backoff.
PauseShort(stable) ==
    /\ phase = "clearing" /\ \A w \in Windows : owed[w] = "none"
    /\ Wait(ReconnectMin, IF stable THEN 0 ELSE attempts)
    /\ UNCHANGED <<made, signal, alive, owed, handoff, local, remote>>

\* Then Run waits, from the start if the connection was stable.
Pause(stable) ==
    /\ phase = "clearing" /\ \A w \in Windows : owed[w] = "none"
    /\ IF stable THEN Wait(ReconnectMin, 0) ELSE Wait(backoff, attempts)
    /\ UNCHANGED <<made, signal, alive, owed, handoff, local, remote>>

Retry ==
    /\ phase = "waiting"
    /\ phase' = "connecting" /\ delay' = 0
    /\ UNCHANGED <<made, signal, alive, owed, handoff, local, remote, backoff, attempts>>

\* handleInvite keeps the invitation (declining or ignoring it changes nothing).
HandleInvite(c) ==
    /\ Ready /\ c \notin DOMAIN invited
    /\ invited' = Put(invited, c, signal)
    /\ pending' = Put(pending, c, FALSE)
    /\ UNCHANGED <<phase, made, signal, alive, owed, sessions, local, remote, timing>>

\* Mutant: a call that ended is forgotten, and its window not told.
ForgetSilently(c) == UNCHANGED owed

\* The window of a call that ended is told, by timeout or end, or by cancel,
\* which the server takes from the caller only until the call is accepted.
TellEnded(c) ==
    LET W == {w \in Windows : c \in DOMAIN sessions /\ sessions[c] = w}
    IN  \/ Owe(W, "END")
        \/ (\A w \in W : window[w] # "peer") /\ Owe(W, "CANCEL")

\* handleSignal with cancel, decline, timeout or end: the call is forgotten,
\* and its window told after that.
HandleTerminal(c) ==
    /\ Ready /\ c \in DOMAIN pending \union DOMAIN sessions
    /\ pending' = Delete(pending, c)
    /\ sessions' = Delete(sessions, c)
    /\ TellEnded(c)
    /\ UNCHANGED <<phase, made, signal, alive, invited, local, remote, timing>>

\* handleSignal with session.error: sent to every window there is.  (A WebRTC
\* signal for a window changes nothing here.)
HandleFault ==
    /\ Ready
    /\ \A w \in Attached : inbox[w] = <<>>   \* bound
    /\ Attached # {}
    /\ Owe(Attached, "FAULT")
    /\ UNCHANGED <<phase, made, signal, alive, handoff, local, remote, timing>>

----------------------------------------------------------------------------
\* handleLocal.

\* Mutant: claimed is not looked at.
AvailableTwice(c) == c \in DOMAIN pending /\ signal # 0

Available(c) == c \in DOMAIN pending /\ ~pending[c] /\ signal # 0

\* A window connects and asks for a call that is pending and not claimed.  Its
\* session is known from here on, before the window has been sent ready.
Attach(w, c) ==
    /\ pc[w] = "none" /\ window[w] = "none"
    /\ Available(c)
    /\ pending' = [pending EXCEPT ![c] = TRUE]
    /\ sessions' = Put(sessions, c, w)
    /\ pc' = [pc EXCEPT ![w] = "ready"] /\ call' = [call EXCEPT ![w] = c]
    /\ window' = [window EXCEPT ![w] = "connecting"]
    /\ UNCHANGED <<phase, made, signal, alive, owed, invited, client, cut, inbox, outbox, crossed, timing>>

SendReady(w) ==
    /\ pc[w] = "ready"
    /\ pc' = [pc EXCEPT ![w] = IF Reaches(w) THEN "loop" ELSE "release"]
    /\ Tell(w, "READY")
    /\ UNCHANGED <<phase, made, signal, alive, owed, handoff, call, client, cut, timing>>

\* Mutant: the loop ends only with the invitation.
WindowStays(w) ==
    /\ pc[w] = "loop" /\ call[w] \notin DOMAIN pending
    /\ pc' = [pc EXCEPT ![w] = "release"]
    /\ UNCHANGED <<phase, made, signal, alive, owed, handoff, call, client, cut, remote, timing>>

\* Decode fails: the daemon has closed the socket, whatever is left unread, or
\* the window has closed it and nothing is left.
WindowGone(w) ==
    /\ pc[w] = "loop" /\ (cut[w] \/ (window[w] = "gone" /\ outbox[w] = <<>>))
    /\ pc' = [pc EXCEPT ![w] = "release"]
    /\ UNCHANGED <<phase, made, signal, alive, owed, handoff, call, client, cut, remote, timing>>

\* A signal of the window is read.  validLocalSignal refuses it, with an error
\* to the window, once the call is not pending any more.
Validate(w) ==
    /\ pc[w] = "loop" /\ outbox[w] # <<>>
    /\ \/ /\ call[w] \in DOMAIN pending
          /\ pc' = [pc EXCEPT ![w] = "valid"] /\ UNCHANGED <<cut, remote>>
       \/ /\ call[w] \notin DOMAIN pending
          /\ UNCHANGED <<pc, cut, window, crossed>>
          /\ outbox' = [outbox EXCEPT ![w] = Tail(@)]
          /\ inbox' = IF Reaches(w) THEN [inbox EXCEPT ![w] = Append(@, "ERROR")] ELSE inbox
    /\ UNCHANGED <<phase, made, signal, alive, owed, handoff, call, client, timing>>

\* Mutant: the invitation is not looked up again.
TakeAnyClient(w) ==
    /\ pc[w] = "valid"
    /\ IF signal = 0
       THEN pc' = [pc EXCEPT ![w] = "release"] /\ UNCHANGED client
       ELSE /\ pc' = [pc EXCEPT ![w] = "send"]
            /\ client' = [client EXCEPT ![w] = signal]
    /\ UNCHANGED <<phase, made, signal, alive, owed, handoff, call, cut, remote, timing>>

\* client := s.signal; invite := s.pending[callID]
TakeClient(w) ==
    /\ pc[w] = "valid"
    /\ IF signal = 0 \/ call[w] \notin DOMAIN pending
       THEN pc' = [pc EXCEPT ![w] = "release"] /\ UNCHANGED client
       ELSE /\ pc' = [pc EXCEPT ![w] = "send"]
            /\ client' = [client EXCEPT ![w] = signal]
    /\ UNCHANGED <<phase, made, signal, alive, owed, handoff, call, cut, remote, timing>>

\* client.Send outside the lock: it fails on a connection that is gone, which
\* the window is told.  Then, or after decline and end, handleLocal is about
\* to return.
Send(w) ==
    /\ pc[w] = "send"
    /\ \/ /\ alive /\ client[w] = signal
          /\ pc' = [pc EXCEPT ![w] = IF Head(outbox[w]) = "ACCEPT" THEN "loop" ELSE "forget"]
          /\ UNCHANGED inbox
       \/ /\ pc' = [pc EXCEPT ![w] = "release"]
          /\ inbox' = IF Reaches(w) THEN [inbox EXCEPT ![w] = Append(@, "ERROR")] ELSE inbox
    /\ client' = [client EXCEPT ![w] = 0]
    /\ outbox' = [outbox EXCEPT ![w] = Tail(@)]
    /\ UNCHANGED <<phase, made, signal, alive, owed, handoff, call, cut, window, crossed, timing>>

\* After decline or end the invitation is forgotten.
Forget(w) ==
    /\ pc[w] = "forget"
    /\ pending' = Delete(pending, call[w])
    /\ pc' = [pc EXCEPT ![w] = "release"]
    /\ UNCHANGED <<phase, made, signal, alive, owed, sessions, invited, call, client, cut, remote, timing>>

\* Both ends are done, and w can be the next window.
Fresh(w) ==
    /\ pc' = [pc EXCEPT ![w] = "none"] /\ window' = [window EXCEPT ![w] = "none"]
    /\ call' = [call EXCEPT ![w] = NoCall] /\ cut' = [cut EXCEPT ![w] = FALSE]
    /\ inbox' = [inbox EXCEPT ![w] = <<>>] /\ outbox' = [outbox EXCEPT ![w] = <<>>]
    /\ crossed' = [crossed EXCEPT ![w] = FALSE] /\ owed' = [owed EXCEPT ![w] = "none"]

\* Mutant: the invitation stays claimed.
GiveUpSession(w) ==
    /\ sessions' = IF call[w] \in DOMAIN sessions /\ sessions[call[w]] = w
                   THEN Delete(sessions, call[w]) ELSE sessions
    /\ UNCHANGED pending

\* release: only the window that holds the session gives it up, and the call
\* can then be answered again.
GiveUp(w) ==
    LET c == call[w]
    IN  IF c \in DOMAIN sessions /\ sessions[c] = w
        THEN /\ sessions' = Delete(sessions, c)
             /\ pending' = IF c \in DOMAIN pending
                           THEN [pending EXCEPT ![c] = FALSE] ELSE pending
        ELSE UNCHANGED <<sessions, pending>>

\* handleLocal returns: release, and the socket is closed.
Release(w) ==
    /\ pc[w] = "release"
    /\ GiveUp(w)
    /\ \/ window[w] = "gone" /\ Fresh(w)
       \/ /\ window[w] # "gone"
          /\ pc' = [pc EXCEPT ![w] = "closed"] /\ cut' = [cut EXCEPT ![w] = TRUE]
          /\ outbox' = [outbox EXCEPT ![w] = <<>>]
          /\ UNCHANGED <<call, window, inbox, crossed, owed>>
    /\ UNCHANGED <<phase, made, signal, alive, invited, client, timing>>

----------------------------------------------------------------------------
\* The window.

\* The window closes its end, after a last signal, if any, that goes out on a
\* socket the daemon has not closed.
Quits(w, last) ==
    \/ pc[w] = "closed" /\ Fresh(w)
    \/ /\ pc[w] # "closed"
       /\ window' = [window EXCEPT ![w] = "gone"]
       /\ outbox' = [outbox EXCEPT ![w] = IF cut[w] THEN @ ELSE @ \o last]
       /\ inbox' = [inbox EXCEPT ![w] = <<>>] /\ crossed' = [crossed EXCEPT ![w] = FALSE]
       /\ UNCHANGED <<pc, call, cut, owed>>

\* What ends the window in each of its stages: the first message has to be
\* ready; answerInvitation and runSession return for different signals.
Enders(stage) ==
    CASE stage = "connecting" -> {"CANCEL", "END", "FAULT", "ERROR"}
      [] stage = "prompt" -> {"CANCEL", "END", "ERROR"}
      [] stage = "session" -> {"END", "FAULT", "ERROR"}
      [] stage = "peer" -> {"END", "FAULT"}

\* The deferred call.end of runSession.
LastSignal(stage, message) ==
    IF stage \in {"session", "peer"} /\ message # "END" THEN <<"END">> ELSE <<>>

\* readLoop of the window and the loop it feeds.  With an open control channel
\* an error of the daemon's only makes the window give up signaling.
WindowReads(w) ==
    /\ window[w] \in {"connecting", "prompt", "session", "peer"} /\ inbox[w] # <<>>
    /\ LET message == Head(inbox[w])
       IN  \/ message \in Enders(window[w]) /\ Quits(w, LastSignal(window[w], message))
           \/ /\ message \notin Enders(window[w])
              /\ inbox' = [inbox EXCEPT ![w] = Tail(@)]
              /\ window' = [window EXCEPT ![w] =
                               CASE message = "READY" -> "prompt"
                                 [] message = "ERROR" -> "alone"
                                 [] OTHER -> @]
              /\ crossed' = [crossed EXCEPT ![w] = @ \/ message = "CANCEL"]
              /\ UNCHANGED <<pc, call, cut, outbox, owed>>
    /\ UNCHANGED <<phase, made, signal, alive, handoff, client, timing>>

\* The socket is at its end, which readLoop reports in the same way.
WindowLosesDaemon(w) ==
    /\ inbox[w] = <<>> /\ cut[w]
    /\ \/ window[w] \in {"connecting", "prompt", "session"} /\ Quits(w, <<>>)
       \/ /\ window[w] = "peer" /\ window' = [window EXCEPT ![w] = "alone"]
          /\ UNCHANGED <<pc, call, cut, inbox, outbox, crossed, owed>>
    /\ UNCHANGED <<phase, made, signal, alive, handoff, client, timing>>

\* The user says yes, and runSession starts once the signal is in the socket.
Accept(w) ==
    /\ window[w] = "prompt"
    /\ window' = [window EXCEPT ![w] = "session"]
    /\ outbox' = [outbox EXCEPT ![w] = IF cut[w] THEN @ ELSE Append(@, "ACCEPT")]
    /\ UNCHANGED <<phase, made, signal, alive, owed, handoff, local, inbox, crossed, timing>>

\* The control channel opens: the acceptance went through.
ControlOpens(w) ==
    /\ window[w] = "session" /\ outbox[w] = <<>>
    /\ pc[w] = "loop" /\ call[w] \in DOMAIN pending
    /\ window' = [window EXCEPT ![w] = "peer"]
    /\ UNCHANGED <<phase, made, signal, alive, owed, handoff, local, inbox, outbox, crossed, timing>>

\* The user declines or leaves, with call.decline or call.end, or the window
\* crashes.
WindowEnds(w, last) ==
    /\ window[w] \notin {"none", "gone"}
    /\ last # <<>> => window[w] \in {"prompt", "session", "peer"}
    /\ Quits(w, last)
    /\ UNCHANGED <<phase, made, signal, alive, handoff, client, timing>>

----------------------------------------------------------------------------
Handler(w) ==
    SendReady(w) \/ WindowGone(w) \/ Validate(w) \/ TakeClient(w) \/ Send(w) \/ Forget(w) \/ Release(w)

Next ==
    \/ ConnectFails
    \/ Connect
    \/ LoseConnection
    \/ ClearSignal
    \/ \E w \in Windows : TellPeer(w)
    \/ \E stable \in BOOLEAN : Pause(stable)
    \/ Retry
    \/ \E c \in Calls : HandleInvite(c)
    \/ \E c \in Calls : HandleTerminal(c)
    \/ HandleFault
    \/ \E w \in Windows, c \in Calls : Attach(w, c)
    \/ \E w \in Windows : Handler(w)
    \/ \E w \in Windows : WindowReads(w)
    \/ \E w \in Windows : WindowLosesDaemon(w)
    \/ \E w \in Windows : Accept(w)
    \/ \E w \in Windows : ControlOpens(w)
    \/ \E w \in Windows, last \in {<<>>, <<"END">>} : WindowEnds(w, last)

Spec == Init /\ [][Next]_vars

\* Goroutines run, also those of the windows, and a read from a closed socket
\* fails.  Nothing is assumed of the users, the server or the network.
Fairness ==
    /\ \A w \in Windows : WF_vars(Handler(w)) /\ WF_vars(WindowReads(w))
                          /\ WF_vars(WindowLosesDaemon(w))
    /\ WF_vars(ClearSignal) /\ WF_vars(\E w \in Windows : TellPeer(w))

FairSpec == Spec /\ Fairness

----------------------------------------------------------------------------
\* Its handleLocal runs.
Handled(w) == pc[w] \notin {"none", "closed"}

\* An invitation that is claimed has a session whose handler is still running
\* and will release it, so no invitation becomes unanswerable because a window
\* crashed, was closed by the daemon or lost a race with a signal.
NoStuckClaim ==
    \A c \in DOMAIN pending :
        pending[c] <=>
            c \in DOMAIN sessions /\ Handled(sessions[c]) /\ call[sessions[c]] = c

\* At most one window can get a signal of a call through the daemon.
OneSpeaker ==
    \A v, w \in Windows :
        v # w /\ Handled(v) /\ Handled(w) /\ call[v] = call[w]
          => call[v] \notin DOMAIN pending

\* A window's signal leaves only over the connection on which its invitation
\* arrived: never over a newer one, whose server does not know the call.
OwnConnection ==
    [][\A w \in Windows :
          pc[w] = "send" /\ pc'[w] \in {"loop", "forget"} => signal = invited[call[w]]]_vars

\* Pending invitations and handoffs are discarded when signaling is lost
\* (docs/reliability.md): without a signaling client the daemon knows no call.
DiscardedOnLoss ==
    /\ signal = 0 => DOMAIN pending = {} /\ DOMAIN sessions = {}
    /\ \A c \in DOMAIN pending : invited[c] = signal

\* Every delay but the first after a stable connection doubles up to the
\* maximum: repeated short connections and refusals never form a tight loop.
BackoffDoubles ==
    phase = "waiting" /\ attempts < MaxAttempts =>
        delay = Smaller(ReconnectMin * 2^(attempts - 1), ReconnectMax)

\* A window whose socket the daemon closed is released.
CutWindowEnds == \A w \in Windows : cut[w] ~> ~Handled(w)

\* A window whose call the daemon has forgotten, or whose handler has
\* returned, hears of it and ends, or goes on alone over its control channel:
\* no order of attach, ready, answer, cancellation, session.error and loss
\* leaves it asking or negotiating for a call that is no more.  There is one
\* exception: an acceptance that crosses the caller's call.cancel.  The server
\* answers it with session.error, but by then handleSignal has deleted the
\* session and tells no window, and runSession ignores the cancel.
WindowLearns ==
    \A w \in Windows :
        window[w] # "none" /\ w \notin Attached ~>
            window[w] \in {"none", "gone", "alone"} \/ crossed[w]
=============================================================================
