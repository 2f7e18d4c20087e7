------------------------------ MODULE Session -------------------------------
(***************************************************************************)
(* One call seen from its two ends: RunChat of the caller, RunListen and   *)
(* answerInvitation of the callee, and runSession of both, in              *)
(* internal/client/app/app.go, over the signaling server and a WebRTC peer *)
(* connection (internal/client/peer/peer.go).                              *)
(*                                                                         *)
(* A client is one loop that selects among its sources, so the handling of *)
(* one signal, event, timer or line is one action, and any source that is  *)
(* ready may be next.  The server is CallManager, a message at a time (how *)
(* its goroutines interleave is SignalServer).  Pion is external: it       *)
(* connects, loses its route and fails when it wants, bounded by           *)
(* MaxOutages while both ends are there.                                   *)
(*                                                                         *)
(* Chat, audio and video are not here (AsciiVideo), nor are single ICE     *)
(* candidates: the end-of-candidates signal stands for trickled ones.      *)
(* Timers fire whenever they are set.                                      *)
(***************************************************************************)
EXTENDS CallManager, Sequences

CONSTANTS Caller, Callee, Id,
          QueueSize,   \* of Peer.events
          Trickle,     \* the sides whose candidates are trickled through the session
          MaxOutages   \* bound: route losses while both ends are in session

ASSUME SessionAssumption ==
    /\ Caller # Callee /\ Users = {Caller, Callee} /\ CallIds = {Id}
    /\ QueueSize \in Nat \ {0} /\ MaxOutages \in Nat /\ Trickle \subseteq Users

VARIABLES
    stage,       \* "idle", "waiting", "prompt", "session", "done"
    up,          \* the websocket works
    silent,      \* its loss put nothing into Client.errors
    registered,  \* the server has not noticed its loss
    outbox,      \* signals on the way to the server or in its dispatch
    inbox,       \* signals received and not handled (Client.events)
    signals,     \* Peer.signals: signals the session has to forward
    controlOpen, \* controlOpen
    available,   \* signalingAvailable
    reconnect,   \* reconnectTimer is running
    restarted,   \* restartAttempted
    failing,     \* peerErrorDeadline is set
    route,       \* the state of the PeerConnection
    described,   \* the remote description it has is current
    gathering,   \* its ICE gathering is not complete
    opened,      \* its control channel has opened
    events,      \* Peer.events: not handled yet
    outages,     \* history: route losses so far
    accepted,    \* history: the callee's user said yes
    deaf,        \* history: the waiting caller ignored a call.end
    cutOff       \* history: signaling ended a session that worked

client == <<stage, controlOpen, available, reconnect, restarted, failing>>
link == <<up, silent, registered, outbox, inbox>>
pion == <<route, described, gathering, opened, events, outages>>
history == <<accepted, deaf, cutOff>>
vars == <<calls, active, client, link, signals, pion, history>>

Other(p) == IF p = Caller THEN Callee ELSE Caller
Both(v) == [p \in Users |-> v]

Init ==
    /\ New
    /\ stage = Both("idle")
    /\ up = Both(TRUE) /\ silent = Both(FALSE) /\ registered = Both(TRUE)
    /\ outbox = Both(<<>>) /\ inbox = Both(<<>>) /\ signals = Both(<<>>)
    /\ controlOpen = Both(FALSE) /\ available = Both(TRUE)
    /\ reconnect = Both(FALSE) /\ restarted = Both(FALSE) /\ failing = Both(FALSE)
    /\ route = Both("new") /\ described = Both(FALSE) /\ gathering = Both(FALSE)
    /\ opened = Both(FALSE) /\ events = Both(<<>>) /\ outages = 0
    /\ accepted = FALSE /\ deaf = FALSE /\ cutOff = FALSE

----------------------------------------------------------------------------
\* Sending and stopping.

\* Client.Send succeeds exactly on a websocket that works.
Sent(p, types) == IF up[p] THEN [outbox EXCEPT ![p] = @ \o types] ELSE outbox

\* The function returns: its peer connection and its websocket are closed,
\* after the signals in types have been written, and its variables are gone.
Leave(p, types) ==
    /\ stage' = [stage EXCEPT ![p] = "done"]
    /\ outbox' = Sent(p, types)
    /\ up' = [up EXCEPT ![p] = FALSE]
    /\ silent' = [silent EXCEPT ![p] = FALSE]
    /\ inbox' = [inbox EXCEPT ![p] = <<>>]
    /\ signals' = [signals EXCEPT ![p] = <<>>]
    /\ route' = [route EXCEPT ![p] = "closed"]
    /\ controlOpen' = [controlOpen EXCEPT ![p] = FALSE]
    /\ available' = [available EXCEPT ![p] = FALSE]
    /\ reconnect' = [reconnect EXCEPT ![p] = FALSE]
    /\ restarted' = [restarted EXCEPT ![p] = FALSE]
    /\ failing' = [failing EXCEPT ![p] = FALSE]
    /\ described' = [described EXCEPT ![p] = FALSE]
    /\ gathering' = [gathering EXCEPT ![p] = FALSE]
    /\ opened' = [opened EXCEPT ![p] = FALSE]
    /\ deaf' = (deaf /\ p # Caller)
    /\ UNCHANGED <<mvars, registered, outages, accepted>>

Stop(p, types) ==
    Leave(p, types) /\ events' = [events EXCEPT ![p] = <<>>] /\ UNCHANGED cutOff

\* runSession returns without ended: its deferred call.end.
EndSignal(p) == IF available[p] THEN <<"END">> ELSE <<>>

Fail(p) == Stop(p, EndSignal(p))

\* The same because of signaling.
Healthy == \A q \in Users : stage[q] = "session" /\ controlOpen[q] /\ route[q] = "connected"

SignalingStop(p, types) ==
    /\ Leave(p, types) /\ events' = [events EXCEPT ![p] = <<>>]
    /\ cutOff' = (cutOff \/ Healthy)

\* The head of a queue is handled.
Took(queue, p) == [queue EXCEPT ![p] = Tail(@)]

----------------------------------------------------------------------------
\* Before the session.

\* RunChat sends call.invite, and returns if that fails.
StartChat ==
    /\ stage[Caller] = "idle"
    /\ \/ ~up[Caller] /\ Stop(Caller, <<>>)
       \/ /\ up[Caller]
          /\ stage' = [stage EXCEPT ![Caller] = "waiting"]
          /\ outbox' = Sent(Caller, <<"INVITE">>)
          /\ UNCHANGED <<mvars, controlOpen, available, reconnect, restarted, failing,
                         up, silent, registered, inbox, signals, pion, history>>

\* Mutant: the caller goes ahead while it rings.
GoesAheadRinging(type) == type \in {"ACCEPT", "RINGING"}

GoesAhead(type) == type = "ACCEPT"

\* Mutant: call.timeout is ignored.
TurnedDownNow(type) == type \in {"DECLINE", "ERROR"}

TurnedDown(type) == type \in {"DECLINE", "TIMEOUT", "ERROR"}

\* RunChat handles a signal: an acceptance starts the session and its offer.
WaitSignal ==
    /\ stage[Caller] = "waiting" /\ inbox[Caller] # <<>>
    /\ LET type == Head(inbox[Caller])
       IN  CASE GoesAhead(type) ->
                  /\ stage' = [stage EXCEPT ![Caller] = "session"]
                  /\ signals' = [signals EXCEPT ![Caller] = <<"OFFER">>]
                  /\ gathering' = [gathering EXCEPT ![Caller] = TRUE]
                  /\ inbox' = Took(inbox, Caller)
                  /\ UNCHANGED <<mvars, controlOpen, available, reconnect,
                         restarted, failing, up, silent, registered, outbox, route, described,
                         opened, events, outages, history>>
             [] TurnedDown(type) -> Stop(Caller, <<>>)
             [] OTHER ->
                  /\ inbox' = Took(inbox, Caller)
                  /\ deaf' = (deaf \/ type = "END")
                  /\ UNCHANGED <<mvars, client, up, silent, registered, outbox, signals, pion, accepted, cutOff>>

\* The caller's user types /quit, or its input ends.
CancelInvitation ==
    /\ stage[Caller] = "waiting"
    /\ Stop(Caller, <<"CANCEL">>)

\* RunListen and answerInvitation handle a signal.
ListenSignal ==
    /\ stage[Callee] \in {"idle", "prompt"} /\ inbox[Callee] # <<>>
    /\ LET type == Head(inbox[Callee])
       IN  IF \/ stage[Callee] = "idle" /\ type = "ERROR"
              \/ stage[Callee] = "prompt" /\ type \in {"CANCEL", "END", "TIMEOUT"}
           THEN Stop(Callee, <<>>)
           ELSE /\ inbox' = Took(inbox, Callee)
                /\ stage' = [stage EXCEPT ![Callee] =
                      IF type = "INVITE" THEN "prompt" ELSE @]
                /\ UNCHANGED <<mvars, controlOpen, available, reconnect, restarted,
                       failing, up, silent, registered, outbox, signals, pion, history>>

\* The callee's user answers y; if that cannot be sent, it ends there.
AcceptInvitation ==
    /\ stage[Callee] = "prompt"
    /\ \/ ~up[Callee] /\ Stop(Callee, <<>>)
       \/ /\ up[Callee]
          /\ stage' = [stage EXCEPT ![Callee] = "session"]
          /\ outbox' = Sent(Callee, <<"ACCEPT">>)
          /\ accepted' = TRUE
          /\ UNCHANGED <<mvars, controlOpen, available, reconnect, restarted, failing,
                         up, silent, registered, inbox, signals, pion, deaf, cutOff>>

DeclineInvitation ==
    /\ stage[Callee] = "prompt"
    /\ Stop(Callee, <<"DECLINE">>)

\* signals.Errors() before the session.
SetupLost(p) ==
    /\ stage[p] \in {"idle", "waiting", "prompt"} /\ ~up[p] /\ ~silent[p]
    /\ Stop(p, <<>>)

----------------------------------------------------------------------------
\* runSession: signaling.

\* signalErrors: a reported loss of signaling ends a session only before the
\* control channel opens.
SignalingLost(p) ==
    /\ stage[p] = "session" /\ available[p] /\ ~up[p] /\ ~silent[p]
    /\ IF ~controlOpen[p] THEN SignalingStop(p, EndSignal(p))
       ELSE /\ available' = [available EXCEPT ![p] = FALSE]
            /\ inbox' = [inbox EXCEPT ![p] = <<>>]
            /\ signals' = [signals EXCEPT ![p] = <<>>]
            /\ UNCHANGED <<mvars, stage, controlOpen, reconnect, restarted, failing,
                   up, silent, registered, outbox, pion, history>>

\* forwardPeerSignal; a failure to send ends the session.
ForwardSignal(p) ==
    /\ stage[p] = "session" /\ available[p] /\ signals[p] # <<>>
    /\ IF ~up[p] THEN SignalingStop(p, EndSignal(p))
       ELSE /\ outbox' = Sent(p, <<Head(signals[p])>>)
            /\ signals' = Took(signals, p)
            /\ UNCHANGED <<mvars, client, up, silent, registered, inbox, pion, history>>

\* Mutant: call.timeout is ignored.
ClosesCallEnd(type) == type = "END"

ClosesCall(type) == type \in {"END", "TIMEOUT"}

\* A signal of the server: descriptions go to the peer connection, which
\* answers an offer; end, timeout and error end the session.
SessionSignal(p) ==
    /\ stage[p] = "session" /\ available[p] /\ inbox[p] # <<>>
    /\ LET type == Head(inbox[p])
       IN  CASE ClosesCall(type) -> SignalingStop(p, <<>>)
             [] type = "ERROR" -> SignalingStop(p, EndSignal(p))
             [] OTHER ->
                  /\ inbox' = Took(inbox, p)
                  /\ described' = [described EXCEPT ![p] = @ \/ type \in {"OFFER", "ANSWER"}]
                  /\ signals' = [signals EXCEPT ![p] =
                        IF type = "OFFER" THEN Append(@, "ANSWER") ELSE @]
                  /\ gathering' = [gathering EXCEPT ![p] = @ \/ type = "OFFER"]
                  /\ UNCHANGED <<mvars, client, up, silent, registered, outbox, route, opened,
                         events, outages, history>>

----------------------------------------------------------------------------
\* runSession: the peer connection and the user.

\* Mutant: every loss of the route restarts ICE.
RestartsAlways(p, event) ==
    event \in {"disconnected", "failed"} /\ p = Caller /\ available[p]

\* The event makes the caller restart ICE, once per loss.
Restarts(p, event) ==
    event = "failed" /\ p = Caller /\ available[p] /\ ~restarted[p]

\* An event of the peer connection that does not end the session.
PeerEvent(p) ==
    /\ stage[p] = "session" /\ events[p] # <<>>
    /\ LET event == Head(events[p])
           lost  == event \in {"disconnected", "failed"}
           again == Restarts(p, event)
       IN  /\ event # "HANGUP"
           /\ controlOpen' = [controlOpen EXCEPT ![p] = @ \/ event = "OPEN"]
           /\ reconnect' = [reconnect EXCEPT ![p] = (@ /\ event # "connected") \/ lost]
           /\ restarted' = [restarted EXCEPT ![p] = (@ /\ event # "connected") \/ again]
           /\ failing' = [failing EXCEPT ![p] = @ \/ event = "closed"]
           /\ signals' = [signals EXCEPT ![p] = IF again THEN Append(@, "OFFER") ELSE @]
           /\ gathering' = [gathering EXCEPT ![p] = @ \/ again]
    /\ events' = Took(events, p)
    /\ UNCHANGED <<mvars, stage, available, link, route, described, opened,
                   outages, history>>

\* The other side's session.hangup: call.end if signaling is available.
PeerHangup(p) ==
    /\ stage[p] = "session" /\ events[p] # <<>> /\ Head(events[p]) = "HANGUP"
    /\ Fail(p)

ReconnectDeadline(p) == stage[p] = "session" /\ reconnect[p] /\ Fail(p)

\* Mutant: the deadline counts only while signaling is available.
PeerErrorSignaled(p) == stage[p] = "session" /\ failing[p] /\ available[p] /\ Fail(p)

PeerErrorDeadline(p) == stage[p] = "session" /\ failing[p] /\ Fail(p)

\* The hangup reaches the other side before the connection is closed.
Hangup(p, delivered) ==
    LET q == Other(p)
    IN  IF delivered THEN [events EXCEPT ![p] = <<>>, ![q] = Append(@, "HANGUP")]
                     ELSE [events EXCEPT ![p] = <<>>]

\* /quit: the hangup, if the control channel is open, and call.end.  Without a
\* delivered hangup this is also the end of the input, an error of a Send or of
\* ApplySignal, or an EventError whose deadline has come: runSession returns and
\* the deferred function sends call.end.
Quit(p, delivered) ==
    /\ stage[p] = "session"
    /\ delivered => /\ controlOpen[p] /\ opened[Other(p)] /\ stage[Other(p)] = "session"
                    /\ route[p] = "connected" /\ route[Other(p)] = "connected"
                    /\ Len(events[Other(p)]) < QueueSize
    /\ Leave(p, EndSignal(p))
    /\ events' = Hangup(p, delivered) /\ UNCHANGED cutOff

\* The process is killed, or runSession fails before its deferred call.end is
\* set up.
Crash(p) ==
    /\ stage[p] # "done"
    /\ Stop(p, <<>>)

----------------------------------------------------------------------------
\* External: the network and Pion.

\* The reader of a broken websocket reports the loss, unless it closes the
\* client over a failed pong before the writer has reported that.
Breaks(users) ==
    /\ up' = [p \in Users |-> up[p] /\ p \notin users]
    /\ \E quiet \in SUBSET {p \in users : up[p]} :
          silent' = [p \in Users |-> silent[p] \/ p \in quiet]

\* A websocket breaks; what was on the way to the server may be lost.
Drop(p) ==
    /\ up[p]
    /\ Breaks({p})
    /\ outbox' \in {outbox, [outbox EXCEPT ![p] = <<>>]}
    /\ UNCHANGED <<mvars, client, registered, inbox, signals, pion, history>>

\* emitEvent: Pion's callback waits while the queue is full.
Room(p) == Len(events[p]) < QueueSize

Changed(p, state) ==
    /\ Room(p)
    /\ route' = [route EXCEPT ![p] = state]
    /\ events' = [events EXCEPT ![p] = Append(@, state)]

\* ICE finds a route with both current descriptions.
Connects(p) ==
    /\ stage[p] = "session" /\ stage[Other(p)] = "session"
    /\ described[Caller] /\ described[Callee]
    /\ route[p] \in {"new", "disconnected", "failed"}
    /\ Changed(p, "connected")
    /\ UNCHANGED <<mvars, client, link, signals, described, gathering, opened, outages, history>>

ControlOpens(p) ==
    /\ route[Caller] = "connected" /\ route[Callee] = "connected" /\ ~opened[p] /\ Room(p)
    /\ opened' = [opened EXCEPT ![p] = TRUE]
    /\ events' = [events EXCEPT ![p] = Append(@, "OPEN")]
    /\ UNCHANGED <<mvars, client, link, signals, route, described, gathering, outages, history>>

\* A connection is lost through an outage, or because the other end is gone.
CountOutage(p) ==
    IF stage[Other(p)] = "done" THEN UNCHANGED outages
    ELSE outages < MaxOutages /\ outages' = outages + 1

Disconnects(p) ==
    /\ stage[p] = "session" /\ route[p] = "connected"
    /\ Changed(p, "disconnected")
    /\ CountOutage(p)
    /\ UNCHANGED <<mvars, client, link, signals, described, gathering, opened, history>>

\* ICE gives up: it needs a new exchange of descriptions.
Fails(p) ==
    /\ stage[p] = "session" /\ described[p]
    /\ route[p] \in {"new", "disconnected"}
    /\ Changed(p, "failed")
    /\ described' = [described EXCEPT ![p] = FALSE]
    /\ UNCHANGED <<mvars, client, link, signals, gathering, opened, outages, history>>

\* The other end's close is noticed.
RemoteCloses(p) ==
    /\ stage[p] = "session" /\ stage[Other(p)] = "done"
    /\ route[p] \in {"connected", "disconnected"}
    /\ Changed(p, "closed")
    /\ UNCHANGED <<mvars, client, link, signals, described, gathering, opened, outages, history>>

\* Candidates and the end of them are trickled to the session.
GatheringDone(p) ==
    /\ p \in Trickle /\ stage[p] = "session" /\ gathering[p]
    /\ gathering' = [gathering EXCEPT ![p] = FALSE]
    /\ signals' = [signals EXCEPT ![p] = IF available[p] THEN Append(@, "ICE_COMPLETE") ELSE @]
    /\ UNCHANGED <<mvars, client, link, route, described, opened, events, outages, history>>

----------------------------------------------------------------------------
\* The server, one message at a time.

\* A signal to some users: to those whose websocket works.
Deliver(users, type) ==
    inbox' = [p \in Users |-> IF p \in users /\ up[p] THEN Append(inbox[p], type) ELSE inbox[p]]

Transitions(type, p) ==
    \/ type = "ACCEPT" /\ Accept(Id, p, Other(p), 0)
    \/ type = "DECLINE" /\ Decline(Id, p, Other(p), 0)
    \/ type = "CANCEL" /\ Cancel(Id, p, Other(p), 0)
    \/ type = "OFFER" /\ Offer(Id, p, Other(p), 0)
    \/ type = "ANSWER" /\ Answer(Id, p, Other(p))
    \/ type = "ICE_COMPLETE" /\ ICEComplete(Id, p, Other(p))
    \/ type = "END" /\ End(Id, p, Other(p), 0)

\* The states in which Transition accepts the signal of this user.
Fits(type, p) ==
    /\ Id \in DOMAIN calls
    /\ LET state == calls[Id].state
       IN  \/ type \in {"ACCEPT", "DECLINE"} /\ state = "RINGING" /\ p = Callee
           \/ type = "CANCEL" /\ state = "RINGING" /\ p = Caller
           \/ type = "OFFER" /\ state \in {"ACCEPTED", "CONNECTED"} /\ p = Caller
           \/ type = "ANSWER" /\ state = "NEGOTIATING" /\ p = Callee
           \/ type \in {"ICE_COMPLETE", "END"} /\ state \in Established

\* dispatch of the oldest signal; call.busy is an error to the caller.  Once
\* call.invite is delivered the callee may act: that call.ringing is still to be
\* sent takes the invitation's place.
Serve(p) ==
    /\ outbox[p] # <<>> /\ registered[p]
    /\ LET type == Head(outbox[p])
           q    == Other(p)
           rings == type = "INVITE" /\ registered[q] /\ InviteVerdict(Id, p, q) = "OK"
       IN  /\ outbox' = IF rings THEN [outbox EXCEPT ![p] = <<"RINGING">> \o Tail(@)]
                        ELSE Took(outbox, p)
           /\ \/ rings /\ Invite(Id, p, q, 0) /\ Deliver({q}, "INVITE")
              \/ type = "RINGING" /\ Deliver({p}, "RINGING") /\ UNCHANGED mvars
              \/ /\ type \notin {"INVITE", "RINGING"} /\ Fits(type, p)
                 /\ Transitions(type, p)
                 /\ IF registered[q] THEN Deliver({q}, type) ELSE Deliver({p}, "ERROR")
              \/ /\ ~rings /\ type # "RINGING" /\ ~Fits(type, p)
                 /\ Deliver({p}, "ERROR") /\ UNCHANGED mvars
    /\ UNCHANGED <<client, up, silent, registered, signals, pion, history>>

\* disconnect: the user's call ends and the other user is told.
Unregister(p) ==
    /\ registered[p] /\ ~up[p] /\ outbox[p] = <<>>
    /\ registered' = [registered EXCEPT ![p] = FALSE]
    /\ Disconnect(p, 0)
    /\ IF Dropped(p) # {} /\ registered[Other(p)]
       THEN Deliver({Other(p)}, "END") ELSE UNCHANGED inbox
    /\ UNCHANGED <<client, up, silent, outbox, signals, pion, history>>

\* sweepLoop: call.timeout to both users of an expired call.
Sweeps ==
    /\ Expire(0)
    /\ IF Id \in Expired(0)
       THEN Deliver({p \in Users : registered[p]}, "TIMEOUT")
       ELSE UNCHANGED inbox
    /\ UNCHANGED <<client, up, silent, registered, outbox, signals, pion, history>>

TimePasses ==
    /\ Tick
    /\ UNCHANGED <<client, link, signals, pion, history>>

\* The server stops: both websockets break and nobody is told anything.
ServerStops ==
    /\ \E p \in Users : registered[p]
    /\ calls' = [c \in {} |-> c] /\ active' = [u \in {} |-> u]
    /\ Breaks(Users) /\ registered' = Both(FALSE) /\ outbox' = Both(<<>>)
    /\ UNCHANGED <<client, inbox, signals, pion, history>>

----------------------------------------------------------------------------
\* What the client's loop does by itself.
Handles(p) ==
    \/ p = Caller /\ WaitSignal
    \/ p = Callee /\ ListenSignal
    \/ SetupLost(p)
    \/ SignalingLost(p)
    \/ ForwardSignal(p)
    \/ SessionSignal(p)
    \/ PeerEvent(p)
    \/ PeerHangup(p)
    \/ ReconnectDeadline(p)
    \/ PeerErrorDeadline(p)

UserActs ==
    \/ StartChat
    \/ CancelInvitation
    \/ AcceptInvitation
    \/ DeclineInvitation
    \/ \E p \in Users, delivered \in BOOLEAN : Quit(p, delivered)
    \/ \E p \in Users : Crash(p)

Network(p) ==
    \/ Drop(p)
    \/ Connects(p)
    \/ ControlOpens(p)
    \/ Disconnects(p)
    \/ Fails(p)
    \/ RemoteCloses(p)
    \/ GatheringDone(p)

Server ==
    \/ \E p \in Users : Serve(p)
    \/ \E p \in Users : Unregister(p)
    \/ Sweeps
    \/ TimePasses

Next ==
    \/ UserActs
    \/ \E p \in Users : Handles(p)
    \/ \E p \in Users : Network(p)
    \/ Server
    \/ ServerStops

Spec == Init /\ [][Next]_vars

\* What Pion owes: to say that a connection is established, impossible or gone.
Settles(p) ==
    \/ Connects(p)
    \/ ControlOpens(p)
    \/ Fails(p)
    \/ stage[Other(p)] = "done" /\ (Disconnects(p) \/ RemoteCloses(p))

\* Clients and the server keep running, clocks included; users owe nothing.
\* Every source of a loop is served in the end because each has finitely
\* many items.
Fairness ==
    /\ \A p \in Users : WF_vars(Handles(p)) /\ WF_vars(Settles(p))
    /\ WF_vars(Server)

FairSpec == Spec /\ Fairness

----------------------------------------------------------------------------
\* No session, and so no camera or microphone, starts on either side before
\* the callee's user said yes (docs/incoming-calls.md).
MediaAfterConsent == \A p \in Users : stage[p] = "session" => accepted

\* An offer never arrives at the server while an earlier one of the same call
\* waits for its answer: an ICE restart is not refused as out of order, which
\* would end the session it is meant to save.
OfferFits ==
    outbox[Caller] # <<>> /\ Head(outbox[Caller]) = "OFFER" /\ Id \in DOMAIN calls
      => calls[Id].state # "NEGOTIATING" /\ calls[Id].state # "RINGING"

\* Negotiation is stuck until the user leaves: signaling went without a word,
\* nothing is left to handle or to send, and Pion, which never got a remote
\* description, has nothing to report.
Stranded(p) ==
    /\ silent[p] /\ inbox[p] = <<>> /\ signals[p] = <<>>
    /\ route[p] = "new" /\ ~described[p]

\* When one side of a session is gone, however it went, the other side ends,
\* except one that negotiates and is stranded.
BothEnd ==
    \A p \in Users :
        stage[p] = "session" /\ stage[Other(p)] = "done"
          ~> stage[p] = "done" \/ Stranded(p)

\* A session gets its control channel or ends: nobody negotiates for ever who is
\* not stranded.
NegotiationEnds ==
    \A p \in Users :
        stage[p] = "session" ~> controlOpen[p] \/ stage[p] = "done" \/ Stranded(p)

\* The caller does not wait for ever for an invitation that was answered, timed
\* out or refused.  The two exceptions are a call.end, which RunChat ignores (the
\* callee disconnects while it rings), and a websocket lost without a word.
WaitingEnds ==
    stage[Caller] = "waiting"
      ~> stage[Caller] # "waiting" \/ deaf \/ (silent[Caller] /\ inbox[Caller] = <<>>)

\* After the control channel opens the peer connection is independent from
\* signaling (docs/reliability.md): while both sides are in session over a
\* connection that works, nothing about signaling ends the session.
SignalingIndependent == ~cutOff
=============================================================================
