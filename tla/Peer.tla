-------------------------------- MODULE Peer --------------------------------
(***************************************************************************)
(* One end of a peer connection (internal/client/peer/peer.go) and the     *)
(* loop of runSession (internal/client/app/app.go) that owns it.           *)
(*                                                                         *)
(* The Peer is three bounded queues and the goroutines around them: Pion's *)
(* callbacks fill signals and events, sendLoop empties outbound into the   *)
(* control channel and reports its failures on events, and the session's   *)
(* loop is both the only consumer of signals and events and a producer of  *)
(* signals and outbound.  A blocked channel operation is an action that is *)
(* not enabled.  Every one of them also selects on the context, which only *)
(* Ctrl-C or the end of the session cancels.                               *)
(*                                                                         *)
(* Pion is external: it raises any event at any time, within MaxInputs.    *)
(* What a signal, a message or a frame says does not matter here, so       *)
(* signals is a number; candidates of the other end are numbered in the    *)
(* order in which they arrive.  What the queues carry is in Session and    *)
(* AsciiVideo.                                                             *)
(***************************************************************************)
EXTENDS Integers, Sequences

CONSTANTS QueueSize,     \* of signals, events and outbound
          Gathered,      \* bound: candidates one gathering finds
          MaxInputs      \* bound: events, offers and candidates from outside

ASSUME PeerAssumption ==
    /\ QueueSize \in Nat \ {0}
    /\ Gathered \in Nat /\ MaxInputs \in Nat

VARIABLES
    role,        \* "caller" or "callee"
    loop,        \* where the session's loop is
    available,   \* signalingAvailable
    controlOpen, \* controlOpen
    restarted,   \* restartAttempted
    signals,     \* number of signals queued
    events,      \* queue of events
    outbound,    \* queue of control messages and flush markers
    flushed,     \* the marker of the flush was taken out of outbound
    sender,      \* where sendLoop is
    video,       \* where videoSendLoop is
    ready,       \* the control channel has opened
    raised,      \* per event: callbacks blocked in emitEvent
    left,        \* inputs still to come
    gathering,   \* local candidates not in signals yet
    owed,        \* answers to come to the offers of a caller
    described,   \* remoteDescription
    pending,     \* pendingCandidates
    added,       \* candidates added to Pion
    arrived,     \* number of candidates received
    cancelled,   \* the Peer's context is done
    closing      \* where Close is

locals == <<available, controlOpen, restarted, owed, described, pending, added, arrived>>
session == <<role, loop, locals>>
queues == <<signals, events, outbound, flushed>>
workers == <<sender, video>>
pion == <<ready, raised, left, gathering>>
context == <<cancelled, closing>>
vars == <<session, queues, workers, pion, context>>

\* OTHER stands for a control message, the opening of the audio or the video
\* channel, an error and the other states of the connection: the loop's work
\* on those blocks on no queue.
EventTypes == {"OPEN", "CONNECTED", "FAILED", "OTHER"}

Init ==
    /\ role \in {"caller", "callee"}
    /\ loop = "start" /\ available = TRUE /\ controlOpen = FALSE
    /\ restarted = FALSE
    /\ signals = 0 /\ events = <<>> /\ outbound = <<>> /\ flushed = FALSE
    /\ sender = "take" /\ video = "take"
    /\ ready = FALSE /\ raised = [e \in EventTypes |-> 0] /\ left = MaxInputs
    /\ gathering = 0 /\ owed = 0
    /\ described = FALSE /\ pending = <<>> /\ added = <<>> /\ arrived = 0
    /\ cancelled = FALSE /\ closing = "open"

\* Something comes from outside.
Input == left > 0 /\ left' = left - 1

----------------------------------------------------------------------------
\* The channel operations.

\* Mutant: emitEvent does not look at the context.
EmitEventBlindly(event) == Len(events) < QueueSize /\ events' = Append(events, event)

\* emitEvent, to its return.
EmitEvent(event) ==
    \/ Len(events) < QueueSize /\ events' = Append(events, event)
    \/ cancelled /\ UNCHANGED events

----------------------------------------------------------------------------
\* The session's loop.  It is at "select", or blocked: "emit" in emitSignal,
\* "send" in Send, and for /quit "hangup" in Send, "flush" and "flushing" in
\* Flush and "drain" in the pause after it.  At "end" it has left the loop.

Goes(place) == loop' = place /\ UNCHANGED locals

\* The loop is left, and nothing looks at its variables any more.
Ends ==
    /\ loop' = "end"
    /\ available' = FALSE /\ controlOpen' = FALSE /\ restarted' = FALSE
    /\ owed' = 0 /\ described' = FALSE /\ pending' = <<>> /\ added' = <<>> /\ arrived' = 0

\* The loop queues an item for sendLoop and goes on; the context ends the
\* wait with an error.
Queue(item, next, error) ==
    \/ Len(outbound) < QueueSize /\ outbound' = Append(outbound, item) /\ next
    \/ cancelled /\ UNCHANGED outbound /\ error

\* SetLocalDescription starts a gathering, whose candidates may overtake the
\* description that the loop is about to emit.
Negotiate == gathering' = gathering + Gathered /\ loop' = "emit"

\* The caller's Start; the callee waits for the offer.
Start ==
    /\ loop = "start"
    /\ \/ role = "caller" /\ ~cancelled /\ Negotiate /\ UNCHANGED locals
       \/ role = "caller" /\ cancelled /\ Ends /\ UNCHANGED gathering
       \/ role = "callee" /\ Goes("select") /\ UNCHANGED gathering
    /\ UNCHANGED <<role, queues, workers, ready, raised, left, context>>

\* emitSignal of an offer, which an answer is to follow, or of an answer.
EmitDescription ==
    /\ loop = "emit"
    /\ \/ /\ signals < QueueSize /\ signals' = signals + 1
          /\ loop' = "select"
          /\ owed' = IF role = "caller" THEN owed + 1 ELSE owed
          /\ UNCHANGED <<available, controlOpen, restarted, described, pending, added, arrived>>
       \/ cancelled /\ Ends /\ UNCHANGED signals
    /\ UNCHANGED <<role, events, outbound, flushed, workers, pion, context>>

\* Send of a hello, a chat message, the microphone's state or a keyframe
\* request.
SendMessage ==
    /\ loop = "send" /\ Queue("MESSAGE", Goes("select"), Ends)
    /\ UNCHANGED <<role, signals, events, flushed, workers, pion, context>>

\* A signal goes to the signaling server, or fails to.
ForwardSignal ==
    /\ loop = "select" /\ available /\ signals > 0
    /\ signals' = signals - 1
    /\ Goes("select") \/ Ends
    /\ UNCHANGED <<role, events, outbound, flushed, workers, pion, context>>

\* The signaling connection is lost: without a control channel that is the
\* end, with one the loop stops listening to signals of both kinds.
SignalingLost ==
    /\ loop = "select" /\ available
    /\ \/ ~controlOpen /\ Ends
       \/ /\ controlOpen /\ available' = FALSE
          /\ UNCHANGED <<loop, controlOpen, restarted, owed, described, pending, added, arrived>>
    /\ UNCHANGED <<role, queues, workers, pion, context>>

\* Mutant: the pending candidates are not forgotten.
FlushPendingAgain == described' = TRUE /\ added' = added \o pending /\ UNCHANGED pending

\* markRemoteDescriptionAndFlushCandidates.
FlushPending == described' = TRUE /\ added' = added \o pending /\ pending' = <<>>

\* applyDescription: the callee answers an offer.  (Once the context is done
\* ApplySignal fails and the loop ends, as in LoopEnds.)
RemoteDescription ==
    /\ loop = "select" /\ available /\ ~cancelled
    /\ FlushPending
    /\ \/ role = "callee" /\ Input /\ Negotiate /\ UNCHANGED owed
       \/ role = "caller" /\ owed > 0 /\ owed' = owed - 1 /\ UNCHANGED <<gathering, loop, left>>
    /\ UNCHANGED <<role, available, controlOpen, restarted, arrived, queues, workers, ready,
                   raised, context>>

\* applyCandidate, and AddICECandidate of a candidate that is not held back.
RemoteCandidate ==
    /\ loop = "select" /\ available /\ ~cancelled /\ Input
    /\ arrived' = arrived + 1
    /\ IF described THEN added' = Append(added, arrived') /\ UNCHANGED pending
                    ELSE pending' = Append(pending, arrived') /\ UNCHANGED added
    /\ UNCHANGED <<role, loop, available, controlOpen, restarted, owed, described, queues,
                   workers, ready, raised, gathering, context>>

\* RestartICE of the caller, once until the route is back.
Restarts == role = "caller" /\ available /\ ~restarted

\* The loop handles an event of the peer connection: it greets on a channel
\* that opened, and restarts a route that failed.
HandleEvent ==
    /\ loop = "select" /\ events # <<>>
    /\ events' = Tail(events)
    /\ LET event == Head(events)
       IN \/ /\ event = "FAILED" /\ Restarts /\ cancelled
             /\ Ends /\ UNCHANGED gathering
          \/ /\ event = "FAILED" /\ Restarts /\ ~cancelled
             /\ Negotiate /\ restarted' = TRUE
             /\ UNCHANGED <<available, controlOpen, owed, described, pending, added, arrived>>
          \/ /\ ~(event = "FAILED" /\ Restarts)
             /\ controlOpen' = (controlOpen \/ event = "OPEN")
             /\ restarted' = (restarted /\ event # "CONNECTED")
             /\ loop' = IF event = "OPEN" THEN "send" ELSE "select"
             /\ UNCHANGED <<available, owed, described, pending, added, arrived, gathering>>
    /\ UNCHANGED <<role, signals, outbound, flushed, workers, ready, raised, left, context>>

\* A line: /mute needs no open channel, chat does, /quit says goodbye on one.
\* A closed input ends the session.
Line ==
    /\ loop = "select" /\ ~cancelled
    /\ \/ Goes("send")                                    \* /mute
       \/ controlOpen /\ Goes("send")                     \* chat
       \/ IF controlOpen THEN Goes("hangup") ELSE Ends    \* /quit
       \/ Ends                                            \* input closed
    /\ UNCHANGED <<role, queues, workers, pion, context>>

\* Mutant: Flush does not wait for its marker to come out of the queue.
QueueMarkerOnly ==
    Queue("MARKER", Goes("flushing") /\ flushed' = TRUE, Goes("drain") /\ UNCHANGED flushed)

\* Flush queues its marker.
QueueMarker == Queue("MARKER", Goes("flushing"), Goes("drain")) /\ UNCHANGED flushed

\* Send of the hangup, whose error is ignored, and Flush, which has a second
\* in all and returns earlier when its marker came out or the context is done.
Goodbye ==
    /\ \/ /\ loop = "hangup" /\ Queue("MESSAGE", Goes("flush"), Goes("flush"))
          /\ UNCHANGED flushed
       \/ loop = "flush" /\ QueueMarker
       \/ loop \in {"flush", "flushing"} /\ Goes("drain") /\ UNCHANGED <<outbound, flushed>>
    /\ UNCHANGED <<role, signals, events, workers, pion, context>>

\* The pause after Flush ends, or the context is done.
LoopEnds ==
    /\ loop = "drain" \/ (loop = "select" /\ cancelled)
    /\ Ends
    /\ UNCHANGED <<role, queues, workers, pion, context>>

\* The other end, the server or a deadline ends the call.
CallEnds ==
    /\ loop = "select" /\ Ends
    /\ UNCHANGED <<role, queues, workers, pion, context>>

----------------------------------------------------------------------------
\* sendLoop: at "take", with a message in hand at "held", and reporting its
\* failure at "error".

\* It takes a message, or the marker of a flush.
TakeOutbound ==
    /\ sender = "take" /\ outbound # <<>>
    /\ outbound' = Tail(outbound)
    /\ IF Head(outbound) = "MARKER"
       THEN flushed' = TRUE /\ UNCHANGED sender
       ELSE sender' = "held" /\ UNCHANGED flushed
    /\ UNCHANGED <<session, signals, events, video, pion, context>>

\* Mutant: sendLoop returns when a message could not be sent.
ReportedAndStopped == "stopped"

\* Where sendLoop goes once a failure is reported.
Reported == "take"

\* The open channel takes the message or refuses it; a refusal is an event.
HandMessage ==
    /\ \/ sender = "held" /\ ready /\ sender' \in {"take", "error"} /\ UNCHANGED events
       \/ sender = "error" /\ EmitEvent("OTHER") /\ sender' = Reported
    /\ UNCHANGED <<session, signals, outbound, flushed, video, pion, context>>

\* videoSendLoop, waiting for its channel to open or for a frame at "take",
\* reports a frame that could not be sent; the loop only shows that.
VideoStep ==
    /\ \/ video = "take" /\ Input /\ video' = "error" /\ UNCHANGED events
       \/ video = "error" /\ EmitEvent("OTHER") /\ video' = "take" /\ UNCHANGED left
    /\ UNCHANGED <<session, signals, outbound, flushed, sender, ready, raised, gathering,
                   context>>

\* The senders see that the context is done.
SenderStops ==
    /\ cancelled
    /\ \/ sender \in {"take", "held"} /\ sender' = "stopped" /\ UNCHANGED video
       \/ video = "take" /\ video' = "stopped" /\ UNCHANGED sender
    /\ UNCHANGED <<session, queues, pion, context>>

----------------------------------------------------------------------------
\* Pion's callbacks.

\* A callback starts; OnOpen, once, releases sendLoop before its event.
Raise(event) ==
    /\ Input /\ (event = "OPEN" => ~ready)
    /\ raised' = [raised EXCEPT ![event] = @ + 1]
    /\ ready' = (ready \/ event = "OPEN")
    /\ UNCHANGED <<session, queues, workers, gathering, context>>

\* emitEvent in a callback.
CallbackEvent(event) ==
    /\ raised[event] > 0
    /\ EmitEvent(event)
    /\ raised' = [raised EXCEPT ![event] = @ - 1]
    /\ UNCHANGED <<session, signals, outbound, flushed, workers, ready, left, gathering, context>>

\* OnICECandidate: emitSignal of the next candidate.
CallbackCandidate ==
    /\ gathering > 0
    /\ \/ signals < QueueSize /\ signals' = signals + 1
       \/ cancelled /\ UNCHANGED signals
    /\ gathering' = gathering - 1
    /\ UNCHANGED <<session, events, outbound, flushed, workers, ready, raised, left, context>>

----------------------------------------------------------------------------
\* Closing.  Close runs once, for the session that ends or for the goroutine
\* that watches the context; whoever comes second waits for the first.

\* Ctrl-C.  No input is followed after it.
Interrupt ==
    /\ ~cancelled /\ cancelled' = TRUE
    /\ left' = 0
    /\ UNCHANGED <<session, queues, workers, ready, raised, gathering, closing>>

\* cancel and pc.Close, which ends the goroutine that reads RTCP, and then
\* wg.Wait and close(done).
Close ==
    /\ \/ closing = "open" /\ (cancelled \/ loop = "end") /\ closing' = "closed"
       \/ closing = "closed" /\ sender = "stopped" /\ video = "stopped" /\ closing' = "done"
    /\ cancelled' = TRUE /\ left' = 0
    /\ UNCHANGED <<session, queues, workers, ready, raised, gathering>>

\* The deferred Close has returned, and so does runSession.
Return ==
    /\ loop = "end" /\ closing = "done" /\ Goes("returned")
    /\ UNCHANGED <<role, queues, workers, pion, context>>

----------------------------------------------------------------------------
LoopNext ==
    \/ Start \/ EmitDescription \/ SendMessage \/ ForwardSignal \/ SignalingLost
    \/ RemoteDescription \/ RemoteCandidate \/ HandleEvent \/ Line \/ Goodbye
    \/ LoopEnds \/ CallEnds \/ Return

WorkerNext == TakeOutbound \/ HandMessage \/ VideoStep \/ SenderStops

PionNext ==
    \/ \E event \in EventTypes : Raise(event) \/ CallbackEvent(event)
    \/ CallbackCandidate

Next == LoopNext \/ WorkerNext \/ PionNext \/ Interrupt \/ Close

\* Every goroutine that can go on does: the loop out of its waits and on to
\* what its queues hold, the senders, a callback in emitEvent or emitSignal
\* and Close.  Nothing is assumed of the user, of the other end, of signaling
\* or of the events Pion may raise.
Fairness ==
    /\ WF_vars(Start) /\ WF_vars(EmitDescription) /\ WF_vars(SendMessage)
    /\ WF_vars(ForwardSignal) /\ WF_vars(HandleEvent) /\ WF_vars(Goodbye)
    /\ WF_vars(LoopEnds) /\ WF_vars(Return)
    /\ WF_vars(TakeOutbound) /\ WF_vars(HandMessage) /\ WF_vars(SenderStops)
    /\ WF_vars(video = "error" /\ VideoStep)
    /\ \A event \in EventTypes : WF_vars(CallbackEvent(event))
    /\ WF_vars(CallbackCandidate) /\ WF_vars(Close)

Spec == Init /\ [][Next]_vars /\ Fairness

----------------------------------------------------------------------------
\* Properties.

(* Every candidate of the other end is given to Pion exactly once and in   *)
(* the order of arrival, also when it overtakes the description it belongs *)
(* to: applyCandidate holds it back until then, and no longer, and no      *)
(* later description brings it again (app.go's loop, peer.go:715-742).     *)
CandidatesKept ==
    /\ added \o pending = [i \in 1 .. arrived |-> i]
    /\ described => pending = <<>>
    /\ added # <<>> => described

(* Flush covers what was queued before it: once its marker came out of     *)
(* outbound no message is left in the queue or in sendLoop's hand, so the  *)
(* hangup was offered to the channel before the session closes it.         *)
FlushCovers == flushed => sender \notin {"held", "error"} /\ outbound = <<>>

\* The loop waits for itself.  It emits a description into a signals queue
\* that only it empties; or it sends into a full outbound while sendLoop waits
\* for the channel to open, or to report a failure on an events queue that,
\* again, only the loop empties.
WaitsForItself ==
    \/ loop = "emit" /\ signals = QueueSize
    \/ /\ loop \in {"send", "hangup"} /\ Len(outbound) = QueueSize
       /\ \/ sender = "held" /\ ~ready
          \/ sender = "error" /\ Len(events) = QueueSize

(* The session's loop stays blocked on a queue of the Peer only when it    *)
(* waits for itself, in one of the three ways above.  No other state of    *)
(* sendLoop, the callbacks and Close holds it, and in particular not a     *)
(* message that could not be sent.                                         *)
LoopReturns ==
    <>[](loop \notin {"select", "returned"}) => <>[]WaitsForItself

(* A session that ends or is interrupted closes its Peer: every goroutine  *)
(* and every callback that is blocked on a queue nobody empties any more   *)
(* comes out of it, Close returns for both of its callers and runSession   *)
(* returns.                                                                *)
CloseEnds ==
    (cancelled \/ loop = "end") ~>
        /\ loop = "returned" /\ closing = "done" /\ gathering = 0
        /\ \A event \in EventTypes : raised[event] = 0

=============================================================================
