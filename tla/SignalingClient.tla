--------------------------- MODULE SignalingClient ---------------------------
(***************************************************************************)
(* The signaling client, internal/client/signaling/client.go: Connect with *)
(* its handshake, then readLoop, writeLoop and the callers of Send, which  *)
(* share a queue of outbound messages, a context that Close cancels, and a *)
(* channel of errors with room for one.  The owner (runConnected of the daemon,    *)
(* RunChat, RunListen, runSession) learns of a lost connection only        *)
(* through that channel: events is never closed.                           *)
(*                                                                         *)
(* A message is the goroutine that waits for its result, or Nobody when    *)
(* that Send has given up: such a message is still written, and its result *)
(* is read by no one.  A loop's pc is "stopped" once it has returned.      *)
(***************************************************************************)
EXTENDS Naturals, Sequences

CONSTANTS
    Senders,    \* goroutines of the owner that call Send
    Reader,     \* readLoop, which sends pongs
    Nobody,
    QueueSize   \* of outbound

ASSUME ClientAssumption == Reader \notin Senders /\ Nobody \notin Senders \union {Reader}
                           /\ Nobody # Reader /\ QueueSize \in Nat \ {0}

VARIABLES
    phase,     \* Connect: "dial", "hello", "ready"; then "running" or "failed"
    conn,      \* "none", "open", "broken", "closed" (by Close)
    cancelled, \* ctx is done
    errors,    \* Client.errors holds an error
    outbound,  \* Client.outbound
    writing,   \* writeLoop: the message it writes; Nobody if it writes none
    writer,    \* pc of writeLoop: "none", "take", "write", "report", "close", "stopped"
    reader,    \* pc of readLoop: "none", "read", "report", "event", "pong", "close", "stopped"
    send,      \* pc of Send, per caller: "none", "queue", "wait"
    result,    \* the buffered result channel of a message: "none", "ok", "failed"
    noticed,   \* the owner has received an error
    asked,     \* the owner called Close
    unanswered \* history: readLoop closed because its pong could not be written

owner == <<noticed, asked, unanswered>>
vars == <<phase, conn, cancelled, errors, outbound, writing, writer, reader, send, result, owner>>

Callers == Senders \union {Reader}

Init ==
    /\ phase = "dial" /\ conn = "none" /\ cancelled = FALSE /\ errors = FALSE
    /\ outbound = <<>> /\ writing = Nobody
    /\ writer = "none" /\ reader = "none"
    /\ send = [s \in Callers |-> "none"] /\ result = [s \in Callers |-> "none"]
    /\ noticed = FALSE /\ asked = FALSE /\ unanswered = FALSE

----------------------------------------------------------------------------
\* Close, and report if the channel has room.
Close == cancelled' = TRUE /\ conn' = "closed"
Report == errors' = TRUE

\* Send: a place in the queue, or ErrClosed.
Queue(s) ==
    /\ send[s] = "queue" /\ Len(outbound) < QueueSize
    /\ outbound' = Append(outbound, s)
    /\ send' = [send EXCEPT ![s] = "wait"] /\ result' = [result EXCEPT ![s] = "none"]
    /\ UNCHANGED <<phase, conn, cancelled, errors, writing, writer, reader, owner>>

\* Mutant: Send waits for the result of the write alone.
ReturnedWritten(s) == send[s] = "wait" /\ result[s] # "none"

\* Send returns the result of the write, or ErrClosed.
Returned(s) ==
    \/ send[s] = "wait" /\ result[s] # "none"
    \/ send[s] \in {"queue", "wait"} /\ cancelled

SendCall(s) ==
    /\ phase = "running" /\ send[s] = "none"
    /\ send' = [send EXCEPT ![s] = "queue"]
    /\ UNCHANGED <<phase, conn, cancelled, errors, outbound, writing, writer, reader, result, owner>>

\* Send is over, with or without a result: a message that it leaves in the
\* queue or in writeLoop stays there.
Leaves(s) ==
    /\ send' = [send EXCEPT ![s] = "none"]
    /\ outbound' = [i \in DOMAIN outbound |-> IF outbound[i] = s THEN Nobody ELSE outbound[i]]
    /\ writing' = IF writing = s THEN Nobody ELSE writing

SendReturns(s) ==
    /\ Returned(s) /\ Leaves(s)
    /\ UNCHANGED <<phase, conn, cancelled, errors, writer, reader, result, owner>>

\* The caller's own context ends, as that of the last call.end does after 500 ms.
SendExpires(s) ==
    /\ send[s] # "none" /\ Leaves(s)
    /\ UNCHANGED <<phase, conn, cancelled, errors, writer, reader, result, owner>>

----------------------------------------------------------------------------
\* Connect

Dial ==
    /\ phase = "dial"
    /\ \/ phase' = "hello" /\ conn' = "open" /\ UNCHANGED cancelled
       \/ phase' = "failed" /\ cancelled' = TRUE /\ UNCHANGED conn
    /\ UNCHANGED <<errors, outbound, writing, writer, reader, send, result, owner>>

\* Any failure of the handshake closes what Connect has opened.
ConnectFails == phase' = "failed" /\ Close /\ UNCHANGED <<writer, reader>>

\* session.hello is written.
WriteHello ==
    /\ phase = "hello"
    /\ \/ conn = "open" /\ phase' = "ready" /\ UNCHANGED <<conn, cancelled, writer, reader>>
       \/ ConnectFails
    /\ UNCHANGED <<errors, outbound, writing, send, result, owner>>

\* The first message has to be session.ready; then the loops start.  Another
\* message, a broken connection and the handshake's timeout are failures.
ReadReady ==
    /\ phase = "ready"
    /\ \/ /\ conn = "open" /\ phase' = "running" /\ writer' = "take" /\ reader' = "read"
          /\ UNCHANGED <<conn, cancelled>>
       \/ ConnectFails
    /\ UNCHANGED <<errors, outbound, writing, send, result, owner>>

----------------------------------------------------------------------------
\* writeLoop

Take ==
    /\ writer = "take" /\ outbound # <<>>
    /\ writing' = Head(outbound) /\ outbound' = Tail(outbound)
    /\ writer' = "write"
    /\ UNCHANGED <<phase, conn, cancelled, errors, reader, send, result, owner>>

WriterDone ==
    /\ writer = "take" /\ cancelled
    /\ writer' = "stopped"
    /\ UNCHANGED <<phase, conn, cancelled, errors, outbound, writing, reader, send, result, owner>>

Answer(r) == result' = [s \in Callers |-> IF s = writing THEN r ELSE result[s]]

\* conn.Write, and its result to the caller of Send, if it still waits.
Write ==
    /\ writer = "write"
    /\ \/ conn = "open" /\ writer' = "take" /\ Answer("ok")
       \/ writer' = "report" /\ Answer("failed")
    /\ writing' = Nobody
    /\ UNCHANGED <<phase, conn, cancelled, errors, outbound, reader, send, owner>>

\* Mutant: a failed write is not reported.
WriteSilent ==
    /\ writer = "report" /\ writer' = "close"
    /\ UNCHANGED <<phase, conn, cancelled, errors, outbound, writing, reader, send, result, owner>>

\* Mutant: the client is closed first, so that the report finds the context done.
WriteClosesFirst ==
    /\ writer = "report" /\ writer' = "close" /\ Close
    /\ UNCHANGED <<phase, errors, outbound, writing, reader, send, result, owner>>

\* A failed write is reported, unless the context is already done.
WriteReport ==
    /\ writer = "report"
    /\ IF cancelled THEN UNCHANGED errors ELSE Report
    /\ writer' = "close"
    /\ UNCHANGED <<phase, conn, cancelled, outbound, writing, reader, send, result, owner>>

WriteClose ==
    /\ writer = "close"
    /\ Close /\ writer' = "stopped"
    /\ UNCHANGED <<phase, errors, outbound, writing, reader, send, result, owner>>

----------------------------------------------------------------------------
\* readLoop

\* conn.Read fails.
ReadFails ==
    /\ reader = "read" /\ conn # "open"
    /\ reader' = "report"
    /\ UNCHANGED <<phase, conn, cancelled, errors, outbound, writing, writer, send, result, owner>>

ReadReport ==
    /\ reader = "report"
    /\ IF cancelled THEN UNCHANGED errors ELSE Report
    /\ reader' = "close"
    /\ UNCHANGED <<phase, conn, cancelled, outbound, writing, writer, send, result, owner>>

\* Mutant: readLoop returns without its deferred Close.
ReadStops ==
    /\ reader = "close" /\ reader' = "stopped"
    /\ UNCHANGED <<phase, conn, cancelled, errors, outbound, writing, writer, send, result, owner>>

\* The deferred Close.
ReadClose ==
    /\ reader = "close"
    /\ Close /\ reader' = "stopped"
    /\ UNCHANGED <<phase, errors, outbound, writing, writer, send, result, owner>>

\* A message that cannot be decoded is reported, and reading goes on.
ReadInvalid ==
    /\ reader = "read" /\ conn = "open"
    /\ Report
    /\ UNCHANGED <<phase, conn, cancelled, outbound, writing, writer, reader, send, result, owner>>

\* A message for the owner: events takes it, or the context is done.
ReadMessage ==
    /\ reader = "read" /\ conn = "open"
    /\ reader' = "event"
    /\ UNCHANGED <<phase, conn, cancelled, errors, outbound, writing, writer, send, result, owner>>

DeliverEvent ==
    /\ reader = "event"
    /\ reader' \in IF cancelled THEN {"read", "stopped"} ELSE {"read"}
    /\ UNCHANGED <<phase, conn, cancelled, errors, outbound, writing, writer, send, result, owner>>

\* session.ping: the loop sends the pong itself.
ReadPing ==
    /\ reader = "read" /\ conn = "open"
    /\ reader' = "pong" /\ send' = [send EXCEPT ![Reader] = "queue"]
    /\ UNCHANGED <<phase, conn, cancelled, errors, outbound, writing, writer, result, owner>>

\* Its Send has returned; after a failure the loop closes without a report.
PongReturns ==
    /\ reader = "pong" /\ Returned(Reader) /\ Leaves(Reader)
    /\ \/ result[Reader] = "ok" /\ send[Reader] = "wait" /\ reader' = "read"
       \/ result[Reader] = "failed" /\ send[Reader] = "wait" /\ reader' = "close"
       \/ cancelled /\ reader' = "close"
    /\ unanswered' = (unanswered \/ (~cancelled /\ reader' = "close"))
    /\ UNCHANGED <<phase, conn, cancelled, errors, writer, result, noticed, asked>>

----------------------------------------------------------------------------
\* The network and the owner.

Break ==
    /\ conn = "open" /\ conn' = "broken"
    /\ UNCHANGED <<phase, cancelled, errors, outbound, writing, writer, reader, send, result, owner>>

\* <-client.Errors(), after which the owner closes the client in the end.
Notice ==
    /\ errors /\ errors' = FALSE /\ noticed' = TRUE
    /\ UNCHANGED <<phase, conn, cancelled, outbound, writing, writer, reader, send, result, asked, unanswered>>

AskClose ==
    /\ phase = "running" /\ ~asked /\ asked' = TRUE
    /\ Close
    /\ UNCHANGED <<phase, errors, outbound, writing, writer, reader, send, result, noticed, unanswered>>

WriteLoop == Take \/ WriterDone \/ Write \/ WriteReport \/ WriteClose
ReadLoop ==
    \/ ReadFails
    \/ ReadReport
    \/ ReadClose
    \/ DeliverEvent
    \/ Queue(Reader)
    \/ PongReturns

Connect == Dial \/ WriteHello \/ ReadReady

Next ==
    \/ Connect
    \/ \E s \in Senders : SendCall(s)
    \/ \E s \in Senders : Queue(s)
    \/ \E s \in Senders : SendReturns(s)
    \/ \E s \in Senders : SendExpires(s)
    \/ WriteLoop
    \/ ReadLoop
    \/ ReadInvalid
    \/ ReadMessage
    \/ ReadPing
    \/ Break
    \/ Notice
    \/ AskClose

Spec == Init /\ [][Next]_vars

\* The goroutines run and so does the owner; goroutines that wait for room in
\* a Go channel get it in turn, hence strong fairness of Queue.  A context that
\* Send was given need never end.
Fairness ==
    /\ WF_vars(Connect) /\ WF_vars(WriteLoop) /\ WF_vars(ReadLoop) /\ WF_vars(Notice)
    /\ \A s \in Senders : WF_vars(SendReturns(s))
    /\ \A s \in Callers : SF_vars(Queue(s))

FairSpec == Spec /\ Fairness

----------------------------------------------------------------------------
\* Send always returns, whether or not its own context ends: a message that is
\* queued when the loops stop, or behind one that nobody waits for any more,
\* does not hold its caller for ever.
EverySendReturns == \A s \in Callers : send[s] # "none" ~> send[s] = "none"

\* Nothing is leaked: a connection that broke or was closed stops both loops,
\* and a Connect that fails leaves no connection open.
LoopsStop ==
    /\ conn \in {"broken", "closed"} ~>
           phase = "failed" \/ (reader = "stopped" /\ writer = "stopped")
    /\ [](phase = "failed" => cancelled /\ conn \in {"none", "closed"})

\* The owner hears of a connection that it did not close itself, so that the
\* daemon reconnects (docs/reliability.md:9) and a caller stops waiting,
\* although the two loops and every invalid message share one place in the
\* errors channel and a loop reports nothing once the other has closed.  There
\* is one exception: when the write that fails is readLoop's own pong,
\* readLoop may close before writeLoop has reported, and nobody reports.
LossReported ==
    phase = "running" /\ conn # "open" ~> noticed \/ asked \/ unanswered

\* The safety half of it: a client that Connect has returned is never closed
\* unless its owner asked for it, has the reason in the errors channel or has
\* received one, or the pong of the exception above failed.  A loop that
\* closes has reported, or found the context done, which somebody accounted for.
NoSilentClose ==
    phase = "running" /\ cancelled => errors \/ noticed \/ asked \/ unanswered
=============================================================================
