------------------------ MODULE SignalingClientProofs ------------------------
(***************************************************************************)
(* What the signaling client promises for any number of senders and any    *)
(* size of the outbound queue: no close without a reason the owner can     *)
(* see, no loop that stops while the other keeps the connection, nothing   *)
(* left behind by a failed Connect, and one result for every Send.         *)
(***************************************************************************)
EXTENDS SignalingClient, SequenceTheorems, TLAPS

Phases == {"dial", "hello", "ready", "running", "failed"}
Excused == errors \/ noticed \/ asked \/ unanswered

\* The type of the client's state.
TypeInv ==
    /\ phase \in Phases /\ conn \in {"none", "open", "broken", "closed"}
    /\ cancelled \in BOOLEAN /\ errors \in BOOLEAN
    /\ noticed \in BOOLEAN /\ asked \in BOOLEAN /\ unanswered \in BOOLEAN
    /\ outbound \in Seq(Callers \union {Nobody}) /\ writing \in Callers \union {Nobody}
    /\ writer \in {"none", "take", "write", "report", "close", "stopped"}
    /\ reader \in {"none", "read", "report", "event", "pong", "close", "stopped"}
    /\ send \in [Callers -> {"none", "queue", "wait"}]
    /\ result \in [Callers -> {"none", "ok", "failed"}]

\* Where Connect is decides what exists: loops and sends only after it has
\* returned a client, and nothing open after it has failed.
PhaseInv ==
    /\ phase # "running" => /\ writer = "none" /\ reader = "none"
                            /\ \A s \in Callers : send[s] = "none"
    /\ phase = "dial" => conn = "none" /\ ~cancelled
    /\ phase \in {"hello", "ready"} => conn \in {"open", "broken"} /\ ~cancelled
    /\ phase = "failed" => cancelled /\ conn \in {"none", "closed"}
    /\ phase = "running" => conn # "none" /\ (cancelled <=> conn = "closed")

\* A loop on its way to Close has accounted for it, and so has whoever closed.
CloseInv ==
    phase = "running" /\ (writer = "close" \/ reader = "close" \/ cancelled) => Excused

\* A loop that has stopped leaves the client closed.
StopInv == writer = "stopped" \/ reader = "stopped" => phase = "running" /\ cancelled

\* A message that a Send waits for is in one place: queued or being written.
Queued(s) == \E i \in 1..Len(outbound) : outbound[i] = s
Unique(s) == \A i, j \in 1..Len(outbound) : outbound[i] = s /\ outbound[j] = s => i = j
Pending(s) == send[s] = "wait" /\ result[s] = "none"

\* No Send waits for a result that will never come, and the next result is that
\* of its own message, although the queue also holds messages whose Sends have
\* given up.
OneResult ==
    \A s \in Callers :
        /\ Unique(s)
        /\ Pending(s) <=> Queued(s) \/ writing = s
        /\ ~(Queued(s) /\ writing = s)

\* readLoop sends only its pong, and writeLoop holds a message that somebody
\* waits for only at its write.
LoopInv ==
    /\ reader = "pong" <=> send[Reader] # "none"
    /\ writing # Nobody => writer = "write"
    /\ Len(outbound) <= QueueSize

ClientInv == TypeInv /\ PhaseInv /\ CloseInv /\ StopInv /\ LoopInv /\ OneResult

----------------------------------------------------------------------------

\* A Send that gives up leaves the queue as long as it was, with nothing of its
\* own in it and every other message in its place.
LEMMA LeavesQueue ==
    ASSUME TypeInv, NEW t \in Callers, Leaves(t)
    PROVE  /\ outbound' \in Seq(Callers \union {Nobody}) /\ Len(outbound') = Len(outbound)
           /\ \A i \in 1..Len(outbound) :
                  outbound'[i] = IF outbound[i] = t THEN Nobody ELSE outbound[i]
<1>1. DOMAIN outbound = 1..Len(outbound) /\ Len(outbound) \in Nat
  BY DEF TypeInv
<1>2. outbound' = [i \in 1..Len(outbound) |-> IF outbound[i] = t THEN Nobody ELSE outbound[i]]
  BY <1>1 DEF Leaves
<1>. QED BY <1>1, <1>2 DEF TypeInv

\* Every step keeps the type.
LEMMA TypeStep ==
    ASSUME TypeInv, LoopInv, [Next]_vars
    PROVE  TypeInv'
<1> USE ClientAssumption, TypeInv, LoopInv
    DEF TypeInv, LoopInv, Phases, Callers, owner
<1>1. CASE Dial
  <2>1. cancelled' \in BOOLEAN BY <1>1, Zenon DEF Dial
  <2>. QED BY <1>1, <2>1 DEF Dial
<1>2. CASE WriteHello BY <1>2 DEF WriteHello, ConnectFails, Close
<1>3. CASE ReadReady BY <1>3 DEF ReadReady, ConnectFails, Close
<1>4. ASSUME NEW s \in Senders, SendCall(s) PROVE TypeInv' BY <1>4 DEF SendCall
<1>5. ASSUME NEW s \in Callers, Queue(s) PROVE TypeInv' BY <1>5 DEF Queue
<1>6. ASSUME NEW s \in Senders, SendReturns(s) \/ SendExpires(s) PROVE TypeInv'
  BY <1>6, LeavesQueue DEF SendReturns, SendExpires, Leaves
<1>7. CASE Take BY <1>7 DEF Take
<1>8. CASE WriterDone BY <1>8 DEF WriterDone
<1>9. CASE Write BY <1>9 DEF Write, Answer
<1>10. CASE WriteReport BY <1>10 DEF WriteReport, Report
<1>11. CASE WriteClose BY <1>11 DEF WriteClose, Close
<1>12. CASE ReadFails BY <1>12 DEF ReadFails
<1>13. CASE ReadReport BY <1>13 DEF ReadReport, Report
<1>14. CASE ReadClose BY <1>14 DEF ReadClose, Close
<1>15. CASE DeliverEvent BY <1>15 DEF DeliverEvent
<1>16. CASE PongReturns BY <1>16, LeavesQueue DEF PongReturns, Leaves, Returned
<1>17. CASE ReadInvalid BY <1>17 DEF ReadInvalid, Report
<1>18. CASE ReadMessage BY <1>18 DEF ReadMessage
<1>19. CASE ReadPing BY <1>19 DEF ReadPing
<1>20. CASE Break BY <1>20 DEF Break
<1>21. CASE Notice
  <2>1. errors' \in BOOLEAN /\ noticed' \in BOOLEAN BY <1>21, Zenon DEF Notice
  <2>. QED BY <1>21, <2>1 DEF Notice
<1>22. CASE AskClose BY <1>22 DEF AskClose, Close
<1>23. CASE UNCHANGED vars BY <1>23 DEF vars
<1>24. QED
  BY <1>1, <1>2, <1>3, <1>4, <1>5, <1>6, <1>7, <1>8, <1>9, <1>10, <1>11, <1>12, <1>13,
     <1>14, <1>15, <1>16, <1>17, <1>18, <1>19, <1>20, <1>21, <1>22, <1>23
  DEF Next, Connect, WriteLoop, ReadLoop, Callers

\* Every step keeps what the phase of Connect implies, with the loops and sends.
LEMMA PhaseStep ==
    ASSUME TypeInv, PhaseInv, LoopInv, [Next]_vars
    PROVE  PhaseInv'
<1> USE ClientAssumption, TypeInv, PhaseInv, LoopInv
    DEF TypeInv, PhaseInv, LoopInv, Phases, Callers, owner
<1>1. CASE Dial BY <1>1 DEF Dial
<1>2. CASE WriteHello BY <1>2 DEF WriteHello, ConnectFails, Close
<1>3. CASE ReadReady BY <1>3 DEF ReadReady, ConnectFails, Close
<1>4. ASSUME NEW s \in Senders, SendCall(s) PROVE PhaseInv' BY <1>4 DEF SendCall
<1>5. ASSUME NEW s \in Callers, Queue(s) PROVE PhaseInv' BY <1>5 DEF Queue
<1>6. ASSUME NEW s \in Senders, SendReturns(s) \/ SendExpires(s) PROVE PhaseInv'
  BY <1>6, LeavesQueue DEF SendReturns, SendExpires, Leaves
<1>7. CASE Take BY <1>7 DEF Take
<1>8. CASE WriterDone BY <1>8 DEF WriterDone
<1>9. CASE Write BY <1>9 DEF Write, Answer
<1>10. CASE WriteReport BY <1>10 DEF WriteReport, Report
<1>11. CASE WriteClose BY <1>11 DEF WriteClose, Close
<1>12. CASE ReadFails BY <1>12 DEF ReadFails
<1>13. CASE ReadReport BY <1>13 DEF ReadReport, Report
<1>14. CASE ReadClose BY <1>14 DEF ReadClose, Close
<1>15. CASE DeliverEvent BY <1>15 DEF DeliverEvent
<1>16. CASE PongReturns BY <1>16, LeavesQueue DEF PongReturns, Leaves, Returned
<1>17. CASE ReadInvalid BY <1>17 DEF ReadInvalid, Report
<1>18. CASE ReadMessage BY <1>18 DEF ReadMessage
<1>19. CASE ReadPing BY <1>19 DEF ReadPing
<1>20. CASE Break BY <1>20 DEF Break
<1>21. CASE Notice BY <1>21 DEF Notice
<1>22. CASE AskClose BY <1>22 DEF AskClose, Close
<1>23. CASE UNCHANGED vars BY <1>23 DEF vars
<1>24. QED
  BY <1>1, <1>2, <1>3, <1>4, <1>5, <1>6, <1>7, <1>8, <1>9, <1>10, <1>11, <1>12, <1>13,
     <1>14, <1>15, <1>16, <1>17, <1>18, <1>19, <1>20, <1>21, <1>22, <1>23
  DEF Next, Connect, WriteLoop, ReadLoop, Callers

\* Every step keeps a close accounted for.
LEMMA CloseStep ==
    ASSUME TypeInv, PhaseInv, CloseInv, [Next]_vars
    PROVE  CloseInv'
<1> USE TypeInv, PhaseInv, CloseInv
    DEF TypeInv, PhaseInv, CloseInv, Excused, Phases, Callers, owner
<1>1. CASE Dial BY <1>1 DEF Dial
<1>2. CASE WriteHello BY <1>2 DEF WriteHello, ConnectFails, Close
<1>3. CASE ReadReady BY <1>3 DEF ReadReady, ConnectFails, Close
<1>4. ASSUME NEW s \in Senders, SendCall(s) PROVE CloseInv' BY <1>4 DEF SendCall
<1>5. ASSUME NEW s \in Callers, Queue(s) PROVE CloseInv' BY <1>5 DEF Queue
<1>6. ASSUME NEW s \in Senders, SendReturns(s) \/ SendExpires(s) PROVE CloseInv'
  BY <1>6, LeavesQueue DEF SendReturns, SendExpires, Leaves
<1>7. CASE Take BY <1>7 DEF Take
<1>8. CASE WriterDone BY <1>8 DEF WriterDone
<1>9. CASE Write BY <1>9 DEF Write, Answer
<1>10. CASE WriteReport BY <1>10 DEF WriteReport, Report
<1>11. CASE WriteClose BY <1>11 DEF WriteClose, Close
<1>12. CASE ReadFails BY <1>12 DEF ReadFails
<1>13. CASE ReadReport BY <1>13 DEF ReadReport, Report
<1>14. CASE ReadClose BY <1>14 DEF ReadClose, Close
<1>15. CASE DeliverEvent BY <1>15 DEF DeliverEvent
<1>16. CASE PongReturns BY <1>16, LeavesQueue DEF PongReturns, Leaves, Returned
<1>17. CASE ReadInvalid BY <1>17 DEF ReadInvalid, Report
<1>18. CASE ReadMessage BY <1>18 DEF ReadMessage
<1>19. CASE ReadPing BY <1>19 DEF ReadPing
<1>20. CASE Break BY <1>20 DEF Break
<1>21. CASE Notice BY <1>21 DEF Notice
<1>22. CASE AskClose BY <1>22 DEF AskClose, Close
<1>23. CASE UNCHANGED vars BY <1>23 DEF vars
<1>24. QED
  BY <1>1, <1>2, <1>3, <1>4, <1>5, <1>6, <1>7, <1>8, <1>9, <1>10, <1>11, <1>12, <1>13,
     <1>14, <1>15, <1>16, <1>17, <1>18, <1>19, <1>20, <1>21, <1>22, <1>23
  DEF Next, Connect, WriteLoop, ReadLoop, Callers

\* Every step keeps the client of a stopped loop closed.
LEMMA StopStep ==
    ASSUME TypeInv, PhaseInv, StopInv, [Next]_vars
    PROVE  StopInv'
<1> USE TypeInv, PhaseInv, StopInv
    DEF TypeInv, PhaseInv, StopInv, Phases, Callers, owner
<1>1. CASE Dial BY <1>1 DEF Dial
<1>2. CASE WriteHello BY <1>2 DEF WriteHello, ConnectFails, Close
<1>3. CASE ReadReady BY <1>3 DEF ReadReady, ConnectFails, Close
<1>4. ASSUME NEW s \in Senders, SendCall(s) PROVE StopInv' BY <1>4 DEF SendCall
<1>5. ASSUME NEW s \in Callers, Queue(s) PROVE StopInv' BY <1>5 DEF Queue
<1>6. ASSUME NEW s \in Senders, SendReturns(s) \/ SendExpires(s) PROVE StopInv'
  BY <1>6, LeavesQueue DEF SendReturns, SendExpires, Leaves
<1>7. CASE Take BY <1>7 DEF Take
<1>8. CASE WriterDone BY <1>8 DEF WriterDone
<1>9. CASE Write BY <1>9 DEF Write, Answer
<1>10. CASE WriteReport BY <1>10 DEF WriteReport, Report
<1>11. CASE WriteClose BY <1>11 DEF WriteClose, Close
<1>12. CASE ReadFails BY <1>12 DEF ReadFails
<1>13. CASE ReadReport BY <1>13 DEF ReadReport, Report
<1>14. CASE ReadClose BY <1>14 DEF ReadClose, Close
<1>15. CASE DeliverEvent BY <1>15 DEF DeliverEvent
<1>16. CASE PongReturns BY <1>16, LeavesQueue DEF PongReturns, Leaves, Returned
<1>17. CASE ReadInvalid BY <1>17 DEF ReadInvalid, Report
<1>18. CASE ReadMessage BY <1>18 DEF ReadMessage
<1>19. CASE ReadPing BY <1>19 DEF ReadPing
<1>20. CASE Break BY <1>20 DEF Break
<1>21. CASE Notice BY <1>21 DEF Notice
<1>22. CASE AskClose BY <1>22 DEF AskClose, Close
<1>23. CASE UNCHANGED vars BY <1>23 DEF vars
<1>24. QED
  BY <1>1, <1>2, <1>3, <1>4, <1>5, <1>6, <1>7, <1>8, <1>9, <1>10, <1>11, <1>12, <1>13,
     <1>14, <1>15, <1>16, <1>17, <1>18, <1>19, <1>20, <1>21, <1>22, <1>23
  DEF Next, Connect, WriteLoop, ReadLoop, Callers

\* Every step keeps the loops in step with the sends and the queue in its bound.
LEMMA LoopStep ==
    ASSUME TypeInv, PhaseInv, LoopInv, [Next]_vars
    PROVE  LoopInv'
<1> USE ClientAssumption, TypeInv, PhaseInv, LoopInv
    DEF TypeInv, PhaseInv, LoopInv, Callers, owner
<1>1. CASE Dial BY <1>1 DEF Dial
<1>2. CASE WriteHello BY <1>2 DEF WriteHello, ConnectFails, Close
<1>3. CASE ReadReady BY <1>3 DEF ReadReady, ConnectFails, Close
<1>4. ASSUME NEW s \in Senders, SendCall(s) PROVE LoopInv' BY <1>4 DEF SendCall
<1>5. ASSUME NEW s \in Callers, Queue(s) PROVE LoopInv' BY <1>5 DEF Queue
<1>6. ASSUME NEW s \in Senders, SendReturns(s) \/ SendExpires(s) PROVE LoopInv'
  BY <1>6, LeavesQueue DEF SendReturns, SendExpires, Leaves
<1>7. CASE Take BY <1>7 DEF Take
<1>8. CASE WriterDone BY <1>8 DEF WriterDone
<1>9. CASE Write BY <1>9 DEF Write, Answer
<1>10. CASE WriteReport BY <1>10 DEF WriteReport, Report
<1>11. CASE WriteClose BY <1>11 DEF WriteClose, Close
<1>12. CASE ReadFails BY <1>12 DEF ReadFails
<1>13. CASE ReadReport BY <1>13 DEF ReadReport, Report
<1>14. CASE ReadClose BY <1>14 DEF ReadClose, Close
<1>15. CASE DeliverEvent BY <1>15 DEF DeliverEvent
<1>16. CASE PongReturns BY <1>16, LeavesQueue DEF PongReturns, Leaves, Returned
<1>17. CASE ReadInvalid BY <1>17 DEF ReadInvalid, Report
<1>18. CASE ReadMessage BY <1>18 DEF ReadMessage
<1>19. CASE ReadPing BY <1>19 DEF ReadPing
<1>20. CASE Break BY <1>20 DEF Break
<1>21. CASE Notice BY <1>21 DEF Notice
<1>22. CASE AskClose BY <1>22 DEF AskClose, Close
<1>23. CASE UNCHANGED vars BY <1>23 DEF vars
<1>24. QED
  BY <1>1, <1>2, <1>3, <1>4, <1>5, <1>6, <1>7, <1>8, <1>9, <1>10, <1>11, <1>12, <1>13,
     <1>14, <1>15, <1>16, <1>17, <1>18, <1>19, <1>20, <1>21, <1>22, <1>23
  DEF Next, Connect, WriteLoop, ReadLoop, Callers

\* A Send that gives up, or that has its result, leaves the messages of the
\* others where they are.
LEMMA ResultLeaves ==
    ASSUME TypeInv, OneResult, NEW t \in Callers, Leaves(t), UNCHANGED result
    PROVE  OneResult'
<1>1. /\ Len(outbound') = Len(outbound) /\ Len(outbound) \in Nat
      /\ \A i \in 1..Len(outbound) : outbound'[i] = IF outbound[i] = t THEN Nobody ELSE outbound[i]
  BY LeavesQueue DEF TypeInv
<1>2. Nobody \notin Callers
  BY ClientAssumption DEF Callers
<1>3. /\ writing' = IF writing = t THEN Nobody ELSE writing
      /\ \A s \in Callers : send'[s] = IF s = t THEN "none" ELSE send[s]
  BY DEF Leaves, TypeInv
<1>4. ~Queued(t)' /\ Unique(t)' /\ ~Pending(t)' /\ writing' # t
  BY <1>1, <1>2, <1>3 DEF Queued, Unique, Pending
<1>5. ASSUME NEW s \in Callers, s # t
      PROVE  /\ (Queued(s)' <=> Queued(s)) /\ (Unique(s)' <=> Unique(s))
             /\ (Pending(s)' <=> Pending(s)) /\ (writing' = s <=> writing = s)
  <2>1. \A i \in 1..Len(outbound) : outbound'[i] = s <=> outbound[i] = s
    BY <1>1, <1>2, <1>5
  <2>2. (Queued(s)' <=> Queued(s)) /\ (Unique(s)' <=> Unique(s))
    BY <1>1, <2>1 DEF Queued, Unique
  <2>3. (Pending(s)' <=> Pending(s)) /\ (writing' = s <=> writing = s)
    BY <1>2, <1>3, <1>5 DEF Pending
  <2>. QED BY <2>2, <2>3
<1>. QED BY <1>4, <1>5 DEF OneResult

\* Send puts its message at the end of the queue.
LEMMA ResultQueue ==
    ASSUME TypeInv, OneResult, NEW t \in Callers, Queue(t)
    PROVE  OneResult'
<1>1. /\ Len(outbound') = Len(outbound) + 1 /\ Len(outbound) \in Nat
      /\ outbound'[Len(outbound) + 1] = t
      /\ \A i \in 1..Len(outbound) : outbound'[i] = outbound[i]
  BY DEF Queue, TypeInv
<1>2. /\ writing' = writing /\ send[t] = "queue"
      /\ \A s \in Callers : send'[s] = IF s = t THEN "wait" ELSE send[s]
      /\ \A s \in Callers : result'[s] = IF s = t THEN "none" ELSE result[s]
  BY DEF Queue, TypeInv
<1>3. ~Pending(t) /\ ~Queued(t) /\ writing # t /\ Pending(t)'
  BY <1>2 DEF OneResult, Pending
<1>4. Queued(t)' /\ Unique(t)'
  <2>1. \A i \in 1..Len(outbound) : outbound'[i] # t
    BY <1>1, <1>3 DEF Queued
  <2>2. \A i \in 1..Len(outbound') : outbound'[i] = t => i = Len(outbound')
    BY <1>1, <2>1
  <2>. QED BY <1>1, <2>2 DEF Queued, Unique
<1>5. ASSUME NEW s \in Callers, s # t
      PROVE  (Queued(s)' <=> Queued(s)) /\ Unique(s)' /\ (Pending(s)' <=> Pending(s))
  <2>1. \A i \in 1..Len(outbound') : outbound'[i] = s => i \in 1..Len(outbound) /\ outbound[i] = s
    BY <1>1, <1>5
  <2>2. Queued(s)' <=> Queued(s)
    BY <1>1, <2>1 DEF Queued
  <2>3. Unique(s)'
    BY <2>1 DEF OneResult, Unique
  <2>4. Pending(s)' <=> Pending(s)
    BY <1>2, <1>5 DEF Pending
  <2>. QED BY <2>2, <2>3, <2>4
<1>. QED BY <1>2, <1>3, <1>4, <1>5 DEF OneResult

\* writeLoop takes the message at the head of the queue.
LEMMA ResultTake ==
    ASSUME TypeInv, LoopInv, OneResult, Take
    PROVE  OneResult'
<1>0. PICK h : h = outbound[1]
  OBVIOUS
<1>1. /\ writing' = h /\ writing = Nobody /\ UNCHANGED <<send, result>>
      /\ Len(outbound') = Len(outbound) - 1 /\ Len(outbound) \in Nat \ {0}
      /\ \A i \in 1..Len(outbound') : outbound'[i] = outbound[i + 1]
  BY <1>0 DEF Take, TypeInv, LoopInv
<1>2. Nobody \notin Callers
  BY ClientAssumption DEF Callers
<1>3. ASSUME NEW s \in Callers PROVE Unique(s)'
  <2>1. \A i \in 1..Len(outbound') : i + 1 \in 1..Len(outbound) /\ (outbound'[i] = s => outbound[i + 1] = s)
    BY <1>1
  <2>2. Unique(s)
    BY DEF OneResult
  <2>. QED BY <1>1, <2>1, <2>2 DEF Unique
<1>4. ASSUME NEW s \in Callers, s = h PROVE ~Queued(s)' /\ Queued(s)
  <2>1. Unique(s) /\ 1 \in 1..Len(outbound) /\ outbound[1] = s
    BY <1>0, <1>1, <1>4 DEF OneResult
  <2>2. \A i \in 1..Len(outbound') : i + 1 \in 1..Len(outbound) /\ outbound[i + 1] # s
    BY <1>1, <2>1 DEF Unique
  <2>. QED BY <1>1, <2>1, <2>2 DEF Queued
<1>5. ASSUME NEW s \in Callers, s # h PROVE Queued(s)' <=> Queued(s)
  <2>1. ASSUME Queued(s) PROVE Queued(s)'
    <3>1. PICK i \in 1..Len(outbound) : outbound[i] = s
      BY <2>1 DEF Queued
    <3>2. i - 1 \in 1..Len(outbound') /\ outbound'[i - 1] = s
      BY <1>0, <1>1, <1>5, <3>1
    <3>. QED BY <3>2 DEF Queued
  <2>2. ASSUME Queued(s)' PROVE Queued(s)
    <3>1. PICK i \in 1..Len(outbound') : outbound'[i] = s
      BY <2>2 DEF Queued
    <3>2. i + 1 \in 1..Len(outbound) /\ outbound[i + 1] = s
      BY <1>1, <3>1
    <3>. QED BY <3>2 DEF Queued
  <2>. QED BY <2>1, <2>2
<1>6. \A s \in Callers : Pending(s)' <=> Pending(s)
  BY <1>1 DEF Pending
<1>. QED BY <1>1, <1>2, <1>3, <1>4, <1>5, <1>6 DEF OneResult

\* writeLoop answers the message that it has written.
LEMMA ResultWrite ==
    ASSUME TypeInv, OneResult, Write
    PROVE  OneResult'
<1>1. Nobody \notin Callers
  BY ClientAssumption DEF Callers
<1>2. PICK r \in {"ok", "failed"} : Answer(r)
  BY DEF Write
<1>3. /\ writing' = Nobody /\ UNCHANGED <<outbound, send>>
      /\ \A s \in Callers : result'[s] = IF s = writing THEN r ELSE result[s]
  BY <1>2 DEF Write, Answer
<1>4. ASSUME NEW s \in Callers
      PROVE  /\ (Queued(s)' <=> Queued(s)) /\ (Unique(s)' <=> Unique(s))
             /\ (Pending(s)' <=> Pending(s) /\ writing # s)
  BY <1>2, <1>3 DEF Queued, Unique, Pending
<1>. QED BY <1>1, <1>3, <1>4 DEF OneResult

\* Every step keeps each awaited message in one place.
LEMMA ResultStep ==
    ASSUME TypeInv, LoopInv, OneResult, [Next]_vars
    PROVE  OneResult'
<1>1. ASSUME UNCHANGED <<outbound, writing, result>>,
             \A s \in Callers : send'[s] = "wait" <=> send[s] = "wait"
      PROVE  OneResult'
  BY <1>1 DEF OneResult, Unique, Queued, Pending
<1>2. ASSUME NEW s \in Senders, SendCall(s) PROVE OneResult'
  BY <1>1, <1>2 DEF SendCall, TypeInv, Callers
<1>3. ASSUME NEW s \in Callers, Queue(s) PROVE OneResult'
  BY <1>3, ResultQueue
<1>4. ASSUME NEW s \in Senders, SendReturns(s) \/ SendExpires(s) PROVE OneResult'
  BY <1>4, ResultLeaves DEF SendReturns, SendExpires, Callers
<1>5. CASE PongReturns
  BY <1>5, ResultLeaves DEF PongReturns, Callers
<1>6. CASE Take BY <1>6, ResultTake
<1>7. CASE Write BY <1>7, ResultWrite
<1>8. CASE ReadPing
  <2>1. send[Reader] = "none" /\ Reader \in Callers
    BY <1>8 DEF ReadPing, LoopInv, TypeInv, Callers
  <2>. QED BY <1>1, <1>8, <2>1 DEF ReadPing, TypeInv
<1>9. CASE UNCHANGED <<outbound, writing, send, result>>
  BY <1>1, <1>9
<1>. QED
  BY <1>2, <1>3, <1>4, <1>5, <1>6, <1>7, <1>8, <1>9
  DEF Next, vars, Connect, WriteLoop, ReadLoop, Dial, WriteHello, ReadReady, WriterDone,
      WriteReport, WriteClose, ReadFails, ReadReport, ReadClose, DeliverEvent, ReadInvalid,
      ReadMessage, Break, Notice, AskClose, Callers

----------------------------------------------------------------------------
\* The inductive invariant of the signaling client.
THEOREM ClientInvariant == Spec => []ClientInv
<1>1. ASSUME Init PROVE ClientInv
  <2> USE <1>1, ClientAssumption DEF Init
  <2>1. /\ <<>> \in Seq(Callers \union {Nobody}) /\ Len(<<>>) = 0
        /\ outbound = <<>> /\ writing = Nobody /\ Reader \in Callers
    BY DEF Callers
  <2>2. TypeInv BY <2>1, Zenon DEF TypeInv, Phases
  <2>3. PhaseInv /\ CloseInv /\ StopInv BY DEF PhaseInv, CloseInv, StopInv
  <2>4. LoopInv BY <2>1 DEF LoopInv
  <2>5. OneResult
    <3>1. \A s \in Callers : ~Queued(s) /\ Unique(s)
      BY <2>1 DEF Queued, Unique
    <3>2. \A s \in Callers : ~Pending(s) /\ writing # s
      BY <2>1, ClientAssumption DEF Pending, Callers
    <3>. QED BY <3>1, <3>2 DEF OneResult
  <2>. QED BY <2>2, <2>3, <2>4, <2>5 DEF ClientInv
<1>2. ClientInv /\ [Next]_vars => ClientInv'
  BY TypeStep, PhaseStep, CloseStep, StopStep, LoopStep, ResultStep DEF ClientInv
<1>. QED BY <1>1, <1>2, PTL DEF Spec

\* No close is silent: whoever closes a running client, the owner asked, holds
\* or can receive an error, or a pong failed (WriteReport, ReadReport and the
\* shared errors channel).
THEOREM ClosesAreAccounted == Spec => []NoSilentClose
<1>1. ClientInv => NoSilentClose
  BY DEF ClientInv, CloseInv, Excused, NoSilentClose
<1>. QED BY <1>1, ClientInvariant, PTL

\* A failed Connect leaves nothing open, and a loop that has stopped leaves
\* neither the context nor the connection to the other loop.
NothingLeaks ==
    /\ phase = "failed" => cancelled /\ conn \in {"none", "closed"} /\ reader = "none" /\ writer = "none"
    /\ reader = "stopped" \/ writer = "stopped" => cancelled /\ conn = "closed"

\* Nothing leaks: the safety half of LoopsStop.
THEOREM ClientLeaksNothing == Spec => []NothingLeaks
<1>1. ClientInv => NothingLeaks
  BY DEF ClientInv, PhaseInv, StopInv, NothingLeaks
<1>. QED BY <1>1, ClientInvariant, PTL

\* Every Send gets the result of its own message: no message that a Send waits
\* for is lost, queued twice or left behind by it, and none is answered in place
\* of another, however many messages of Sends whose contexts have ended are
\* still queued or being written before it.
THEOREM SendGetsItsOwnResult == Spec => []OneResult
<1>1. ClientInv => OneResult
  BY DEF ClientInv
<1>. QED BY <1>1, ClientInvariant, PTL
=============================================================================
