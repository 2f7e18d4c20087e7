----------------------------- MODULE PeerProofs -----------------------------
(***************************************************************************)
(* Proofs about Peer for queues of any size and any number of inputs: the  *)
(* candidates of the other end reach Pion once and in order, and Flush     *)
(* covers what was queued before its marker.                               *)
(*                                                                         *)
(* CandidatesKept only needs the types of its variables beside it.         *)
(* FlushCovers is about the moment at which sendLoop takes the marker; it  *)
(* needs that a marker is the last item of outbound, and that holds        *)
(* because the loop, once it has queued a marker, never returns to a place *)
(* from which it queues anything.                                          *)
(***************************************************************************)
EXTENDS Peer, SequenceTheorems, TLAPS

\* Where the loop is once it may have queued a marker.
Leaving == {"flushing", "drain", "end", "returned"}

Items == {"MESSAGE", "MARKER"}

\* The variables of the queue and of the candidates hold what they should.
Shapes ==
    /\ outbound \in Seq(Items)
    /\ pending \in Seq(Nat) /\ added \in Seq(Nat) /\ arrived \in Nat

\* A marker is the last item of outbound, and the loop is done queueing.
MarkerLast ==
    \A i \in 1 .. Len(outbound) :
        outbound[i] = "MARKER" => i = Len(outbound) /\ loop \in Leaving

\* Nothing is queued after a flush.
FlushLast == flushed => loop \in Leaving

FlushInv == MarkerLast /\ FlushLast /\ FlushCovers

\* The inductive invariant.
PeerInv == Shapes /\ FlushInv /\ CandidatesKept

----------------------------------------------------------------------------
\* Sequences.

\* The candidates 1 to n, and one more.
LEMMA NextNumber ==
  ASSUME NEW n \in Nat, NEW s \in Seq(Nat), s = [i \in 1 .. n |-> i]
  PROVE  Append(s, n + 1) = [i \in 1 .. n + 1 |-> i]
<1>1. Len(s) = n /\ \A i \in 1 .. n : s[i] = i
  <2>1. 1 .. Len(s) = 1 .. n /\ Len(s) \in Nat
    BY LenProperties
  <2> QED  BY <2>1
<1>2. /\ Append(s, n + 1) \in Seq(Nat) /\ Len(Append(s, n + 1)) = n + 1
      /\ \A i \in 1 .. n : Append(s, n + 1)[i] = i
      /\ Append(s, n + 1)[n + 1] = n + 1
  BY <1>1, AppendProperties
<1>3. \A i \in 1 .. n + 1 : Append(s, n + 1)[i] = i
  BY <1>2
<1> QED  BY <1>2, <1>3

\* Before the first candidate.
LEMMA NothingArrived == <<>> \o <<>> = [i \in 1 .. 0 |-> i]
<1>1. <<>> \o <<>> = <<>>
  BY <<>> \in Seq(Nat), ConcatEmptySeq
<1>2. [i \in 1 .. 0 |-> i] \in Seq(Nat) /\ Len([i \in 1 .. 0 |-> i]) = 0
  OBVIOUS
<1> QED  BY <1>1, <1>2, EmptySeq

\* Appending commutes with concatenation, so that a candidate is the last one
\* whether it is added or held back.
LEMMA AppendRight ==
  ASSUME NEW s \in Seq(Nat), NEW t \in Seq(Nat), NEW n \in Nat
  PROVE  s \o Append(t, n) = Append(s \o t, n)
<1>1. Append(t, n) = t \o <<n>> /\ <<n>> \in Seq(Nat)
  BY AppendIsConcat
<1>2. s \o t \in Seq(Nat) /\ Append(s \o t, n) = (s \o t) \o <<n>>
  BY ConcatProperties, AppendIsConcat
<1> QED  BY <1>1, <1>2, ConcatAssociative

----------------------------------------------------------------------------
\* The candidates.

\* A step that does not touch the candidates keeps them in order.
LEMMA CandidatesSame ==
  ASSUME CandidatesKept, pending \in Seq(Nat), added \in Seq(Nat), arrived \in Nat,
         UNCHANGED <<described, pending, added, arrived>>
  PROVE  CandidatesKept' /\ pending' \in Seq(Nat) /\ added' \in Seq(Nat) /\ arrived' \in Nat
  BY DEF CandidatesKept

\* At its end the loop drops its variables.
LEMMA CandidatesDropped ==
  ASSUME Ends
  PROVE  CandidatesKept' /\ pending' \in Seq(Nat) /\ added' \in Seq(Nat) /\ arrived' \in Nat
  BY NothingArrived DEF Ends, CandidatesKept

\* A description releases the candidates held back.
LEMMA CandidatesFlushed ==
  ASSUME CandidatesKept, pending \in Seq(Nat), added \in Seq(Nat), arrived \in Nat,
         FlushPending, arrived' = arrived
  PROVE  CandidatesKept' /\ pending' \in Seq(Nat) /\ added' \in Seq(Nat) /\ arrived' \in Nat
<1>1. added' \in Seq(Nat) /\ added' \o <<>> = added \o pending
  BY ConcatProperties, ConcatEmptySeq DEF FlushPending
<1>2. described' = TRUE /\ pending' = <<>> /\ <<>> \in Seq(Nat)
  BY DEF FlushPending
<1>3. added' \o pending' = [i \in 1 .. arrived' |-> i]
  BY <1>1, <1>2 DEF CandidatesKept
<1> QED  BY <1>1, <1>2, <1>3 DEF CandidatesKept

\* A candidate is added, or held back behind the others.
LEMMA CandidateArrives ==
  ASSUME CandidatesKept, pending \in Seq(Nat), added \in Seq(Nat), arrived \in Nat,
         RemoteCandidate
  PROVE  CandidatesKept' /\ pending' \in Seq(Nat) /\ added' \in Seq(Nat) /\ arrived' \in Nat
<1>1. arrived' = arrived + 1 /\ described' = described
  BY DEF RemoteCandidate
<1>2. Append(added \o pending, arrived + 1) = [i \in 1 .. arrived + 1 |-> i]
  <2>1. added \o pending \in Seq(Nat)
    BY ConcatProperties
  <2> QED  BY <2>1, NextNumber DEF CandidatesKept
<1>3. CASE described
  <2>1. added' = Append(added, arrived + 1) /\ pending' = <<>> /\ pending = <<>>
    BY <1>1, <1>3 DEF RemoteCandidate, CandidatesKept
  <2>2. added' \in Seq(Nat) /\ added' \o <<>> = added' /\ added \o <<>> = added
    BY <2>1, AppendProperties, ConcatEmptySeq
  <2> QED  BY <1>1, <1>2, <1>3, <2>1, <2>2 DEF CandidatesKept
<1>4. CASE ~described
  <2>1. pending' = Append(pending, arrived + 1) /\ added' = added
    BY <1>1, <1>4 DEF RemoteCandidate
  <2>2. pending' \in Seq(Nat) /\ added' \o pending' = Append(added \o pending, arrived + 1)
    BY <2>1, AppendProperties, AppendRight
  <2>3. added' \o pending' = [i \in 1 .. arrived' |-> i]
    BY <1>1, <1>2, <2>2
  <2>4. ~described' /\ added' = <<>>
    BY <1>1, <1>4, <2>1 DEF CandidatesKept
  <2> QED  BY <1>1, <2>1, <2>2, <2>3, <2>4 DEF CandidatesKept
<1> QED  BY <1>3, <1>4

----------------------------------------------------------------------------
\* The flush.

\* Outbound is left alone, and the loop does not come back.
LEMMA FlushAside ==
  ASSUME FlushInv, loop \in Leaving => loop' \in Leaving,
         sender' \in {"held", "error"} => sender \in {"held", "error"},
         UNCHANGED <<outbound, flushed>>
  PROVE  FlushInv'
  BY DEF FlushInv, MarkerLast, FlushLast, FlushCovers

\* The loop queues a message, or its last item.
LEMMA FlushQueued ==
  ASSUME FlushInv, outbound \in Seq(Items), loop \notin Leaving,
         NEW item \in Items, outbound' = Append(outbound, item),
         item = "MARKER" => loop' \in Leaving,
         UNCHANGED <<flushed, sender>>
  PROVE  FlushInv' /\ outbound' \in Seq(Items)
<1>1. ~flushed /\ \A i \in 1 .. Len(outbound) : outbound[i] # "MARKER"
  BY DEF FlushInv, MarkerLast, FlushLast
<1>2. /\ outbound' \in Seq(Items) /\ Len(outbound') = Len(outbound) + 1
      /\ \A i \in 1 .. Len(outbound) : outbound'[i] = outbound[i]
      /\ outbound'[Len(outbound) + 1] = item
  BY AppendProperties
<1>3. MarkerLast'
  <2> SUFFICES ASSUME NEW i \in 1 .. Len(outbound'), outbound'[i] = "MARKER"
               PROVE  i = Len(outbound') /\ loop' \in Leaving
    BY DEF MarkerLast
  <2>1. i = Len(outbound) + 1
    BY <1>1, <1>2
  <2> QED  BY <1>2, <2>1
<1> QED  BY <1>1, <1>2, <1>3 DEF FlushInv, FlushLast, FlushCovers

\* sendLoop takes a message, or the marker behind which nothing is queued.
LEMMA FlushTaken ==
  ASSUME FlushInv, outbound \in Seq(Items), TakeOutbound
  PROVE  FlushInv' /\ outbound' \in Seq(Items)
<1>1. /\ outbound' \in Seq(Items) /\ Len(outbound') = Len(outbound) - 1
      /\ \A i \in 1 .. Len(outbound') : outbound'[i] = outbound[i + 1]
      /\ Len(outbound) \in Nat \ {0} /\ Head(outbound) = outbound[1]
      /\ loop' = loop /\ ~flushed /\ sender = "take"
  BY HeadTailProperties, EmptySeq DEF TakeOutbound, FlushInv, FlushCovers, session
<1>2. MarkerLast'
  BY <1>1 DEF FlushInv, MarkerLast
<1>3. CASE Head(outbound) = "MARKER"
  <2>1. Len(outbound) = 1 /\ loop' \in Leaving
    BY <1>1, <1>3 DEF FlushInv, MarkerLast
  <2>2. outbound' = <<>> /\ sender' = "take"
    BY <1>1, <1>3, <2>1, EmptySeq DEF TakeOutbound
  <2> QED  BY <1>1, <1>2, <2>1, <2>2 DEF FlushInv, FlushLast, FlushCovers
<1>4. CASE Head(outbound) # "MARKER"
  <2>1. ~flushed'
    BY <1>1, <1>4 DEF TakeOutbound
  <2> QED  BY <1>1, <1>2, <2>1 DEF FlushInv, FlushLast, FlushCovers
<1> QED  BY <1>3, <1>4

----------------------------------------------------------------------------
\* The steps.

\* A new connection has queued nothing and seen no candidate.
LEMMA InitInv == Init => PeerInv
<1> SUFFICES ASSUME Init PROVE PeerInv
  OBVIOUS
<1>1. <<>> \o <<>> = [i \in 1 .. 0 |-> i]
  BY NothingArrived
<1>2. CandidatesKept
  BY <1>1 DEF Init, CandidatesKept
<1>3. Shapes /\ FlushInv
  BY DEF Init, Shapes, FlushInv, MarkerLast, FlushLast, FlushCovers
<1> QED  BY <1>2, <1>3 DEF PeerInv

\* The loop leaves its variables alone or ends, and queues nothing.
LEMMA LoopAside ==
  ASSUME PeerInv, UNCHANGED <<outbound, flushed, sender>>,
         loop \in Leaving => loop' \in Leaving,
         Ends \/ UNCHANGED <<described, pending, added, arrived>>
  PROVE  PeerInv'
<1>1. FlushInv'
  BY FlushAside DEF PeerInv
<1>2. CandidatesKept' /\ pending' \in Seq(Nat) /\ added' \in Seq(Nat) /\ arrived' \in Nat
  BY CandidatesSame, CandidatesDropped DEF PeerInv, Shapes
<1> QED  BY <1>1, <1>2 DEF PeerInv, Shapes

\* One of the loop's sends to sendLoop.
LEMMA LoopQueues ==
  ASSUME PeerInv, loop \notin Leaving, UNCHANGED <<flushed, sender>>,
         NEW item \in Items, outbound' = Append(outbound, item),
         item = "MARKER" => loop' \in Leaving,
         UNCHANGED <<described, pending, added, arrived>>
  PROVE  PeerInv'
<1>1. FlushInv' /\ outbound' \in Seq(Items)
  BY FlushQueued DEF PeerInv, Shapes
<1>2. CandidatesKept' /\ pending' \in Seq(Nat) /\ added' \in Seq(Nat) /\ arrived' \in Nat
  BY CandidatesSame DEF PeerInv, Shapes
<1> QED  BY <1>1, <1>2 DEF PeerInv, Shapes

\* The session loop: the only one that queues a marker.
LEMMA LoopInv ==
  ASSUME PeerInv, LoopNext
  PROVE  PeerInv'
<1> USE DEF Leaving, locals, session, queues, workers
<1>1. CASE Start
  BY <1>1, LoopAside DEF Start, Goes, Negotiate, Ends
<1>2. CASE EmitDescription
  BY <1>2, LoopAside DEF EmitDescription, Ends
<1>3. CASE SendMessage
  <2>1. CASE outbound' = Append(outbound, "MESSAGE") /\ Goes("select")
    BY <1>3, <2>1, LoopQueues DEF SendMessage, Goes, Items
  <2>2. CASE outbound' = outbound /\ Ends
    BY <1>3, <2>2, LoopAside DEF SendMessage, Ends
  <2> QED  BY <1>3, <2>1, <2>2 DEF SendMessage, Queue
<1>4. CASE ForwardSignal
  BY <1>4, LoopAside DEF ForwardSignal, Goes, Ends
<1>5. CASE SignalingLost
  BY <1>5, LoopAside DEF SignalingLost, Ends
<1>6. CASE RemoteDescription
  <2>1. FlushInv' /\ outbound' = outbound /\ arrived' = arrived /\ FlushPending
    BY <1>6, FlushAside DEF RemoteDescription, Negotiate, PeerInv
  <2> QED  BY <2>1, CandidatesFlushed DEF PeerInv, Shapes
<1>7. CASE RemoteCandidate
  <2>1. FlushInv' /\ outbound' = outbound
    BY <1>7, FlushAside DEF RemoteCandidate, PeerInv
  <2> QED  BY <1>7, <2>1, CandidateArrives DEF PeerInv, Shapes
<1>8. CASE HandleEvent
  <2>1. /\ loop = "select" /\ UNCHANGED <<outbound, flushed, sender>>
        /\ Ends \/ UNCHANGED <<described, pending, added, arrived>>
    BY <1>8 DEF HandleEvent, Negotiate
  <2> QED  BY <2>1, LoopAside
<1>9. CASE Line
  BY <1>9, LoopAside DEF Line, Goes, Ends
<1>10. CASE Goodbye
  <2>1. UNCHANGED <<described, pending, added, arrived, sender>> /\ loop \in {"hangup", "flush", "flushing"}
    BY <1>10 DEF Goodbye, Goes, Queue, QueueMarker
  <2>2. CASE loop = "hangup" /\ Queue("MESSAGE", Goes("flush"), Goes("flush")) /\ UNCHANGED flushed
    <3>1. CASE outbound' = Append(outbound, "MESSAGE")
      BY <2>1, <2>2, <3>1, LoopQueues DEF Items
    <3>2. CASE outbound' = outbound
      BY <2>1, <2>2, <3>2, LoopAside
    <3> QED  BY <2>2, <3>1, <3>2 DEF Queue
  <2>3. CASE loop = "flush" /\ QueueMarker
    <3>1. CASE outbound' = Append(outbound, "MARKER") /\ Goes("flushing")
      BY <2>1, <2>3, <3>1, LoopQueues DEF Items, QueueMarker, Goes
    <3>2. CASE outbound' = outbound
      BY <2>1, <2>3, <3>2, LoopAside DEF QueueMarker
    <3> QED  BY <2>3, <3>1, <3>2 DEF QueueMarker, Queue
  <2>4. CASE loop \in {"flush", "flushing"} /\ Goes("drain") /\ UNCHANGED <<outbound, flushed>>
    BY <2>1, <2>4, LoopAside DEF Goes
  <2> QED  BY <1>10, <2>2, <2>3, <2>4 DEF Goodbye
<1>11. CASE LoopEnds \/ CallEnds
  BY <1>11, LoopAside DEF LoopEnds, CallEnds, Ends
<1>12. CASE Return
  BY <1>12, LoopAside DEF Return, Goes
<1> QED  BY <1>1, <1>2, <1>3, <1>4, <1>5, <1>6, <1>7, <1>8, <1>9, <1>10, <1>11, <1>12
         DEF LoopNext

\* The two senders: a marker they take is the end of the queue.
LEMMA WorkerInv ==
  ASSUME PeerInv, WorkerNext
  PROVE  PeerInv'
<1> USE DEF locals, session, queues, workers
<1>1. CASE TakeOutbound
  <2>1. FlushInv' /\ outbound' \in Seq(Items)
    BY <1>1, FlushTaken DEF PeerInv, Shapes
  <2>2. UNCHANGED <<described, pending, added, arrived>>
    BY <1>1 DEF TakeOutbound
  <2> QED  BY <2>1, <2>2, CandidatesSame DEF PeerInv, Shapes
<1>2. CASE HandMessage \/ VideoStep \/ SenderStops
  <2>1. /\ UNCHANGED <<loop, outbound, flushed, described, pending, added, arrived>>
        /\ sender' \in {"held", "error"} => sender \in {"held", "error"}
    BY <1>2 DEF HandMessage, VideoStep, SenderStops, Reported
  <2>2. FlushInv'
    BY <2>1, FlushAside DEF PeerInv
  <2> QED  BY <2>1, <2>2, CandidatesSame DEF PeerInv, Shapes
<1> QED  BY <1>1, <1>2 DEF WorkerNext

\* Every step keeps the invariant.
LEMMA PeerNextInv == PeerInv /\ [Next]_vars => PeerInv'
<1> SUFFICES ASSUME PeerInv, [Next]_vars PROVE PeerInv'
  OBVIOUS
<1> USE DEF locals, session, queues, workers
<1>1. CASE LoopNext
  BY <1>1, LoopInv
<1>2. CASE WorkerNext
  BY <1>2, WorkerInv
<1>3. CASE PionNext \/ Interrupt \/ Close \/ UNCHANGED vars
  <2>1. UNCHANGED <<loop, sender, outbound, flushed, described, pending, added, arrived>>
    BY <1>3 DEF PionNext, Raise, CallbackEvent, CallbackCandidate, Interrupt, Close, vars
  <2> QED  BY <2>1, LoopAside
<1> QED  BY <1>1, <1>2, <1>3 DEF Next

----------------------------------------------------------------------------
\* The inductive invariant holds for every size of the queues and any number
\* of inputs.
THEOREM PeerInvariant == Spec => []PeerInv
  BY InitInv, PeerNextInv, PTL DEF Spec

\* Candidates that arrive before, between and after descriptions are given to
\* Pion once each and in their order (applyCandidate,
\* markRemoteDescriptionAndFlushCandidates).
THEOREM CandidatesInOrder == Spec => []CandidatesKept
<1>1. PeerInv => CandidatesKept
  BY DEF PeerInv
<1> QED  BY <1>1, PeerInvariant, PTL

\* When Flush returns because its marker came out, every message that was
\* queued before it, the hangup in particular, has been offered to the channel.
THEOREM FlushIsComplete == Spec => []FlushCovers
<1>1. PeerInv => FlushCovers
  BY DEF PeerInv, FlushInv
<1> QED  BY <1>1, PeerInvariant, PTL
=============================================================================
