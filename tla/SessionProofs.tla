--------------------------- MODULE SessionProofs ----------------------------
(***************************************************************************)
(* Proofs about Session, for queues of any length and any number of        *)
(* outages: no session before the callee's user said yes, and no offer     *)
(* that the call table would refuse as out of order.                       *)
(*                                                                         *)
(* Consent follows call.accept back to its source: while the user has not  *)
(* said yes there is none in any queue.                                    *)
(*                                                                         *)
(* OfferFits is about a message and the state of the call at the moment    *)
(* they meet, and is far from inductive.  The argument is that the caller  *)
(* has one turn to negotiate.  It is at most at one of six places: an      *)
(* offer the session has not forwarded, an offer on its way, the table     *)
(* waiting for the answer, an answer on its way back, the caller's peer    *)
(* connection once it has the answer, and the event that says that this    *)
(* connection failed, which is what brings the next offer.  So a second    *)
(* offer cannot set out before the answer to the first has come back.      *)
(***************************************************************************)
EXTENDS Session, CallManagerProofs, SequenceTheorems

Has(queue, item) == \E i \in 1..Len(queue) : queue[i] = item

Once(queue, item) ==
    \A i, j \in 1..Len(queue) : queue[i] = item /\ queue[j] = item => i = j

PeerSignals == {"OFFER", "ANSWER", "ICE_COMPLETE"}
Signals ==
    PeerSignals \union {"INVITE", "RINGING", "ACCEPT", "DECLINE", "CANCEL", "END"}
Events == {"OPEN", "HANGUP", "connected", "disconnected", "failed", "closed"}

Shapes ==
    /\ stage \in [Users -> {"idle", "waiting", "prompt", "session", "done"}]
    /\ stage[Caller] # "prompt"
    /\ described \in [Users -> BOOLEAN]
    /\ outbox \in [Users -> Seq(Signals)]
    /\ inbox \in [Users -> Seq(Signals \union {"TIMEOUT", "ERROR"})]
    /\ signals \in [Users -> Seq(PeerSignals)]
    /\ events \in [Users -> Seq(Events)]

\* Without consent nobody is in session and no acceptance is under way.
Consent ==
    ~accepted => \A p \in Users : /\ stage[p] # "session"
                                  /\ ~Has(outbox[p], "ACCEPT") /\ ~Has(inbox[p], "ACCEPT")

In(state) == Id \in DOMAIN calls /\ calls[Id].state = state

\* The places of the caller's turn.
OfferHeld == Has(signals[Caller], "OFFER")
OfferSent == Has(outbox[Caller], "OFFER")
AnswerDue == In("NEGOTIATING")
AnswerSent == Has(inbox[Caller], "ANSWER")
Settled == described[Caller]
Failure == Has(events[Caller], "failed")

OneTurn ==
    /\ OfferHeld => ~(OfferSent \/ AnswerDue \/ AnswerSent \/ Settled \/ Failure)
    /\ OfferSent => ~(AnswerDue \/ AnswerSent \/ Settled \/ Failure)
    /\ AnswerDue => ~(AnswerSent \/ Settled \/ Failure)
    /\ AnswerSent => ~(Settled \/ Failure)
    /\ Settled => ~Failure

\* No queue holds two of them.
NoneTwice ==
    /\ Once(signals[Caller], "OFFER") /\ Once(outbox[Caller], "OFFER")
    /\ Once(inbox[Caller], "ANSWER") /\ Once(events[Caller], "failed")

\* The turn begins with the session.
NotBefore ==
    stage[Caller] \in {"idle", "waiting"} =>
        ~(OfferHeld \/ OfferSent \/ AnswerDue \/ AnswerSent \/ Settled \/ Failure)

Turn == OneTurn /\ NoneTwice /\ NotBefore

\* The caller is accepted or in session, or a signal of its session is under way.
Answered ==
    stage[Caller] = "session" \/ OfferSent \/ Has(inbox[Caller], "ACCEPT")

\* There is one invitation, and until it is served there is no call; an offer
\* follows the acceptance, so that it does not meet a ringing call.
Asking ==
    /\ ~Has(outbox[Callee], "INVITE") /\ Once(outbox[Caller], "INVITE")
    /\ stage[Caller] = "idle" => ~Has(outbox[Caller], "INVITE")
    /\ stage[Caller] = "idle" \/ Has(outbox[Caller], "INVITE")
         => Id \notin DOMAIN calls /\ ~Answered
    /\ In("RINGING") => ~Answered

\* Offers go from the caller to the callee only.
OneWay == ~Has(inbox[Caller], "OFFER")

\* The inductive invariant.
SessionInv == ManagerInv /\ Shapes /\ Consent /\ Turn /\ Asking /\ OneWay

----------------------------------------------------------------------------
\* Queues.

\* The new queue has the item only if the old one had it, and no more often.
Lighter(old, new, item) ==
    /\ Has(new, item) => Has(old, item)
    /\ Once(old, item) => Once(new, item)

\* A queue that is left alone has gained nothing.
LEMMA LighterSame == \A queue, item : Lighter(queue, queue, item)
  BY DEF Lighter

\* An empty queue holds nothing.
LEMMA EmptyQueue ==
  \A item : /\ ~Has(<<>>, item) /\ Once(<<>>, item)
            /\ \A queue : Lighter(queue, <<>>, item)
  BY DEF Has, Once, Lighter

\* A queue that is emptied has gained nothing.
LEMMA Emptied ==
  ASSUME NEW S, NEW f \in [Users -> Seq(S)], NEW p \in Users
  PROVE  /\ [f EXCEPT ![p] = <<>>] \in [Users -> Seq(S)]
         /\ \A q \in Users : \A x : Lighter(f[q], [f EXCEPT ![p] = <<>>][q], x)
<1>1. <<>> \in Seq(S)
  OBVIOUS
<1>2. \A q \in Users : [f EXCEPT ![p] = <<>>][q] = IF q = p THEN <<>> ELSE f[q]
  OBVIOUS
<1>3. [f EXCEPT ![p] = <<>>] \in [Users -> Seq(S)]
  BY <1>1
<1> QED  BY <1>2, <1>3, EmptyQueue, LighterSame

\* A queue of one item holds that item.
LEMMA SingleQueue ==
  ASSUME NEW item, NEW x
  PROVE  (Has(<<item>>, x) <=> x = item) /\ Once(<<item>>, x)
  BY DEF Has, Once

\* Taking the first item adds nothing, and removes an item that is there once.
LEMMA TailQueue ==
  ASSUME NEW S, NEW queue \in Seq(S), queue # <<>>
  PROVE  /\ Head(queue) \in S /\ Tail(queue) \in Seq(S)
         /\ Has(queue, Head(queue))
         /\ Once(queue, Head(queue)) => ~Has(Tail(queue), Head(queue))
         /\ \A x : Lighter(queue, Tail(queue), x)
<1>1. /\ Head(queue) \in S /\ Tail(queue) \in Seq(S) /\ Len(queue) \in Nat \ {0}
      /\ Head(queue) = queue[1]
      /\ Len(Tail(queue)) = Len(queue) - 1
      /\ \A i \in 1 .. Len(Tail(queue)) : Tail(queue)[i] = queue[i + 1]
  BY HeadTailProperties, EmptySeq
<1>2. Has(queue, Head(queue))
  BY <1>1 DEF Has
<1>3. Once(queue, Head(queue)) => ~Has(Tail(queue), Head(queue))
  BY <1>1 DEF Has, Once
<1>4. ASSUME NEW x PROVE Lighter(queue, Tail(queue), x)
  <2>1. \A i \in 1 .. Len(Tail(queue)) : i + 1 \in 1 .. Len(queue)
    BY <1>1
  <2>2. Has(Tail(queue), x) => Has(queue, x)
    BY <1>1, <2>1 DEF Has
  <2>3. ASSUME Once(queue, x), NEW i \in 1 .. Len(Tail(queue)), NEW j \in 1 .. Len(Tail(queue)),
               Tail(queue)[i] = x, Tail(queue)[j] = x
        PROVE  i = j
    <3>1. i + 1 = j + 1
      BY <1>1, <2>1, <2>3 DEF Once
    <3> QED  BY <3>1
  <2> QED  BY <2>2, <2>3 DEF Lighter, Once
<1> QED  BY <1>1, <1>2, <1>3, <1>4

\* What two queues one after the other hold.
LEMMA ConcatQueue ==
  ASSUME NEW S, NEW queue \in Seq(S), NEW more \in Seq(S)
  PROVE  /\ queue \o more \in Seq(S)
         /\ \A x : /\ Has(queue \o more, x) <=> Has(queue, x) \/ Has(more, x)
                   /\ Once(queue, x) /\ Once(more, x) /\ ~(Has(queue, x) /\ Has(more, x))
                        => Once(queue \o more, x)
                   /\ ~Has(more, x) => Lighter(queue, queue \o more, x)
<1> DEFINE all == queue \o more
<1>1. /\ all \in Seq(S) /\ Len(all) = Len(queue) + Len(more)
      /\ Len(queue) \in Nat /\ Len(more) \in Nat
      /\ \A i \in 1 .. Len(queue) + Len(more) :
            all[i] = IF i <= Len(queue) THEN queue[i] ELSE more[i - Len(queue)]
  BY ConcatProperties, LenProperties
<1> HIDE DEF all
<1>2. /\ \A i \in 1 .. Len(queue) : i \in 1 .. Len(all) /\ all[i] = queue[i]
      /\ \A i \in 1 .. Len(more) : Len(queue) + i \in 1 .. Len(all) /\ all[Len(queue) + i] = more[i]
      /\ \A i \in 1 .. Len(all) :
            \/ i \in 1 .. Len(queue) /\ all[i] = queue[i]
            \/ i - Len(queue) \in 1 .. Len(more) /\ all[i] = more[i - Len(queue)]
  BY <1>1
<1>3. ASSUME NEW x PROVE Has(all, x) <=> Has(queue, x) \/ Has(more, x)
  BY <1>2 DEF Has
<1>4. ASSUME NEW x, Once(queue, x), Once(more, x), ~(Has(queue, x) /\ Has(more, x))
      PROVE  Once(all, x)
  <2> SUFFICES ASSUME NEW i \in 1 .. Len(all), NEW j \in 1 .. Len(all), all[i] = x, all[j] = x
               PROVE  i = j
    BY DEF Once
  <2>1. CASE Has(queue, x)
    <3>1. i \in 1 .. Len(queue) /\ j \in 1 .. Len(queue)
      BY <1>2, <1>4, <2>1 DEF Has
    <3> QED  BY <1>2, <1>4, <3>1 DEF Once
  <2>2. CASE ~Has(queue, x)
    <3>1. /\ i - Len(queue) \in 1 .. Len(more) /\ more[i - Len(queue)] = x
          /\ j - Len(queue) \in 1 .. Len(more) /\ more[j - Len(queue)] = x
      BY <1>2, <2>2 DEF Has
    <3>2. i - Len(queue) = j - Len(queue)
      BY <1>4, <3>1 DEF Once
    <3> QED  BY <1>1, <3>2
  <2> QED  BY <2>1, <2>2
<1>5. ASSUME NEW x, ~Has(more, x) PROVE Lighter(queue, all, x)
  <2>1. Once(more, x)
    BY <1>5 DEF Has, Once
  <2> QED  BY <1>3, <1>4, <1>5, <2>1 DEF Lighter
<1>6. queue \o more = all
  BY DEF all
<1> QED  BY <1>1, <1>3, <1>4, <1>5, <1>6

\* One user's queue loses its first item.
LEMMA TookQueue ==
  ASSUME NEW S, NEW f \in [Users -> Seq(S)], NEW p \in Users, f[p] # <<>>
  PROVE  /\ Took(f, p) \in [Users -> Seq(S)] /\ Head(f[p]) \in S
         /\ Has(f[p], Head(f[p]))
         /\ Once(f[p], Head(f[p])) => ~Has(Took(f, p)[p], Head(f[p]))
         /\ \A q \in Users : \A x : Lighter(f[q], Took(f, p)[q], x)
<1>1. /\ Head(f[p]) \in S /\ Tail(f[p]) \in Seq(S)
      /\ Has(f[p], Head(f[p]))
      /\ Once(f[p], Head(f[p])) => ~Has(Tail(f[p]), Head(f[p]))
      /\ \A x : Lighter(f[p], Tail(f[p]), x)
  BY TailQueue
<1>2. /\ Took(f, p) \in [Users -> Seq(S)]
      /\ \A q \in Users : Took(f, p)[q] = IF q = p THEN Tail(f[p]) ELSE f[q]
  BY <1>1 DEF Took
<1> QED  BY <1>1, <1>2, LighterSame

\* What a queue holds after an item was added at its end.
LEMMA AppendQueue ==
  ASSUME NEW S, NEW queue \in Seq(S), NEW item \in S
  PROVE  /\ Append(queue, item) \in Seq(S)
         /\ \A x : /\ Has(Append(queue, item), x) <=> Has(queue, x) \/ x = item
                   /\ Once(queue, x) /\ (x = item => ~Has(queue, x))
                        => Once(Append(queue, item), x)
                   /\ x # item => Lighter(queue, Append(queue, item), x)
<1>1. <<item>> \in Seq(S) /\ Append(queue, item) = queue \o <<item>>
  BY AppendIsConcat
<1>2. /\ queue \o <<item>> \in Seq(S)
      /\ \A x : /\ Has(queue \o <<item>>, x) <=> Has(queue, x) \/ Has(<<item>>, x)
                /\ Once(queue, x) /\ Once(<<item>>, x) /\ ~(Has(queue, x) /\ Has(<<item>>, x))
                     => Once(queue \o <<item>>, x)
                /\ ~Has(<<item>>, x) => Lighter(queue, queue \o <<item>>, x)
  BY <1>1, ConcatQueue
<1> QED  BY <1>1, <1>2, SingleQueue

----------------------------------------------------------------------------
\* Steps that cannot disturb the argument: nothing that it speaks of is added
\* to a queue, nobody gets further, and the call does not go to a state in
\* which an offer or an answer is awaited.

LighterOutbox ==
    \A p \in Users : \A x \in {"INVITE", "ACCEPT", "OFFER"} : Lighter(outbox[p], outbox'[p], x)
LighterInbox ==
    \A p \in Users : \A x \in {"ACCEPT", "OFFER", "ANSWER"} : Lighter(inbox[p], inbox'[p], x)
LighterSignals == Lighter(signals[Caller], signals'[Caller], "OFFER")
LighterEvents == Lighter(events[Caller], events'[Caller], "failed")

NoFurther ==
    /\ \A p \in Users : stage'[p] = "session" => stage[p] = "session"
    /\ stage'[Caller] \in {"idle", "waiting"} => stage'[Caller] = stage[Caller]
    /\ described'[Caller] => described[Caller]
    /\ accepted' = accepted

CallNoFurther ==
    /\ Id \in DOMAIN calls' => Id \in DOMAIN calls
    /\ \A state \in {"RINGING", "NEGOTIATING"} : In(state)' => In(state)

Quiet ==
    /\ LighterOutbox /\ LighterInbox /\ LighterSignals /\ LighterEvents
    /\ NoFurther /\ CallNoFurther

\* The call has two different users.
LEMMA TwoUsers == Caller \in Users /\ Callee \in Users /\ Caller # Callee
  BY SessionAssumption

\* A step that moves the turn nowhere and says no yes keeps the invariant.
LEMMA QuietInv ==
  ASSUME SessionInv, ManagerInv', Shapes', Quiet
  PROVE  SessionInv'
<1>1. /\ (OfferHeld' => OfferHeld) /\ (OfferSent' => OfferSent)
      /\ (AnswerDue' => AnswerDue) /\ (AnswerSent' => AnswerSent)
      /\ (Settled' => Settled) /\ (Failure' => Failure)
  BY TwoUsers DEF Quiet, LighterOutbox, LighterInbox, LighterSignals, LighterEvents, NoFurther,
         CallNoFurther, Lighter, OfferHeld, OfferSent, AnswerDue, AnswerSent, Settled, Failure
<1>2. Consent'
  BY DEF Quiet, LighterOutbox, LighterInbox, NoFurther, Lighter, SessionInv, Consent
<1>3. Turn'
  <2>1. NoneTwice'
    BY TwoUsers DEF Quiet, LighterOutbox, LighterInbox, LighterSignals, LighterEvents, Lighter,
           SessionInv, Turn, NoneTwice
  <2>2. OneTurn' /\ NotBefore'
    BY <1>1 DEF SessionInv, Turn, OneTurn, NotBefore, Quiet, NoFurther
  <2> QED  BY <2>1, <2>2 DEF Turn
<1>4. Asking'
  <2>1. Answered' => Answered
    BY <1>1, TwoUsers DEF Quiet, LighterInbox, NoFurther, Lighter, Answered
  <2>2. /\ ~Has(outbox'[Callee], "INVITE") /\ Once(outbox'[Caller], "INVITE")
        /\ Has(outbox'[Caller], "INVITE") => Has(outbox[Caller], "INVITE")
    BY TwoUsers DEF Quiet, LighterOutbox, Lighter, SessionInv, Asking
  <2> QED  BY <2>1, <2>2 DEF SessionInv, Asking, Quiet, NoFurther, CallNoFurther
<1>5. OneWay'
  BY TwoUsers DEF Quiet, LighterInbox, Lighter, SessionInv, OneWay
<1> QED  BY <1>2, <1>3, <1>4, <1>5 DEF SessionInv

\* A step that leaves the call table alone.
LEMMA TableSame ==
  ASSUME ManagerInv, UNCHANGED mvars
  PROVE  ManagerInv' /\ CallNoFurther /\ \A state : In(state)' <=> In(state)
<1>1. ManagerInv'
  BY NextInv
<1> QED  BY <1>1 DEF mvars, CallNoFurther, In

\* The function returns on one side, after an ending signal or none.
LEMMA LeaveInv ==
  ASSUME SessionInv, NEW p \in Users,
         NEW types \in {<<>>, <<"END">>, <<"CANCEL">>, <<"DECLINE">>}, Leave(p, types),
         events' \in [Users -> Seq(Events)], LighterEvents
  PROVE  SessionInv'
<1>1. ManagerInv' /\ CallNoFurther
  BY TableSame DEF SessionInv, Leave
<1>2. types \in Seq(Signals) /\ \A x \in {"INVITE", "ACCEPT", "OFFER"} : ~Has(types, x)
  <2>1. /\ {"END", "CANCEL", "DECLINE"} \subseteq Signals
        /\ {"INVITE", "ACCEPT", "OFFER"} \intersect {"END", "CANCEL", "DECLINE"} = {}
    BY DEF Signals
  <2>2. CASE types = <<>>
    BY <2>2, EmptyQueue
  <2>3. CASE \E end \in {"END", "CANCEL", "DECLINE"} : types = <<end>>
    BY <2>1, <2>3, SingleQueue
  <2> QED  BY <2>2, <2>3
<1>3. outbox' \in [Users -> Seq(Signals)] /\ LighterOutbox
  <2>1. /\ outbox[p] \o types \in Seq(Signals)
        /\ \A x \in {"INVITE", "ACCEPT", "OFFER"} : Lighter(outbox[p], outbox[p] \o types, x)
    BY <1>2, ConcatQueue DEF SessionInv, Shapes
  <2>2. outbox' = outbox \/ outbox' = [outbox EXCEPT ![p] = outbox[p] \o types]
    BY DEF Leave, Sent
  <2> QED  BY <2>1, <2>2, LighterSame DEF SessionInv, Shapes, LighterOutbox
<1>4. /\ inbox' \in [Users -> Seq(Signals \union {"TIMEOUT", "ERROR"})] /\ LighterInbox
      /\ signals' \in [Users -> Seq(PeerSignals)] /\ LighterSignals
  <2>1. /\ inbox' = [inbox EXCEPT ![p] = <<>>] /\ signals' = [signals EXCEPT ![p] = <<>>]
        /\ inbox \in [Users -> Seq(Signals \union {"TIMEOUT", "ERROR"})]
        /\ signals \in [Users -> Seq(PeerSignals)]
    BY DEF Leave, SessionInv, Shapes
  <2> QED  BY <2>1, Emptied, TwoUsers DEF LighterInbox, LighterSignals
<1>5. /\ stage' \in [Users -> {"idle", "waiting", "prompt", "session", "done"}]
      /\ stage'[Caller] # "prompt" /\ described' \in [Users -> BOOLEAN]
  BY TwoUsers DEF Leave, SessionInv, Shapes
<1>6. NoFurther
  BY TwoUsers DEF Leave, SessionInv, Shapes, NoFurther
<1>7. Shapes'
  BY <1>3, <1>4, <1>5 DEF Shapes
<1> QED  BY <1>1, <1>3, <1>4, <1>6, <1>7, QuietInv DEF Quiet

\* Stop, Fail and SignalingStop.
LEMMA StopInv ==
  ASSUME SessionInv, NEW p \in Users,
         NEW types \in {<<>>, <<"END">>, <<"CANCEL">>, <<"DECLINE">>}, Leave(p, types),
         events' = [events EXCEPT ![p] = <<>>]
  PROVE  SessionInv'
<1>1. events' \in [Users -> Seq(Events)] /\ LighterEvents
  BY Emptied, TwoUsers DEF SessionInv, Shapes, LighterEvents
<1> QED  BY <1>1, LeaveInv

\* runSession sends call.end, or nothing.
LEMMA EndSignals ==
  \A p : EndSignal(p) \in {<<>>, <<"END">>, <<"CANCEL">>, <<"DECLINE">>}
  BY DEF EndSignal

\* An item is added to a queue.
Added(queue, p, item) == [queue EXCEPT ![p] = Append(@, item)]

\* An item is added to one user's queue.
LEMMA AddedQueue ==
  ASSUME NEW S, NEW f \in [Users -> Seq(S)], NEW p \in Users, NEW item \in S
  PROVE  /\ Added(f, p, item) \in [Users -> Seq(S)]
         /\ \A q \in Users : \A x :
               x # item \/ q # p => Lighter(f[q], Added(f, p, item)[q], x)
         /\ Has(Added(f, p, item)[p], item)
         /\ Once(f[p], item) /\ ~Has(f[p], item) => Once(Added(f, p, item)[p], item)
<1>1. /\ Append(f[p], item) \in Seq(S)
      /\ Has(Append(f[p], item), item)
      /\ Once(f[p], item) /\ ~Has(f[p], item) => Once(Append(f[p], item), item)
      /\ \A x : x # item => Lighter(f[p], Append(f[p], item), x)
  BY AppendQueue
<1>2. /\ Added(f, p, item) \in [Users -> Seq(S)]
      /\ \A q \in Users : Added(f, p, item)[q] = IF q = p THEN Append(f[p], item) ELSE f[q]
  BY <1>1 DEF Added
<1> QED  BY <1>1, <1>2, LighterSame

\* A quiet step outside the server.
LEMMA ClientInv ==
  ASSUME SessionInv, UNCHANGED mvars, Shapes',
         LighterOutbox, LighterInbox, LighterSignals, LighterEvents, NoFurther
  PROVE  SessionInv'
  BY TableSame, QuietInv DEF SessionInv, Quiet

\* A queue that stays as it is.
LEMMA SameQueues ==
  /\ outbox' = outbox => LighterOutbox
  /\ inbox' = inbox => LighterInbox
  /\ signals' = signals => LighterSignals
  /\ events' = events => LighterEvents
  BY LighterSame DEF LighterOutbox, LighterInbox, LighterSignals, LighterEvents

----------------------------------------------------------------------------
\* The network.

\* Pion adds an event other than a failure.
LEMMA EventInv ==
  ASSUME SessionInv, NEW p \in Users, NEW event \in Events, event # "failed",
         events' = Added(events, p, event),
         UNCHANGED <<mvars, stage, described, outbox, inbox, signals, accepted>>
  PROVE  SessionInv'
<1>0. events \in [Users -> Seq(Events)]
  BY DEF SessionInv, Shapes
<1>1. events' \in [Users -> Seq(Events)] /\ LighterEvents
  <2>1. /\ events' \in [Users -> Seq(Events)]
        /\ \A q \in Users : \A x : x # event \/ q # p => Lighter(events[q], events'[q], x)
    BY <1>0, AddedQueue
  <2> QED  BY <2>1, TwoUsers DEF LighterEvents
<1>2. Shapes' /\ NoFurther
  BY <1>1 DEF SessionInv, Shapes, NoFurther
<1> QED  BY <1>1, <1>2, SameQueues, ClientInv

\* The connection failed: a settled caller has its turn in the event.
LEMMA FailsInv ==
  ASSUME SessionInv, NEW p \in Users, Fails(p)
  PROVE  SessionInv'
<1>0. /\ stage[p] = "session" /\ described[p] /\ "failed" \in Events
      /\ events' = Added(events, p, "failed")
      /\ described' = [described EXCEPT ![p] = FALSE]
      /\ UNCHANGED <<mvars, stage, outbox, inbox, signals, accepted>>
  BY DEF Fails, Changed, Added, client, link, history, mvars, Events
<1>1. /\ events' \in [Users -> Seq(Events)]
      /\ \A q \in Users : \A x : x # "failed" \/ q # p => Lighter(events[q], events'[q], x)
      /\ Once(events[p], "failed") /\ ~Has(events[p], "failed") => Once(events'[p], "failed")
  <2>1. events \in [Users -> Seq(Events)]
    BY DEF SessionInv, Shapes
  <2> QED  BY <1>0, <2>1, AddedQueue
<1>2. Shapes' /\ NoFurther
  BY <1>0, <1>1, TwoUsers DEF SessionInv, Shapes, NoFurther
<1>3. CASE p # Caller
  <2>1. LighterEvents
    BY <1>1, <1>3, TwoUsers DEF LighterEvents
  <2> QED  BY <1>0, <1>2, <2>1, SameQueues, ClientInv
<1>4. CASE p = Caller
  <2>1. /\ Settled /\ ~Settled' /\ OfferHeld' = OfferHeld /\ OfferSent' = OfferSent
        /\ AnswerSent' = AnswerSent /\ stage'[Caller] = "session" /\ AnswerDue' = AnswerDue
    BY <1>0, <1>4, TwoUsers DEF SessionInv, Shapes, Settled, OfferHeld, OfferSent, AnswerSent,
           AnswerDue, In, mvars
  <2>2. NoneTwice'
    BY <1>0, <1>1, <1>4, <2>1 DEF SessionInv, Turn, OneTurn, NoneTwice, Failure
  <2>3. OneTurn' /\ NotBefore'
    BY <2>1 DEF SessionInv, Turn, OneTurn, NotBefore
  <2>4. Consent' /\ Asking' /\ OneWay'
    BY <1>0, <2>1 DEF SessionInv, Consent, Asking, Answered, OneWay, In, mvars
  <2> QED  BY <1>0, <1>2, <2>2, <2>3, <2>4, TableSame DEF SessionInv, Turn
<1> QED  BY <1>3, <1>4

\* The websocket drops, and what Pion does: routes, outages, failures, closed channels.
LEMMA NetworkInv ==
  ASSUME SessionInv, NEW p \in Users, Network(p)
  PROVE  SessionInv'
<1>1. CASE Drop(p)
  <2>1. UNCHANGED <<mvars, stage, described, inbox, signals, events, accepted>>
    BY <1>1 DEF Drop, client, pion, history, mvars
  <2>2. outbox' \in [Users -> Seq(Signals)] /\ LighterOutbox
    <3>1. CASE outbox' = outbox
      BY <3>1, SameQueues DEF SessionInv, Shapes
    <3>2. CASE outbox' = [outbox EXCEPT ![p] = <<>>]
      BY <3>2, Emptied DEF SessionInv, Shapes, LighterOutbox
    <3> QED  BY <1>1, <3>1, <3>2 DEF Drop
  <2>3. Shapes' /\ NoFurther
    BY <2>1, <2>2 DEF SessionInv, Shapes, NoFurther
  <2> QED  BY <2>1, <2>2, <2>3, SameQueues, ClientInv
<1>2. CASE Connects(p)
  <2>1. "connected" \in Events /\ "connected" # "failed"
    BY DEF Events
  <2> QED  BY <1>2, <2>1, EventInv DEF Connects, Changed, Added, client, link, history, mvars
<1>3. CASE ControlOpens(p)
  <2>1. "OPEN" \in Events /\ "OPEN" # "failed"
    BY DEF Events
  <2> QED  BY <1>3, <2>1, EventInv DEF ControlOpens, Added, client, link, history, mvars
<1>4. CASE Disconnects(p)
  <2>1. "disconnected" \in Events /\ "disconnected" # "failed"
    BY DEF Events
  <2> QED  BY <1>4, <2>1, EventInv DEF Disconnects, Changed, Added, client, link, history, mvars
<1>5. CASE Fails(p)
  BY <1>5, FailsInv
<1>6. CASE RemoteCloses(p)
  <2>1. "closed" \in Events /\ "closed" # "failed"
    BY DEF Events
  <2> QED  BY <1>6, <2>1, EventInv DEF RemoteCloses, Changed, Added, client, link, history, mvars
<1>7. CASE GatheringDone(p)
  <2>1. UNCHANGED <<mvars, stage, described, outbox, inbox, events, accepted>>
    BY <1>7 DEF GatheringDone, client, link, history, mvars
  <2>2. signals' \in [Users -> Seq(PeerSignals)] /\ LighterSignals
    <3>1. CASE signals' = Added(signals, p, "ICE_COMPLETE")
      <4>1. "ICE_COMPLETE" \in PeerSignals /\ "ICE_COMPLETE" # "OFFER"
        BY DEF PeerSignals
      <4>2. signals \in [Users -> Seq(PeerSignals)]
        BY DEF SessionInv, Shapes
      <4>3. /\ signals' \in [Users -> Seq(PeerSignals)]
            /\ \A q \in Users : \A x :
                  x # "ICE_COMPLETE" \/ q # p => Lighter(signals[q], signals'[q], x)
        BY <3>1, <4>1, <4>2, AddedQueue
      <4> QED  BY <4>1, <4>3, TwoUsers DEF LighterSignals
    <3>2. CASE signals' = signals
      BY <3>2, SameQueues DEF SessionInv, Shapes
    <3>3. signals = [signals EXCEPT ![p] = signals[p]]
      BY DEF SessionInv, Shapes
    <3> QED  BY <1>7, <3>1, <3>2, <3>3 DEF GatheringDone, Added
  <2>3. Shapes' /\ NoFurther
    BY <2>1, <2>2 DEF SessionInv, Shapes, NoFurther
  <2> QED  BY <2>1, <2>2, <2>3, SameQueues, ClientInv
<1> QED  BY <1>1, <1>2, <1>3, <1>4, <1>5, <1>6, <1>7 DEF Network

----------------------------------------------------------------------------
\* The clients before the session.

\* RunChat sends the one invitation there is.
LEMMA StartChatInv ==
  ASSUME SessionInv, StartChat, up[Caller]
  PROVE  SessionInv'
<1>0. /\ stage[Caller] = "idle" /\ stage' = [stage EXCEPT ![Caller] = "waiting"]
      /\ outbox' = [outbox EXCEPT ![Caller] = outbox[Caller] \o <<"INVITE">>]
      /\ UNCHANGED <<mvars, described, inbox, signals, events, accepted>>
  BY DEF StartChat, Sent, pion, history, mvars
<1>1. outbox[Caller] \o <<"INVITE">> \in Seq(Signals)
      /\ \A x : /\ x # "INVITE" => Lighter(outbox[Caller], outbox[Caller] \o <<"INVITE">>, x)
                /\ Once(outbox[Caller], x) /\ ~Has(outbox[Caller], x)
                     => Once(outbox[Caller] \o <<"INVITE">>, x)
  <2>1. outbox[Caller] \in Seq(Signals) /\ <<"INVITE">> \in Seq(Signals)
    BY TwoUsers DEF SessionInv, Shapes, Signals
  <2> QED  BY <2>1, ConcatQueue, SingleQueue
<1>2. /\ stage'[Caller] = "waiting" /\ \A q \in Users : q # Caller => stage'[q] = stage[q]
      /\ outbox'[Caller] = outbox[Caller] \o <<"INVITE">>
      /\ \A q \in Users : q # Caller => outbox'[q] = outbox[q]
  BY <1>0, TwoUsers DEF SessionInv, Shapes
<1>3. Shapes'
  BY <1>0, <1>1, <1>2, TwoUsers DEF SessionInv, Shapes
<1>4. \A q \in Users : \A x : x # "INVITE" => Lighter(outbox[q], outbox'[q], x)
  BY <1>1, <1>2, LighterSame
<1>5. Consent'
  BY <1>0, <1>2, <1>4 DEF SessionInv, Consent, Lighter
<1>6. /\ OfferHeld' = OfferHeld /\ (OfferSent' => OfferSent) /\ AnswerDue' = AnswerDue
      /\ AnswerSent' = AnswerSent /\ Settled' = Settled /\ Failure' = Failure
  BY <1>0, <1>4, TwoUsers DEF Lighter, OfferHeld, OfferSent, AnswerDue, AnswerSent, Settled,
         Failure, In, mvars
<1>7. Turn'
  <2>1. OneTurn' /\ NotBefore'
    BY <1>0, <1>6 DEF SessionInv, Turn, OneTurn, NotBefore
  <2>2. NoneTwice'
    BY <1>0, <1>4, TwoUsers DEF SessionInv, Turn, NoneTwice, Lighter
  <2> QED  BY <2>1, <2>2 DEF Turn
<1>8. Asking'
  <2>1. ~Answered' /\ Id \notin DOMAIN calls' /\ ~In("RINGING")'
    BY <1>0, <1>2, <1>6 DEF SessionInv, Asking, Answered, In, mvars
  <2>2. ~Has(outbox'[Callee], "INVITE") /\ Once(outbox'[Caller], "INVITE")
    BY <1>0, <1>1, <1>2, TwoUsers DEF SessionInv, Asking
  <2> QED  BY <1>2, <2>1, <2>2 DEF Asking
<1>9. OneWay'
  BY <1>0 DEF SessionInv, OneWay
<1> QED  BY <1>0, <1>3, <1>5, <1>7, <1>8, <1>9, TableSame DEF SessionInv

\* The acceptance arrives and the session starts with an offer.
LEMMA GoesAheadInv ==
  ASSUME SessionInv, stage[Caller] = "waiting", inbox[Caller] # <<>>,
         Head(inbox[Caller]) = "ACCEPT",
         stage' = [stage EXCEPT ![Caller] = "session"],
         signals' = [signals EXCEPT ![Caller] = <<"OFFER">>],
         inbox' = Took(inbox, Caller),
         UNCHANGED <<mvars, described, outbox, events, accepted>>
  PROVE  SessionInv'
<1>1. /\ inbox' \in [Users -> Seq(Signals \union {"TIMEOUT", "ERROR"})]
      /\ Has(inbox[Caller], "ACCEPT")
      /\ \A q \in Users : \A x : Lighter(inbox[q], inbox'[q], x)
  <2>1. inbox \in [Users -> Seq(Signals \union {"TIMEOUT", "ERROR"})]
    BY DEF SessionInv, Shapes
  <2> QED  BY <2>1, TookQueue, TwoUsers
<1>2. /\ signals'[Caller] = <<"OFFER">> /\ signals' \in [Users -> Seq(PeerSignals)]
      /\ Once(<<"OFFER">>, "OFFER")
  BY TwoUsers, SingleQueue DEF SessionInv, Shapes, PeerSignals
<1>3. /\ stage'[Caller] = "session" /\ \A q \in Users : q # Caller => stage'[q] = stage[q]
      /\ stage' \in [Users -> {"idle", "waiting", "prompt", "session", "done"}]
  BY TwoUsers DEF SessionInv, Shapes
<1>4. Shapes'
  BY <1>1, <1>2, <1>3 DEF SessionInv, Shapes
<1>5. accepted /\ Consent'
  BY <1>1, TwoUsers DEF SessionInv, Consent
<1>6. /\ ~OfferSent' /\ ~AnswerDue' /\ ~AnswerSent' /\ ~Settled' /\ ~Failure'
  BY <1>1, TwoUsers DEF SessionInv, Turn, NotBefore, Lighter, OfferSent, AnswerDue, AnswerSent,
         Settled, Failure, In, mvars
<1>7. Turn'
  <2>1. OneTurn' /\ NotBefore'
    BY <1>3, <1>6 DEF OneTurn, NotBefore
  <2>2. NoneTwice'
    BY <1>1, <1>2, TwoUsers DEF SessionInv, Turn, NoneTwice, Lighter
  <2> QED  BY <2>1, <2>2 DEF Turn
<1>8. Asking'
  <2>1. Answered
    BY <1>1 DEF Answered
  <2>2. ~Has(outbox[Caller], "INVITE") /\ ~In("RINGING")
    BY <2>1 DEF SessionInv, Asking
  <2> QED  BY <1>3, <2>2 DEF SessionInv, Asking, In, mvars
<1>9. OneWay'
  BY <1>1, TwoUsers DEF SessionInv, OneWay, Lighter
<1> QED  BY <1>4, <1>5, <1>7, <1>8, <1>9, TableSame DEF SessionInv

\* A signal is taken and changes nothing of importance.
LEMMA TakenInv ==
  ASSUME SessionInv, NEW p \in Users, inbox[p] # <<>>, inbox' = Took(inbox, p),
         stage' \in [Users -> {"idle", "waiting", "prompt", "session", "done"}],
         stage'[Caller] = stage[Caller],
         \A q \in Users : stage'[q] = "session" => stage[q] = "session",
         UNCHANGED <<mvars, described, outbox, signals, events, accepted>>
  PROVE  SessionInv'
<1>1. /\ inbox' \in [Users -> Seq(Signals \union {"TIMEOUT", "ERROR"})]
      /\ \A q \in Users : \A x : Lighter(inbox[q], inbox'[q], x)
  <2>1. inbox \in [Users -> Seq(Signals \union {"TIMEOUT", "ERROR"})]
    BY DEF SessionInv, Shapes
  <2> QED  BY <2>1, TookQueue
<1>2. LighterInbox
  BY <1>1 DEF LighterInbox
<1>3. Shapes' /\ NoFurther
  BY <1>1 DEF SessionInv, Shapes, NoFurther
<1> QED  BY <1>2, <1>3, SameQueues, ClientInv

\* RunChat while it waits for the callee: an acceptance starts the first turn.
LEMMA WaitSignalInv ==
  ASSUME SessionInv, WaitSignal
  PROVE  SessionInv'
<1> DEFINE type == Head(inbox[Caller])
<1>0. stage[Caller] = "waiting" /\ inbox[Caller] # <<>>
  BY DEF WaitSignal
<1>1. CASE GoesAhead(type)
  <2>1. /\ stage' = [stage EXCEPT ![Caller] = "session"]
        /\ signals' = [signals EXCEPT ![Caller] = <<"OFFER">>]
        /\ inbox' = Took(inbox, Caller)
        /\ UNCHANGED <<mvars, described, outbox, events, accepted>>
    BY <1>1 DEF WaitSignal, GoesAhead, TurnedDown, history, mvars
  <2> QED  BY <1>0, <1>1, <2>1, GoesAheadInv DEF GoesAhead
<1>2. CASE TurnedDown(type)
  <2>1. Stop(Caller, <<>>)
    BY <1>2 DEF WaitSignal, GoesAhead, TurnedDown
  <2> QED  BY <2>1, StopInv, TwoUsers DEF Stop
<1>3. CASE ~GoesAhead(type) /\ ~TurnedDown(type)
  <2>1. /\ inbox' = Took(inbox, Caller)
        /\ UNCHANGED <<mvars, stage, described, outbox, signals, events, accepted>>
    BY <1>3 DEF WaitSignal, client, pion, mvars
  <2> QED  BY <1>0, <2>1, TakenInv, TwoUsers DEF SessionInv, Shapes
<1> QED  BY <1>1, <1>2, <1>3

\* RunListen while it waits for a call or for its user.
LEMMA ListenSignalInv ==
  ASSUME SessionInv, ListenSignal
  PROVE  SessionInv'
<1>1. CASE Stop(Callee, <<>>)
  BY <1>1, StopInv, TwoUsers DEF Stop
<1>2. CASE ~Stop(Callee, <<>>)
  <2>1. PICK place \in {"prompt", stage[Callee]} : stage' = [stage EXCEPT ![Callee] = place]
    BY <1>2 DEF ListenSignal
  <2>2. /\ inbox' = Took(inbox, Callee) /\ inbox[Callee] # <<>>
        /\ stage[Callee] \in {"idle", "prompt"}
        /\ UNCHANGED <<mvars, described, outbox, signals, events, accepted>>
    BY <1>2 DEF ListenSignal, pion, history, mvars
  <2>3. /\ stage' \in [Users -> {"idle", "waiting", "prompt", "session", "done"}]
        /\ stage'[Caller] = stage[Caller]
        /\ \A q \in Users : stage'[q] = "session" => stage[q] = "session"
    BY <2>1, <2>2, TwoUsers DEF SessionInv, Shapes
  <2> QED  BY <2>2, <2>3, TakenInv, TwoUsers
<1> QED  BY <1>1, <1>2

\* The user says yes: from here on consent holds for good.
LEMMA AcceptInvitationInv ==
  ASSUME SessionInv, AcceptInvitation, up[Callee]
  PROVE  SessionInv'
<1>0. /\ stage' = [stage EXCEPT ![Callee] = "session"] /\ accepted'
      /\ outbox' = [outbox EXCEPT ![Callee] = outbox[Callee] \o <<"ACCEPT">>]
      /\ UNCHANGED <<mvars, described, inbox, signals, events>>
  BY DEF AcceptInvitation, Sent, pion, mvars
<1>1. /\ outbox[Callee] \o <<"ACCEPT">> \in Seq(Signals)
      /\ ~Has(outbox[Callee], "INVITE") => ~Has(outbox[Callee] \o <<"ACCEPT">>, "INVITE")
  <2>1. outbox[Callee] \in Seq(Signals) /\ <<"ACCEPT">> \in Seq(Signals)
    BY TwoUsers DEF SessionInv, Shapes, Signals
  <2>2. ~Has(<<"ACCEPT">>, "INVITE")
    BY SingleQueue
  <2>3. /\ outbox[Callee] \o <<"ACCEPT">> \in Seq(Signals)
        /\ Has(outbox[Callee] \o <<"ACCEPT">>, "INVITE")
             <=> Has(outbox[Callee], "INVITE") \/ Has(<<"ACCEPT">>, "INVITE")
    BY <2>1, ConcatQueue
  <2> QED  BY <2>2, <2>3
<1>2. /\ stage'[Caller] = stage[Caller] /\ outbox'[Caller] = outbox[Caller]
      /\ outbox'[Callee] = outbox[Callee] \o <<"ACCEPT">>
  BY <1>0, TwoUsers DEF SessionInv, Shapes
<1>3. Shapes'
  BY <1>0, <1>1, <1>2, TwoUsers DEF SessionInv, Shapes
<1>4. Consent' /\ OneWay'
  BY <1>0 DEF SessionInv, Consent, OneWay
<1>5. Turn'
  BY <1>0, <1>2 DEF SessionInv, Turn, OneTurn, NoneTwice, NotBefore, OfferHeld, OfferSent,
         AnswerDue, AnswerSent, Settled, Failure, In, mvars
<1>6. Asking'
  BY <1>0, <1>1, <1>2 DEF SessionInv, Asking, Answered, OfferSent, In, mvars
<1> QED  BY <1>0, <1>3, <1>4, <1>5, <1>6, TableSame DEF SessionInv

----------------------------------------------------------------------------
\* The clients in session.

\* The websocket is lost, before or after the control channel opened.
LEMMA SignalingLostInv ==
  ASSUME SessionInv, NEW p \in Users, SignalingLost(p)
  PROVE  SessionInv'
<1>1. CASE ~controlOpen[p]
  BY <1>1, StopInv, EndSignals DEF SignalingLost, SignalingStop
<1>2. CASE controlOpen[p]
  <2>1. /\ inbox' = [inbox EXCEPT ![p] = <<>>] /\ signals' = [signals EXCEPT ![p] = <<>>]
        /\ UNCHANGED <<mvars, stage, described, outbox, events, accepted>>
    BY <1>2 DEF SignalingLost, pion, history, mvars
  <2>2. /\ inbox \in [Users -> Seq(Signals \union {"TIMEOUT", "ERROR"})]
        /\ signals \in [Users -> Seq(PeerSignals)]
    BY DEF SessionInv, Shapes
  <2>3. /\ inbox' \in [Users -> Seq(Signals \union {"TIMEOUT", "ERROR"})] /\ LighterInbox
        /\ signals' \in [Users -> Seq(PeerSignals)] /\ LighterSignals
    BY <2>1, <2>2, Emptied, TwoUsers DEF LighterInbox, LighterSignals
  <2>4. Shapes' /\ NoFurther
    BY <2>1, <2>3 DEF SessionInv, Shapes, NoFurther
  <2> QED  BY <2>1, <2>3, <2>4, SameQueues, ClientInv
<1> QED  BY <1>1, <1>2

\* The turn goes from the session's queue to the way to the server.
LEMMA ForwardSignalInv ==
  ASSUME SessionInv, NEW p \in Users, ForwardSignal(p)
  PROVE  SessionInv'
<1>1. CASE ~up[p]
  BY <1>1, StopInv, EndSignals DEF ForwardSignal, SignalingStop
<1>2. CASE up[p]
  <2> DEFINE type == Head(signals[p])
             more == outbox[p] \o <<type>>
  <2>0. /\ stage[p] = "session" /\ signals[p] # <<>>
        /\ outbox' = [outbox EXCEPT ![p] = more] /\ signals' = Took(signals, p)
        /\ UNCHANGED <<mvars, stage, described, inbox, events, accepted>>
    BY <1>2 DEF ForwardSignal, Sent, client, pion, history, mvars
  <2>1. /\ type \in PeerSignals /\ signals' \in [Users -> Seq(PeerSignals)]
        /\ Has(signals[p], type) /\ (Once(signals[p], type) => ~Has(signals'[p], type))
        /\ \A q \in Users : \A x : Lighter(signals[q], signals'[q], x)
    <3>1. signals \in [Users -> Seq(PeerSignals)]
      BY DEF SessionInv, Shapes
    <3> QED  BY <2>0, <3>1, TookQueue
  <2>2. /\ more \in Seq(Signals)
        /\ \A x : /\ Has(more, x) => Has(outbox[p], x) \/ x = type
                  /\ x # type => Lighter(outbox[p], more, x)
                  /\ Once(outbox[p], x) /\ ~Has(outbox[p], x) => Once(more, x)
    <3>1. outbox[p] \in Seq(Signals) /\ <<type>> \in Seq(Signals)
      BY <2>1 DEF SessionInv, Shapes, Signals
    <3> QED  BY <3>1, ConcatQueue, SingleQueue
  <2> HIDE DEF type, more
  <2>3. /\ outbox'[p] = more /\ \A q \in Users : q # p => outbox'[q] = outbox[q]
        /\ outbox' \in [Users -> Seq(Signals)]
    BY <2>0, <2>2 DEF SessionInv, Shapes
  <2>4. Shapes' /\ NoFurther
    BY <2>0, <2>1, <2>3 DEF SessionInv, Shapes, NoFurther
  <2>5. type \notin {"INVITE", "ACCEPT"}
    BY <2>1 DEF PeerSignals
  <2>6. \A q \in Users : \A x \in {"INVITE", "ACCEPT"} : Lighter(outbox[q], outbox'[q], x)
    BY <2>2, <2>3, <2>5, LighterSame
  <2>7. Consent' /\ OneWay'
    BY <2>0, <2>6 DEF SessionInv, Consent, OneWay, Lighter
  <2>8. CASE p = Caller /\ type = "OFFER"
    <3>1. /\ OfferHeld /\ ~OfferHeld' /\ AnswerDue' = AnswerDue /\ AnswerSent' = AnswerSent
          /\ Settled' = Settled /\ Failure' = Failure /\ ~OfferSent
      BY <2>0, <2>1, <2>8 DEF SessionInv, Turn, OneTurn, NoneTwice, OfferHeld, AnswerDue,
             AnswerSent, Settled, Failure, In, mvars
    <3>2. NoneTwice'
      BY <2>0, <2>1, <2>2, <2>3, <2>8, <3>1, TwoUsers
      DEF SessionInv, Turn, NoneTwice, OfferSent, Lighter
    <3>3. OneTurn' /\ NotBefore'
      BY <2>0, <2>8, <3>1 DEF SessionInv, Turn, OneTurn, NotBefore
    <3>4. Asking'
      <4>1. Answered
        BY <2>0, <2>8 DEF Answered
      <4>2. ~Has(outbox[Caller], "INVITE") /\ ~In("RINGING")
        BY <4>1 DEF SessionInv, Asking
      <4> QED  BY <2>0, <2>6, <2>8, <4>2, TwoUsers DEF SessionInv, Asking, Lighter, In, mvars
    <3> QED  BY <2>0, <2>4, <2>7, <3>2, <3>3, <3>4, TableSame DEF SessionInv, Turn
  <2>9. CASE ~(p = Caller /\ type = "OFFER")
    <3>1. Lighter(outbox[Caller], outbox'[Caller], "OFFER")
      BY <2>2, <2>3, <2>9, LighterSame, TwoUsers
    <3>2. LighterSignals
      BY <2>1, TwoUsers DEF LighterSignals
    <3>3. /\ OfferHeld' => OfferHeld
          /\ OfferSent' => OfferSent
          /\ AnswerDue' = AnswerDue /\ AnswerSent' = AnswerSent
          /\ Settled' = Settled /\ Failure' = Failure
      BY <2>0, <3>1, <3>2 DEF LighterSignals, Lighter, OfferHeld, OfferSent, AnswerDue,
             AnswerSent, Settled, Failure, In, mvars
    <3>4. OneTurn' /\ NotBefore'
      BY <2>0, <3>3 DEF SessionInv, Turn, OneTurn, NotBefore
    <3>5. NoneTwice'
      BY <2>0, <3>1, <3>2 DEF SessionInv, Turn, NoneTwice, LighterSignals, Lighter
    <3>6. Answered' => Answered
      BY <2>0, <3>3 DEF Answered
    <3>7. Asking'
      BY <2>0, <2>6, <3>6, TwoUsers DEF SessionInv, Asking, Lighter, In, mvars
    <3> QED  BY <2>0, <2>4, <2>7, <3>4, <3>5, <3>7, TableSame DEF SessionInv, Turn
  <2> QED  BY <2>8, <2>9
<1> QED  BY <1>1, <1>2

\* An answer gives the caller's peer connection its turn; other signals bring
\* the caller nothing.
LEMMA SessionSignalInv ==
  ASSUME SessionInv, NEW p \in Users, SessionSignal(p)
  PROVE  SessionInv'
<1> DEFINE type == Head(inbox[p])
<1>0. stage[p] = "session" /\ inbox[p] # <<>>
  BY DEF SessionSignal
<1>1. CASE ClosesCall(type)
  <2>1. Leave(p, <<>>) /\ events' = [events EXCEPT ![p] = <<>>]
    BY <1>1 DEF SessionSignal, SignalingStop, ClosesCall
  <2> QED  BY <2>1, StopInv
<1>2. CASE ~ClosesCall(type) /\ type = "ERROR"
  BY <1>2, StopInv, EndSignals DEF SessionSignal, SignalingStop
<1>3. CASE ~ClosesCall(type) /\ type # "ERROR"
  <2>0. /\ inbox' = Took(inbox, p)
        /\ described' = [described EXCEPT ![p] = @ \/ type \in {"OFFER", "ANSWER"}]
        /\ signals' = [signals EXCEPT ![p] = IF type = "OFFER" THEN Append(@, "ANSWER") ELSE @]
        /\ UNCHANGED <<mvars, stage, outbox, events, accepted>>
    BY <1>3 DEF SessionSignal, client, history, mvars
  <2>1. /\ inbox' \in [Users -> Seq(Signals \union {"TIMEOUT", "ERROR"})]
        /\ Has(inbox[p], type) /\ (Once(inbox[p], type) => ~Has(inbox'[p], type))
        /\ \A q \in Users : \A x : Lighter(inbox[q], inbox'[q], x)
    <3>1. inbox \in [Users -> Seq(Signals \union {"TIMEOUT", "ERROR"})]
      BY DEF SessionInv, Shapes
    <3> QED  BY <1>0, <2>0, <3>1, TookQueue
  <2>2. signals' \in [Users -> Seq(PeerSignals)] /\ LighterSignals
    <3>0. signals \in [Users -> Seq(PeerSignals)] /\ "ANSWER" \in PeerSignals /\ "ANSWER" # "OFFER"
      BY DEF SessionInv, Shapes, PeerSignals
    <3>1. CASE type = "OFFER"
      <4>1. signals' = Added(signals, p, "ANSWER")
        BY <2>0, <3>1 DEF Added
      <4>2. /\ signals' \in [Users -> Seq(PeerSignals)]
            /\ \A q \in Users : \A x : x # "ANSWER" \/ q # p => Lighter(signals[q], signals'[q], x)
        BY <3>0, <4>1, AddedQueue
      <4> QED  BY <3>0, <4>2, TwoUsers DEF LighterSignals
    <3>2. CASE type # "OFFER"
      BY <2>0, <3>0, <3>2, SameQueues
    <3> QED  BY <3>1, <3>2
  <2>3. LighterInbox
    BY <2>1 DEF LighterInbox
  <2> HIDE DEF type
  <2>4. /\ described' \in [Users -> BOOLEAN]
        /\ p # Caller => described'[Caller] = described[Caller]
        /\ type \notin {"OFFER", "ANSWER"} => described'[Caller] = described[Caller]
    <3>1. described \in [Users -> BOOLEAN] /\ described[p] \in BOOLEAN
      BY DEF SessionInv, Shapes
    <3>2. CASE type \in {"OFFER", "ANSWER"}
      <4>1. described' = [described EXCEPT ![p] = TRUE]
        BY <2>0, <3>2
      <4> QED  BY <3>1, <3>2, <4>1, TwoUsers
    <3>3. CASE type \notin {"OFFER", "ANSWER"}
      <4>1. described' = described
        BY <2>0, <3>1, <3>3
      <4> QED  BY <3>1, <4>1
    <3> QED  BY <3>2, <3>3
  <2>5. Shapes'
    BY <2>0, <2>1, <2>2, <2>4 DEF SessionInv, Shapes
  <2>6. p = Caller => type # "OFFER"
    BY <2>1 DEF SessionInv, OneWay
  <2>7. CASE p = Caller /\ type = "ANSWER"
    <3>1. /\ AnswerSent /\ ~AnswerSent' /\ (OfferHeld' => OfferHeld) /\ OfferSent' = OfferSent
          /\ AnswerDue' = AnswerDue /\ Failure' = Failure
      BY <2>0, <2>1, <2>2, <2>7 DEF SessionInv, Turn, NoneTwice, LighterSignals, Lighter,
             OfferHeld, OfferSent, AnswerDue, AnswerSent, Failure, In, mvars
    <3>2. NoneTwice'
      BY <2>0, <2>1, <2>2, TwoUsers DEF SessionInv, Turn, NoneTwice, LighterSignals, Lighter
    <3>3. OneTurn' /\ NotBefore'
      BY <1>0, <2>0, <2>7, <3>1 DEF SessionInv, Turn, OneTurn, NotBefore
    <3>4. Consent' /\ OneWay'
      BY <2>0, <2>3, TwoUsers DEF SessionInv, Consent, OneWay, LighterInbox, Lighter
    <3>5. Answered' => Answered
      BY <2>0, <2>3, <3>1, TwoUsers DEF Answered, LighterInbox, Lighter
    <3>6. Asking'
      BY <2>0, <3>5 DEF SessionInv, Asking, In, mvars
    <3> QED  BY <2>0, <2>5, <3>2, <3>3, <3>4, <3>6, TableSame DEF SessionInv, Turn
  <2>8. CASE ~(p = Caller /\ type = "ANSWER")
    <3>1. NoFurther
      BY <2>0, <2>4, <2>6, <2>8 DEF NoFurther
    <3> QED  BY <2>0, <2>2, <2>3, <2>5, <3>1, SameQueues, ClientInv
  <2> QED  BY <2>7, <2>8
<1> QED  BY <1>1, <1>2, <1>3

\* A failed connection gives the caller's turn back to its session: the offer
\* of an ICE restart.
LEMMA PeerEventInv ==
  ASSUME SessionInv, NEW p \in Users, PeerEvent(p)
  PROVE  SessionInv'
<1> DEFINE event == Head(events[p])
           again == Restarts(p, event)
<1>0. /\ stage[p] = "session" /\ events[p] # <<>> /\ events' = Took(events, p)
      /\ signals' = [signals EXCEPT ![p] = IF again THEN Append(@, "OFFER") ELSE @]
      /\ UNCHANGED <<mvars, stage, described, outbox, inbox, accepted>>
  BY DEF PeerEvent, link, history, mvars
<1>1. /\ events' \in [Users -> Seq(Events)] /\ Has(events[p], event)
      /\ Once(events[p], event) => ~Has(events'[p], event)
      /\ \A q \in Users : \A x : Lighter(events[q], events'[q], x)
  <2>1. events \in [Users -> Seq(Events)]
    BY DEF SessionInv, Shapes
  <2> QED  BY <1>0, <2>1, TookQueue
<1>2. LighterEvents
  BY <1>1, TwoUsers DEF LighterEvents
<1>3. again => p = Caller /\ event = "failed"
  BY DEF Restarts
<1>4. signals \in [Users -> Seq(PeerSignals)] /\ "OFFER" \in PeerSignals
  BY DEF SessionInv, Shapes, PeerSignals
<1> HIDE DEF again, event
<1>5. CASE ~again
  <2>1. signals' = signals
    BY <1>0, <1>4, <1>5
  <2>2. Shapes' /\ NoFurther
    BY <1>0, <1>1, <2>1 DEF SessionInv, Shapes, NoFurther
  <2> QED  BY <1>0, <1>2, <2>1, <2>2, SameQueues, ClientInv
<1>6. CASE again
  <2>1. signals' = Added(signals, Caller, "OFFER")
    BY <1>0, <1>3, <1>6 DEF Added
  <2>2. /\ signals' \in [Users -> Seq(PeerSignals)]
        /\ Once(signals[Caller], "OFFER") /\ ~Has(signals[Caller], "OFFER")
             => Once(signals'[Caller], "OFFER")
    BY <1>4, <2>1, AddedQueue, TwoUsers
  <2>3. Shapes'
    BY <1>0, <1>1, <2>2 DEF SessionInv, Shapes
  <2>4. /\ Failure /\ ~Failure' /\ OfferSent' = OfferSent /\ AnswerDue' = AnswerDue
        /\ AnswerSent' = AnswerSent /\ Settled' = Settled /\ ~OfferHeld
    BY <1>0, <1>1, <1>3, <1>6 DEF SessionInv, Turn, OneTurn, NoneTwice, Failure, OfferSent,
           AnswerDue, AnswerSent, Settled, In, mvars
  <2>5. NoneTwice'
    BY <1>0, <1>2, <2>2, <2>4 DEF SessionInv, Turn, NoneTwice, LighterEvents, Lighter, OfferHeld
  <2>6. OneTurn' /\ NotBefore'
    BY <1>0, <1>3, <1>6, <2>4 DEF SessionInv, Turn, OneTurn, NotBefore
  <2>7. Consent' /\ Asking' /\ OneWay'
    BY <1>0, <2>4 DEF SessionInv, Consent, Asking, Answered, OneWay, In, mvars
  <2> QED  BY <1>0, <2>3, <2>5, <2>6, <2>7, TableSame DEF SessionInv, Turn
<1> QED  BY <1>5, <1>6

\* The user hangs up, with or without the hang-up arriving.
LEMMA QuitInv ==
  ASSUME SessionInv, NEW p \in Users, NEW delivered \in BOOLEAN, Quit(p, delivered)
  PROVE  SessionInv'
<1>0. events \in [Users -> Seq(Events)] /\ "HANGUP" \in Events /\ "HANGUP" # "failed"
      /\ Other(p) \in Users
  BY TwoUsers DEF SessionInv, Shapes, Events, Other
<1> DEFINE closed == [events EXCEPT ![p] = <<>>]
<1>1. /\ closed \in [Users -> Seq(Events)]
      /\ \A q \in Users : \A x : Lighter(events[q], closed[q], x)
  BY <1>0, Emptied
<1>2. events' = closed \/ events' = Added(closed, Other(p), "HANGUP")
  <2>1. Other(p) # p
    BY TwoUsers DEF Other
  <2>2. CASE delivered
    BY <1>0, <2>1, <2>2 DEF Quit, Hangup, Added
  <2>3. CASE ~delivered
    BY <2>3 DEF Quit, Hangup
  <2> QED  BY <2>2, <2>3
<1> HIDE DEF closed
<1>3. events' \in [Users -> Seq(Events)] /\ LighterEvents
  <2>1. CASE events' = closed
    BY <1>1, <2>1, TwoUsers DEF LighterEvents
  <2>2. CASE events' = Added(closed, Other(p), "HANGUP")
    <3>1. /\ events' \in [Users -> Seq(Events)]
          /\ \A q \in Users : \A x :
                x # "HANGUP" \/ q # Other(p) => Lighter(closed[q], events'[q], x)
      BY <1>0, <1>1, <2>2, AddedQueue
    <3>2. /\ Lighter(closed[Caller], events'[Caller], "failed")
          /\ Lighter(events[Caller], closed[Caller], "failed")
      BY <1>0, <1>1, <3>1, TwoUsers
    <3> QED  BY <3>1, <3>2 DEF LighterEvents, Lighter
  <2> QED  BY <1>2, <2>1, <2>2
<1> QED  BY <1>3, LeaveInv, EndSignals DEF Quit

\* Every way in which runSession handles what reaches it.
LEMMA HandlesInv ==
  ASSUME SessionInv, NEW p \in Users, Handles(p)
  PROVE  SessionInv'
<1>1. CASE SetupLost(p)
  <2>1. Leave(p, <<>>) /\ events' = [events EXCEPT ![p] = <<>>]
    BY <1>1 DEF SetupLost, Stop
  <2> QED  BY <2>1, StopInv
<1>2. CASE PeerHangup(p) \/ ReconnectDeadline(p) \/ PeerErrorDeadline(p)
  <2>1. Leave(p, EndSignal(p)) /\ events' = [events EXCEPT ![p] = <<>>]
    BY <1>2 DEF PeerHangup, ReconnectDeadline, PeerErrorDeadline, Fail, Stop
  <2> QED  BY <2>1, StopInv, EndSignals
<1> QED  BY <1>1, <1>2, WaitSignalInv, ListenSignalInv, SignalingLostInv, ForwardSignalInv,
            SessionSignalInv, PeerEventInv DEF Handles

\* What the users do, leaving and crashing included.
LEMMA UserInv ==
  ASSUME SessionInv, UserActs
  PROVE  SessionInv'
<1>1. CASE CancelInvitation
  <2>1. Leave(Caller, <<"CANCEL">>) /\ events' = [events EXCEPT ![Caller] = <<>>]
    BY <1>1 DEF CancelInvitation, Stop
  <2> QED  BY <2>1, StopInv, TwoUsers
<1>2. CASE DeclineInvitation
  <2>1. Leave(Callee, <<"DECLINE">>) /\ events' = [events EXCEPT ![Callee] = <<>>]
    BY <1>2 DEF DeclineInvitation, Stop
  <2> QED  BY <2>1, StopInv, TwoUsers
<1>3. ASSUME NEW p \in Users, Crash(p)
      PROVE  SessionInv'
  <2>1. Leave(p, <<>>) /\ events' = [events EXCEPT ![p] = <<>>]
    BY <1>3 DEF Crash, Stop
  <2> QED  BY <2>1, StopInv
<1>4. CASE (StartChat /\ ~up[Caller]) \/ (AcceptInvitation /\ ~up[Callee])
  <2>1. PICK p \in Users : Leave(p, <<>>) /\ events' = [events EXCEPT ![p] = <<>>]
    BY <1>4, TwoUsers DEF StartChat, AcceptInvitation, Stop
  <2> QED  BY <2>1, StopInv
<1> QED  BY <1>1, <1>2, <1>3, <1>4, StartChatInv, AcceptInvitationInv, QuitInv DEF UserActs

----------------------------------------------------------------------------
\* The call table.

\* A current time and the call itself are inputs of the call table.
LEMMA NoLag == 0 \in Lags /\ Id \in CallIds
  BY TimeAssumption, SessionAssumption DEF Lags

\* A method of the manager keeps the manager's invariant.
LEMMA TableInv ==
  ASSUME ManagerInv, NEW p \in Users, NEW q \in Users,
         \/ Invite(Id, p, q, 0) \/ Accept(Id, p, q, 0) \/ Decline(Id, p, q, 0)
         \/ Cancel(Id, p, q, 0) \/ Offer(Id, p, q, 0) \/ Answer(Id, p, q)
         \/ ICEComplete(Id, p, q) \/ End(Id, p, q, 0)
         \/ Disconnect(p, 0) \/ Expire(0) \/ Tick
  PROVE  ManagerInv'
<1>1. ManagerNext
  BY NoLag DEF ManagerNext, Transition, Sweep
<1> QED  BY <1>1, NextInv

\* What each method does to the state of the call.
LEMMA FinishedState ==
  ASSUME ManagerInv, Id \in DOMAIN calls, NEW s \in TerminalStates, finish(Id, s, 0)
  PROVE  CallNoFurther
<1>1. calls[Id] \in Call
  BY DEF ManagerInv, ManagerTypeOK
<1>2. DOMAIN calls' = DOMAIN calls /\ calls'[Id] = finished(calls[Id], s, 0)
  BY DEF finish
<1>3. calls'[Id].state \in TerminalStates
  BY <1>1, <1>2, NoLag, FinishedCall
<1> QED  BY <1>2, <1>3 DEF CallNoFurther, In, TerminalStates

\* Declining, cancelling, ending and candidates bring the call no further.
LEMMA EndedState ==
  ASSUME ManagerInv, NEW p \in Users, NEW q \in Users,
         Decline(Id, p, q, 0) \/ Cancel(Id, p, q, 0) \/ End(Id, p, q, 0) \/ ICEComplete(Id, p, q)
  PROVE  CallNoFurther
<1>1. CASE ICEComplete(Id, p, q)
  BY <1>1, TableSame DEF ICEComplete
<1>2. CASE Decline(Id, p, q, 0) \/ Cancel(Id, p, q, 0) \/ End(Id, p, q, 0)
  <2>1. PICK s \in TerminalStates : finish(Id, s, 0)
    BY <1>2 DEF Decline, Cancel, End, TerminalStates
  <2>2. Id \in DOMAIN calls
    BY <1>2 DEF Decline, Cancel, End, Between
  <2> QED  BY <2>1, <2>2, FinishedState
<1> QED  BY <1>1, <1>2

\* An acceptance leads to ACCEPTED, which awaits the offer.
LEMMA AcceptedState ==
  ASSUME ManagerInv, NEW p \in Users, NEW q \in Users, Accept(Id, p, q, 0)
  PROVE  Id \in DOMAIN calls /\ DOMAIN calls' = DOMAIN calls /\ In("ACCEPTED")'
<1>1. Id \in DOMAIN calls /\ calls[Id] \in Call
  BY DEF Accept, Between, ManagerInv, ManagerTypeOK
<1>2. DOMAIN calls' = DOMAIN calls
      /\ calls'[Id] = setState(calls[Id], "ACCEPTED", NegotiationTimeout - 0)
  BY <1>1 DEF Accept
<1>3. calls'[Id].state = "ACCEPTED"
  BY <1>1, <1>2 DEF setState, Call
<1> QED  BY <1>1, <1>2, <1>3 DEF In

\* An answer is taken only while one is due, and leads to CONNECTED.
LEMMA AnsweredState ==
  ASSUME ManagerInv, NEW p \in Users, NEW q \in Users, Answer(Id, p, q)
  PROVE  /\ AnswerDue /\ DOMAIN calls' = DOMAIN calls /\ In("CONNECTED")'
<1>1. Id \in DOMAIN calls /\ calls[Id] \in Call
  BY DEF Answer, Between, ManagerInv, ManagerTypeOK
<1>2. DOMAIN calls' = DOMAIN calls
      /\ calls'[Id] = setState(calls[Id], "CONNECTED", NoTime)
  BY <1>1 DEF Answer
<1>3. calls'[Id].state = "CONNECTED"
  BY <1>1, <1>2 DEF setState, Call
<1> QED  BY <1>1, <1>2, <1>3 DEF In, AnswerDue, Answer

\* An offer leads to NEGOTIATING: an answer is due.
LEMMA OfferedState ==
  ASSUME ManagerInv, NEW p \in Users, NEW q \in Users, Offer(Id, p, q, 0)
  PROVE  /\ DOMAIN calls' = DOMAIN calls /\ In("NEGOTIATING")'
<1>1. Id \in DOMAIN calls /\ calls[Id] \in Call
  BY DEF Offer, Between, ManagerInv, ManagerTypeOK
<1> DEFINE budget == IF calls[Id].state = "CONNECTED"
                     THEN [calls[Id] EXCEPT !.callerCandidates = 0, !.calleeCandidates = 0]
                     ELSE calls[Id]
<1>2. DOMAIN calls' = DOMAIN calls
      /\ calls'[Id] = setState(budget, "NEGOTIATING", NegotiationTimeout - 0)
  BY <1>1 DEF Offer
<1>3. "state" \in DOMAIN budget
  BY <1>1 DEF Call
<1> HIDE DEF budget
<1>4. calls'[Id].state = "NEGOTIATING"
  BY <1>2, <1>3 DEF setState
<1> QED  BY <1>1, <1>2, <1>4 DEF In

\* An invitation leads to RINGING.
LEMMA InvitedState ==
  ASSUME ManagerInv, NEW p \in Users, NEW q \in Users, Invite(Id, p, q, 0)
  PROVE  Id \in DOMAIN calls' /\ In("RINGING")'
  BY DEF Invite, Put, In

\* Sweeps, time and disconnections bring the call no further.
LEMMA SweptState ==
  ASSUME ManagerInv, Expire(0) \/ Tick \/ \E p \in Users : Disconnect(p, 0)
  PROVE  CallNoFurther
<1>0. \A c \in DOMAIN calls : calls[c] \in Call
  BY DEF ManagerInv, ManagerTypeOK
<1>1. CASE Tick
  <2>1. DOMAIN calls' = DOMAIN calls
        /\ \A c \in DOMAIN calls : calls'[c] = [calls[c] EXCEPT !.deadline = Older(@), !.cleanupAt = Older(@)]
    BY <1>1 DEF Tick
  <2>2. \A c \in DOMAIN calls : calls'[c].state = calls[c].state
    BY <1>0, <2>1 DEF Call
  <2> QED  BY <2>1, <2>2 DEF CallNoFurther, In
<1>2. CASE Expire(0)
  <2>1. /\ DOMAIN calls' \subseteq DOMAIN calls
        /\ \A c \in DOMAIN calls' : calls'[c] = calls[c] \/ calls'[c] = finished(calls[c], "TIMED_OUT", 0)
    BY <1>2 DEF Expire
  <2>2. "TIMED_OUT" \in TerminalStates
    BY DEF TerminalStates
  <2>3. \A c \in DOMAIN calls' : calls'[c] = calls[c] \/ calls'[c].state \in TerminalStates
    BY <1>0, <2>1, <2>2, NoLag, FinishedCall
  <2> QED  BY <2>1, <2>3 DEF CallNoFurther, In, TerminalStates
<1>3. ASSUME NEW p \in Users, Disconnect(p, 0)
      PROVE  CallNoFurther
  <2>1. CASE Dropped(p) = {}
    BY <1>3, <2>1 DEF Disconnect, CallNoFurther, In
  <2>2. CASE Dropped(p) # {}
    <3>1. PICK c \in DOMAIN calls : finish(c, "ENDED", 0)
      BY <1>3, <2>2 DEF Disconnect, Dropped
    <3>2. c = Id /\ "ENDED" \in TerminalStates
      BY SessionAssumption DEF ManagerInv, ManagerTypeOK, TerminalStates
    <3> QED  BY <3>1, <3>2, FinishedState
  <2> QED  BY <2>1, <2>2
<1> QED  BY <1>1, <1>2, <1>3

----------------------------------------------------------------------------
\* The server.

\* What the inboxes hold after a delivery.
LEMMA Delivered ==
  ASSUME Shapes, NEW users, NEW type \in Signals \union {"TIMEOUT", "ERROR"},
         Deliver(users, type)
  PROVE  /\ inbox' \in [Users -> Seq(Signals \union {"TIMEOUT", "ERROR"})]
         /\ \A r \in Users : \A x : x # type \/ r \notin users => Lighter(inbox[r], inbox'[r], x)
         /\ \A r \in Users :
               Once(inbox[r], type) /\ ~Has(inbox[r], type) => Once(inbox'[r], type)
<1> DEFINE All == Signals \union {"TIMEOUT", "ERROR"}
<1>1. inbox \in [Users -> Seq(All)] /\ type \in All
  BY DEF Shapes
<1> HIDE DEF All
<1>2. ASSUME NEW r \in Users
      PROVE  /\ Append(inbox[r], type) \in Seq(All)
             /\ \A x : x # type => Lighter(inbox[r], Append(inbox[r], type), x)
             /\ Once(inbox[r], type) /\ ~Has(inbox[r], type) => Once(Append(inbox[r], type), type)
  <2>1. inbox[r] \in Seq(All)
    BY <1>1
  <2> QED  BY <1>1, <2>1, AppendQueue
<1>3. /\ inbox' = [r \in Users |-> inbox'[r]]
      /\ \A r \in Users : r \notin users => inbox'[r] = inbox[r]
      /\ \A r \in Users : inbox'[r] = inbox[r] \/ inbox'[r] = Append(inbox[r], type)
  BY DEF Deliver
<1>4. inbox' \in [Users -> Seq(All)]
  <2>1. \A r \in Users : inbox'[r] \in Seq(All)
    BY <1>1, <1>2, <1>3
  <2> QED  BY <1>3, <2>1
<1>5. inbox' \in [Users -> Seq(Signals \union {"TIMEOUT", "ERROR"})]
  BY <1>4 DEF All
<1> QED  BY <1>2, <1>3, <1>5, LighterSame

\* The invitation is served: the call rings, and there is no other invitation.
LEMMA RingsInv ==
  ASSUME SessionInv, NEW p \in Users, Has(outbox[p], "INVITE"),
         ~Has(outbox'[p], "INVITE"), LighterOutbox,
         Invite(Id, p, Other(p), 0), Deliver({Other(p)}, "INVITE"),
         outbox' \in [Users -> Seq(Signals)],
         UNCHANGED <<stage, described, signals, events, accepted>>
  PROVE  SessionInv'
<1>1. p = Caller /\ Other(p) = Callee
  BY SessionAssumption DEF SessionInv, Asking, Other
<1>2. "INVITE" \in Signals /\ Shapes
  BY DEF Signals, SessionInv
<1>3. /\ inbox' \in [Users -> Seq(Signals \union {"TIMEOUT", "ERROR"})]
      /\ \A r \in Users : \A x : x # "INVITE" \/ r # Callee => Lighter(inbox[r], inbox'[r], x)
  <2>1. "INVITE" \in Signals \union {"TIMEOUT", "ERROR"} /\ Deliver({Callee}, "INVITE")
    BY <1>1, <1>2
  <2>2. /\ inbox' \in [Users -> Seq(Signals \union {"TIMEOUT", "ERROR"})]
        /\ \A r \in Users : \A x :
              x # "INVITE" \/ r \notin {Callee} => Lighter(inbox[r], inbox'[r], x)
    BY <1>2, <2>1, Delivered
  <2> QED  BY <2>2
<1>4. LighterInbox
  BY <1>3 DEF LighterInbox
<1>5. ManagerInv' /\ Id \in DOMAIN calls' /\ In("RINGING")'
  BY <1>1, TwoUsers, TableInv, InvitedState DEF SessionInv
<1>6. Shapes'
  BY <1>3 DEF SessionInv, Shapes
<1>7. Id \notin DOMAIN calls /\ ~Answered
  BY <1>1 DEF SessionInv, Asking
<1>8. /\ OfferHeld' = OfferHeld /\ (OfferSent' => OfferSent) /\ ~AnswerDue'
      /\ (AnswerSent' => AnswerSent) /\ Settled' = Settled /\ Failure' = Failure
  BY <1>4, <1>5, TwoUsers DEF LighterInbox, LighterOutbox, Lighter, OfferHeld, OfferSent, AnswerDue,
         AnswerSent, Settled, Failure, In
<1>9. Consent' /\ OneWay'
  BY <1>4, TwoUsers DEF SessionInv, Consent, OneWay, LighterInbox, LighterOutbox, Lighter
<1>10. OneTurn' /\ NotBefore'
  BY <1>8 DEF SessionInv, Turn, OneTurn, NotBefore
<1>11. NoneTwice'
  BY <1>4, TwoUsers DEF SessionInv, Turn, NoneTwice, LighterInbox, LighterOutbox, Lighter
<1>12. Asking'
  <2>1. ~Answered'
    BY <1>4, <1>7, <1>8, TwoUsers DEF Answered, LighterInbox, Lighter
  <2>2. stage'[Caller] # "idle"
    BY <1>1 DEF SessionInv, Asking
  <2>3. ~Has(outbox'[Callee], "INVITE") /\ Once(outbox'[Caller], "INVITE")
    BY TwoUsers DEF SessionInv, Asking, LighterOutbox, Lighter
  <2> QED  BY <1>1, <2>1, <2>2, <2>3 DEF Asking
<1> QED  BY <1>5, <1>6, <1>9, <1>10, <1>11, <1>12 DEF SessionInv, Turn

\* A signal is served: at most the other user, or with an error this one,
\* gets one more, and the call is no longer where the signal found it.
LEMMA ServedInv ==
  ASSUME SessionInv, NEW p \in Users, NEW type \in Signals, Has(outbox[p], type),
         Once(outbox[p], type) => ~Has(outbox'[p], type), LighterOutbox,
         outbox' \in [Users -> Seq(Signals)],
         Fits(type, p), Transitions(type, p),
         Deliver({Other(p)}, type) \/ Deliver({p}, "ERROR"),
         UNCHANGED <<stage, described, signals, events, accepted>>
  PROVE  SessionInv'
<1>0. Shapes /\ Other(p) \in Users /\ ManagerInv
      /\ (p = Caller => Other(p) = Callee) /\ (p # Caller => Other(p) = Caller)
  BY TwoUsers DEF SessionInv, Other
<1>1. /\ inbox' \in [Users -> Seq(Signals \union {"TIMEOUT", "ERROR"})]
      /\ \A r \in Users : \A x : x \notin {type, "ERROR"} \/ (r # Other(p) /\ x = type)
                                   => x = "ERROR" \/ Lighter(inbox[r], inbox'[r], x)
      /\ Once(inbox[Other(p)], type) /\ ~Has(inbox[Other(p)], type)
           => Once(inbox'[Other(p)], type)
  <2>0. type \in Signals \union {"TIMEOUT", "ERROR"} /\ "ERROR" \in Signals \union {"TIMEOUT", "ERROR"}
        /\ type # "ERROR"
    BY DEF Signals, PeerSignals
  <2>1. CASE Deliver({Other(p)}, type)
    <3>1. /\ inbox' \in [Users -> Seq(Signals \union {"TIMEOUT", "ERROR"})]
          /\ \A r \in Users : \A x :
                x # type \/ r \notin {Other(p)} => Lighter(inbox[r], inbox'[r], x)
          /\ \A r \in Users :
                Once(inbox[r], type) /\ ~Has(inbox[r], type) => Once(inbox'[r], type)
      BY <1>0, <2>0, <2>1, Delivered
    <3> QED  BY <1>0, <3>1
  <2>2. CASE Deliver({p}, "ERROR")
    <3>1. /\ inbox' \in [Users -> Seq(Signals \union {"TIMEOUT", "ERROR"})]
          /\ \A r \in Users : \A x : x # "ERROR" \/ r # p => Lighter(inbox[r], inbox'[r], x)
      BY <1>0, <2>0, <2>2, Delivered
    <3> QED  BY <1>0, <2>0, <3>1 DEF Lighter
  <2> QED  BY <2>1, <2>2
<1>2. Shapes'
  BY <1>1 DEF SessionInv, Shapes
<1>3. ManagerInv'
  BY <1>0, TableInv DEF Transitions
<1>4. CASE type \notin {"ACCEPT", "OFFER", "ANSWER"}
  <2>1. CallNoFurther
    BY <1>0, <1>4, EndedState DEF Transitions
  <2>2. LighterInbox
    BY <1>1, <1>4 DEF LighterInbox
  <2>3. NoFurther
    BY DEF NoFurther
  <2> QED  BY <1>2, <1>3, <2>1, <2>2, <2>3, SameQueues, QuietInv DEF Quiet
<1>5. CASE type = "ACCEPT"
  <2>1. p # Caller /\ Other(p) = Caller /\ In("RINGING") /\ Accept(Id, p, Other(p), 0)
    BY <1>0, <1>5, TwoUsers DEF Fits, Transitions, In
  <2>2. Id \in DOMAIN calls /\ DOMAIN calls' = DOMAIN calls /\ In("ACCEPTED")'
    BY <1>0, <2>1, AcceptedState
  <2>3. \A r \in Users : \A x \in {"OFFER", "ANSWER"} : Lighter(inbox[r], inbox'[r], x)
    BY <1>1, <1>5
  <2>4. accepted
    BY <1>5 DEF SessionInv, Consent
  <2>5. /\ OfferHeld' = OfferHeld /\ (OfferSent' => OfferSent) /\ ~AnswerDue'
        /\ (AnswerSent' => AnswerSent) /\ Settled' = Settled /\ Failure' = Failure
    BY <2>2, <2>3, TwoUsers DEF LighterOutbox, Lighter, OfferHeld, OfferSent, AnswerDue,
           AnswerSent, Settled, Failure, In
  <2>6. OneTurn' /\ NotBefore'
    BY <2>5 DEF SessionInv, Turn, OneTurn, NotBefore
  <2>7. NoneTwice'
    BY <2>3, TwoUsers DEF SessionInv, Turn, NoneTwice, LighterOutbox, Lighter
  <2>8. Asking'
    <3>1. stage[Caller] # "idle" /\ ~Has(outbox[Caller], "INVITE")
      BY <2>2 DEF SessionInv, Asking
    <3>2. ~In("RINGING")'
      BY <2>2 DEF In
    <3> QED  BY <3>1, <3>2, TwoUsers DEF SessionInv, Asking, LighterOutbox, Lighter
  <2>9. OneWay' /\ Consent'
    BY <2>3, <2>4, TwoUsers DEF SessionInv, OneWay, Consent, Lighter
  <2> QED  BY <1>2, <1>3, <2>6, <2>7, <2>8, <2>9 DEF SessionInv, Turn
<1>6. CASE type = "OFFER"
  <2>1. p = Caller /\ Other(p) = Callee /\ Offer(Id, p, Other(p), 0) /\ Id \in DOMAIN calls
    BY <1>0, <1>6 DEF Fits, Transitions
  <2>2. DOMAIN calls' = DOMAIN calls /\ In("NEGOTIATING")'
    BY <1>0, <2>1, OfferedState
  <2>3. \A x \in {"ACCEPT", "OFFER", "ANSWER"} : Lighter(inbox[Caller], inbox'[Caller], x)
    BY <1>1, <1>6, <2>1, TwoUsers
  <2>4. \A r \in Users : Lighter(inbox[r], inbox'[r], "ACCEPT")
    BY <1>1, <1>6
  <2>5. /\ OfferSent /\ ~OfferSent' /\ OfferHeld' = OfferHeld
        /\ (AnswerSent' => AnswerSent) /\ Settled' = Settled /\ Failure' = Failure
    BY <1>6, <2>1, <2>3 DEF SessionInv, Turn, NoneTwice, Lighter, OfferHeld, OfferSent,
           AnswerSent, Settled, Failure
  <2>6. OneTurn' /\ NotBefore'
    BY <2>5 DEF SessionInv, Turn, OneTurn, NotBefore
  <2>7. NoneTwice'
    BY <2>3, TwoUsers DEF SessionInv, Turn, NoneTwice, LighterOutbox, Lighter
  <2>8. Asking'
    <3>1. stage[Caller] # "idle" /\ ~Has(outbox[Caller], "INVITE")
      BY <2>1 DEF SessionInv, Asking
    <3>2. ~In("RINGING")'
      BY <2>2 DEF In
    <3> QED  BY <3>1, <3>2, TwoUsers DEF SessionInv, Asking, LighterOutbox, Lighter
  <2>9. OneWay' /\ Consent'
    BY <2>3, <2>4, TwoUsers DEF SessionInv, OneWay, Consent, LighterOutbox, Lighter
  <2> QED  BY <1>2, <1>3, <2>6, <2>7, <2>8, <2>9 DEF SessionInv, Turn
<1>7. CASE type = "ANSWER"
  <2>1. p # Caller /\ Other(p) = Caller /\ Answer(Id, p, Other(p))
    BY <1>0, <1>7, TwoUsers DEF Fits, Transitions
  <2>2. AnswerDue /\ DOMAIN calls' = DOMAIN calls /\ In("CONNECTED")'
    BY <1>0, <2>1, AnsweredState
  <2>3. \A r \in Users : \A x \in {"ACCEPT", "OFFER"} : Lighter(inbox[r], inbox'[r], x)
    BY <1>1, <1>7
  <2>4. /\ OfferHeld' = OfferHeld /\ (OfferSent' => OfferSent) /\ ~AnswerDue'
        /\ Settled' = Settled /\ Failure' = Failure
    BY <2>2, TwoUsers DEF LighterOutbox, Lighter, OfferHeld, OfferSent, AnswerDue, Settled,
           Failure, In
  <2>5. OneTurn' /\ NotBefore'
    BY <2>2, <2>4 DEF SessionInv, Turn, OneTurn, NotBefore
  <2>6. NoneTwice'
    <3>1. ~Has(inbox[Caller], "ANSWER")
      BY <2>2 DEF SessionInv, Turn, OneTurn, AnswerSent
    <3> QED  BY <1>1, <1>7, <2>1, <3>1, TwoUsers
             DEF SessionInv, Turn, NoneTwice, LighterOutbox, Lighter
  <2>7. Asking'
    <3>1. stage[Caller] # "idle" /\ ~Has(outbox[Caller], "INVITE")
      BY <2>2 DEF SessionInv, Asking, AnswerDue, In
    <3>2. ~In("RINGING")'
      BY <2>2 DEF In
    <3> QED  BY <3>1, <3>2, TwoUsers DEF SessionInv, Asking, LighterOutbox, Lighter
  <2>8. OneWay' /\ Consent'
    BY <2>3, TwoUsers DEF SessionInv, OneWay, Consent, LighterOutbox, Lighter
  <2> QED  BY <1>2, <1>3, <2>5, <2>6, <2>7, <2>8 DEF SessionInv, Turn
<1> QED  BY <1>4, <1>5, <1>6, <1>7

\* The signal is refused, or is call.ringing: the sender is told.
LEMMA ToldInv ==
  ASSUME SessionInv, LighterOutbox, outbox' \in [Users -> Seq(Signals)],
         NEW users, NEW type \in {"RINGING", "ERROR", "END", "TIMEOUT"},
         Deliver(users, type) \/ inbox' = inbox,
         ManagerInv', CallNoFurther,
         UNCHANGED <<stage, described, signals, events, accepted>>
  PROVE  SessionInv'
<1>1. Shapes /\ type \in Signals \union {"TIMEOUT", "ERROR"}
      /\ type \notin {"ACCEPT", "OFFER", "ANSWER"}
  BY DEF SessionInv, Signals
<1>2. /\ inbox' \in [Users -> Seq(Signals \union {"TIMEOUT", "ERROR"})]
      /\ \A r \in Users : \A x : x # type => Lighter(inbox[r], inbox'[r], x)
  <2>1. CASE Deliver(users, type)
    <3>1. /\ inbox' \in [Users -> Seq(Signals \union {"TIMEOUT", "ERROR"})]
          /\ \A r \in Users : \A x :
                x # type \/ r \notin users => Lighter(inbox[r], inbox'[r], x)
      BY <1>1, <2>1, Delivered
    <3> QED  BY <3>1
  <2>2. CASE inbox' = inbox
    BY <1>1, <2>2, LighterSame DEF Shapes
  <2> QED  BY <2>1, <2>2
<1>3. LighterInbox
  BY <1>1, <1>2 DEF LighterInbox
<1>4. Shapes' /\ NoFurther
  BY <1>2 DEF SessionInv, Shapes, NoFurther
<1> QED  BY <1>3, <1>4, SameQueues, QuietInv DEF Quiet

\* The server handles one message: the turn passes through the table.
LEMMA ServeInv ==
  ASSUME SessionInv, NEW p \in Users, Serve(p)
  PROVE  SessionInv'
<1> DEFINE type == Head(outbox[p])
           rings == type = "INVITE" /\ registered[Other(p)] /\ InviteVerdict(Id, p, Other(p)) = "OK"
<1>0. /\ outbox[p] # <<>> /\ outbox \in [Users -> Seq(Signals)] /\ outbox[p] \in Seq(Signals)
      /\ ManagerInv
      /\ UNCHANGED <<stage, described, signals, events, accepted>>
  BY DEF Serve, SessionInv, Shapes, client, pion, history
<1>1. CASE rings
  <2> DEFINE rest == <<"RINGING">> \o Tail(outbox[p])
  <2>0. type = "INVITE" /\ outbox' = [outbox EXCEPT ![p] = rest]
        /\ Invite(Id, p, Other(p), 0) /\ Deliver({Other(p)}, "INVITE")
    BY <1>1 DEF Serve
  <2>1. /\ Tail(outbox[p]) \in Seq(Signals) /\ <<"RINGING">> \in Seq(Signals)
        /\ Has(outbox[p], "INVITE")
        /\ Once(outbox[p], "INVITE") => ~Has(Tail(outbox[p]), "INVITE")
        /\ \A x : Lighter(outbox[p], Tail(outbox[p]), x)
    <3>1. "RINGING" \in Signals
      BY DEF Signals
    <3> QED  BY <1>0, <2>0, <3>1, TailQueue
  <2>2. p = Caller /\ Once(outbox[p], "INVITE")
    BY <2>1, SessionAssumption DEF SessionInv, Asking
  <2>3. /\ rest \in Seq(Signals) /\ ~Has(rest, "INVITE")
        /\ \A x : x # "RINGING" => Lighter(outbox[p], rest, x)
    <3>1. /\ rest \in Seq(Signals)
          /\ \A x : /\ Has(rest, x) <=> Has(<<"RINGING">>, x) \/ Has(Tail(outbox[p]), x)
                    /\ Once(<<"RINGING">>, x) /\ Once(Tail(outbox[p]), x)
                         /\ ~(Has(<<"RINGING">>, x) /\ Has(Tail(outbox[p]), x))
                         => Once(rest, x)
      BY <2>1, ConcatQueue
    <3> QED  BY <2>1, <2>2, <3>1, SingleQueue DEF Lighter
  <2> HIDE DEF rest
  <2>4. outbox' \in [Users -> Seq(Signals)] /\ LighterOutbox /\ ~Has(outbox'[p], "INVITE")
    BY <1>0, <2>0, <2>3, LighterSame DEF LighterOutbox
  <2> QED  BY <1>0, <2>0, <2>1, <2>4, RingsInv
<1>2. CASE ~rings
  <2>0. outbox' = Took(outbox, p)
    BY <1>2 DEF Serve
  <2>1. /\ outbox' \in [Users -> Seq(Signals)] /\ type \in Signals /\ Has(outbox[p], type)
        /\ Once(outbox[p], type) => ~Has(outbox'[p], type)
        /\ \A q \in Users : \A x : Lighter(outbox[q], outbox'[q], x)
    BY <1>0, <2>0, TookQueue
  <2>2. LighterOutbox
    BY <2>1 DEF LighterOutbox
  <2>3. \/ type = "RINGING" /\ Deliver({p}, "RINGING") /\ UNCHANGED mvars
        \/ Deliver({p}, "ERROR") /\ UNCHANGED mvars
        \/ /\ Fits(type, p) /\ Transitions(type, p)
           /\ Deliver({Other(p)}, type) \/ Deliver({p}, "ERROR")
    BY <1>2 DEF Serve
  <2> HIDE DEF type
  <2>4. CASE UNCHANGED mvars /\ (Deliver({p}, "RINGING") \/ Deliver({p}, "ERROR"))
    <3>1. ManagerInv' /\ CallNoFurther
      BY <1>0, <2>4, TableSame
    <3> QED  BY <1>0, <2>1, <2>2, <2>4, <3>1, ToldInv
  <2>5. CASE /\ Fits(type, p) /\ Transitions(type, p)
             /\ Deliver({Other(p)}, type) \/ Deliver({p}, "ERROR")
    BY <1>0, <2>1, <2>2, <2>5, ServedInv
  <2> QED  BY <2>3, <2>4, <2>5
<1> QED  BY <1>1, <1>2

\* Every step of the server.
LEMMA ServerInv ==
  ASSUME SessionInv, Server
  PROVE  SessionInv'
<1>1. CASE \E p \in Users : Serve(p)
  BY <1>1, ServeInv
<1>2. CASE Sweeps \/ TimePasses \/ \E p \in Users : Unregister(p)
  <2>1. ManagerInv' /\ CallNoFurther
    <3>1. Expire(0) \/ Tick \/ \E p \in Users : Disconnect(p, 0)
      BY <1>2 DEF Sweeps, TimePasses, Unregister
    <3> QED  BY <3>1, TableInv, SweptState, TwoUsers DEF SessionInv
  <2>2. UNCHANGED <<stage, described, outbox, signals, events, accepted>>
    BY <1>2 DEF Sweeps, TimePasses, Unregister, client, link, pion, history
  <2>3. \E users : \/ Deliver(users, "TIMEOUT") \/ Deliver(users, "END") \/ inbox' = inbox
    BY <1>2 DEF Sweeps, TimePasses, Unregister, link
  <2>4. LighterOutbox /\ outbox' \in [Users -> Seq(Signals)]
    BY <2>2, SameQueues DEF SessionInv, Shapes
  <2> QED  BY <2>1, <2>2, <2>3, <2>4, ToldInv
<1> QED  BY <1>1, <1>2 DEF Server

\* The server is gone, and the table and all signals on their way with it.
LEMMA ServerStopsInv ==
  ASSUME SessionInv, ServerStops
  PROVE  SessionInv'
<1>1. ManagerInv'
  BY TimeAssumption
  DEF ServerStops, ManagerInv, ManagerTypeOK, BusyConsistent, SweepCanFinish, Call
<1>2. CallNoFurther
  BY DEF ServerStops, CallNoFurther, In
<1>3. UNCHANGED <<stage, described, inbox, signals, events, accepted>>
  BY DEF ServerStops, client, pion, history
<1>4. outbox' \in [Users -> Seq(Signals)] /\ LighterOutbox
  <2>1. outbox' = [q \in Users |-> <<>>] /\ <<>> \in Seq(Signals)
    BY DEF ServerStops, Both
  <2>2. \A q \in Users : outbox'[q] = <<>>
    BY <2>1
  <2>3. outbox' \in [Users -> Seq(Signals)]
    BY <2>1
  <2> QED  BY <2>2, <2>3, EmptyQueue DEF LighterOutbox
<1>5. Shapes' /\ NoFurther
  BY <1>3, <1>4 DEF SessionInv, Shapes, NoFurther
<1> QED  BY <1>1, <1>2, <1>3, <1>4, <1>5, SameQueues, QuietInv DEF Quiet

----------------------------------------------------------------------------
\* The invariant holds before the call.
LEMMA InitInv == Init => SessionInv
<1> SUFFICES ASSUME Init PROVE SessionInv
  OBVIOUS
<1>1. ManagerInv /\ Id \notin DOMAIN calls
  BY NewInv DEF Init, New
<1>2. Shapes
  BY TwoUsers DEF Init, Both, Shapes
<1>3. /\ \A p \in Users : \A x : /\ ~Has(outbox[p], x) /\ ~Has(inbox[p], x)
                                 /\ ~Has(signals[p], x) /\ ~Has(events[p], x)
                                 /\ Once(outbox[p], x) /\ Once(inbox[p], x)
                                 /\ Once(signals[p], x) /\ Once(events[p], x)
      /\ \A p \in Users : stage[p] = "idle" /\ described[p] = FALSE
  BY EmptyQueue DEF Init, Both
<1>4. Consent /\ OneWay
  BY <1>3, TwoUsers DEF Consent, OneWay
<1>5. Turn
  BY <1>1, <1>3, TwoUsers DEF Turn, OneTurn, NoneTwice, NotBefore, OfferHeld, OfferSent, AnswerDue,
         AnswerSent, Settled, Failure, In
<1>6. Asking
  BY <1>1, <1>3, TwoUsers DEF Asking, Answered, OfferSent, In
<1> QED  BY <1>1, <1>2, <1>4, <1>5, <1>6 DEF SessionInv

\* Every step keeps the invariant.
LEMMA SessionNextInv == SessionInv /\ [Next]_vars => SessionInv'
<1> SUFFICES ASSUME SessionInv, [Next]_vars PROVE SessionInv'
  OBVIOUS
<1>1. CASE UNCHANGED vars
  <2>1. UNCHANGED <<mvars, stage, described, outbox, inbox, signals, events, accepted>>
    BY <1>1 DEF vars, client, link, pion, history, mvars
  <2>2. Shapes' /\ NoFurther
    BY <2>1 DEF SessionInv, Shapes, NoFurther
  <2> QED  BY <2>1, <2>2, SameQueues, ClientInv
<1> QED  BY <1>1, UserInv, HandlesInv, NetworkInv, ServerInv, ServerStopsInv DEF Next

----------------------------------------------------------------------------
\* The inductive invariant, for queues of any length and any number of outages.
THEOREM SessionInvariant == Spec => []SessionInv
  BY InitInv, SessionNextInv, PTL DEF Spec

\* No camera or microphone before the callee's user said yes, however the
\* signals of the two sides and the server interleave (RunChat starts a session
\* on call.accept only, which only answerInvitation sends).
THEOREM ConsentBeforeMedia == Spec => []MediaAfterConsent
<1>1. SessionInv => MediaAfterConsent
  BY DEF SessionInv, Consent, MediaAfterConsent
<1> QED  BY <1>1, SessionInvariant, PTL

\* An offer, the first or that of an ICE restart, is never refused by
\* Manager.Transition because the call still rings or waits for an answer.
THEOREM OffersFit == Spec => []OfferFits
<1>1. SessionInv => OfferFits
  <2> SUFFICES ASSUME SessionInv, outbox[Caller] # <<>>, Head(outbox[Caller]) = "OFFER",
                      Id \in DOMAIN calls
               PROVE  calls[Id].state # "NEGOTIATING" /\ calls[Id].state # "RINGING"
    BY DEF OfferFits
  <2>1. OfferSent
    <3>1. outbox[Caller] \in Seq(Signals)
      BY TwoUsers DEF SessionInv, Shapes
    <3> QED  BY <3>1, TailQueue DEF OfferSent
  <2>2. ~AnswerDue /\ ~In("RINGING")
    BY <2>1 DEF SessionInv, Turn, OneTurn, Asking, Answered
  <2> QED  BY <2>2 DEF AnswerDue, In
<1> QED  BY <1>1, SessionInvariant, PTL

----------------------------------------------------------------------------
\* What a session does to the call table.

\* A function that returns leaves the call table alone.
LEMMA LeavesTable ==
  ASSUME NEW p, NEW types,
         Leave(p, types) \/ Stop(p, types) \/ SignalingStop(p, types) \/ Fail(p)
  PROVE  UNCHANGED mvars
  BY DEF Leave, Stop, SignalingStop, Fail

\* Clients, users and the network reach the call table only through the server.
LEMMA OutsideTable ==
  ASSUME UserActs \/ \E p \in Users : Handles(p) \/ Network(p)
  PROVE  UNCHANGED mvars
<1>1. CASE UserActs
  BY <1>1, LeavesTable
  DEF UserActs, StartChat, CancelInvitation, AcceptInvitation, DeclineInvitation, Quit, Crash
<1>2. ASSUME NEW p \in Users, Handles(p) PROVE UNCHANGED mvars
  <2>1. CASE WaitSignal
    BY <2>1, LeavesTable DEF WaitSignal
  <2>2. CASE ListenSignal
    BY <2>2, LeavesTable DEF ListenSignal
  <2>3. CASE SessionSignal(p)
    BY <2>3, LeavesTable DEF SessionSignal
  <2>4. CASE SetupLost(p) \/ SignalingLost(p) \/ ForwardSignal(p) \/ PeerEvent(p)
    BY <2>4, LeavesTable DEF SetupLost, SignalingLost, ForwardSignal, PeerEvent
  <2>5. CASE PeerHangup(p) \/ ReconnectDeadline(p) \/ PeerErrorDeadline(p)
    BY <2>5, LeavesTable DEF PeerHangup, ReconnectDeadline, PeerErrorDeadline
  <2> QED  BY <1>2, <2>1, <2>2, <2>3, <2>4, <2>5 DEF Handles
<1>3. ASSUME NEW p \in Users, Network(p) PROVE UNCHANGED mvars
  BY <1>3
  DEF Network, Drop, Connects, ControlOpens, Disconnects, Fails, RemoteCloses, GatheringDone
<1> QED  BY <1>1, <1>2, <1>3

\* The server reaches it only through the methods of the manager.
LEMMA ServerTable ==
  ASSUME Server
  PROVE  [ManagerNext]_mvars
<1>1. ASSUME NEW p \in Users, Serve(p) PROVE [ManagerNext]_mvars
  <2>1. Other(p) \in Users
    BY TwoUsers DEF Other
  <2>2. \/ Invite(Id, p, Other(p), 0)
        \/ UNCHANGED mvars
        \/ \E type : Transitions(type, p)
    BY <1>1 DEF Serve
  <2>3. ASSUME NEW type, Transitions(type, p) PROVE Transition(Id, p, Other(p))
    BY <2>3, NoLag DEF Transitions, Transition
  <2> QED  BY <2>1, <2>2, <2>3, NoLag DEF ManagerNext
<1>2. ASSUME NEW p \in Users, Unregister(p) PROVE ManagerNext
  BY <1>2, NoLag DEF Unregister, ManagerNext
<1>3. CASE Sweeps
  BY <1>3, NoLag DEF Sweeps, Sweep, ManagerNext
<1>4. CASE TimePasses
  BY <1>4 DEF TimePasses, ManagerNext
<1> QED  BY <1>1, <1>2, <1>3, <1>4 DEF Server

\* Every step of a session is, for the table, a step of CallManager or the
\* stop of the server, which empties it.
LEMMA TableStep == [Next]_vars => [ManagerNext \/ ServerStops]_mvars
<1>1. UNCHANGED vars => UNCHANGED mvars
  BY DEF vars, mvars
<1> QED  BY <1>1, OutsideTable, ServerTable DEF Next

\* The table of a session is the one CallManager specifies: whatever two
\* clients send, lose or leave unsent, only the manager's methods change it
\* until the server stops.
THEOREM SessionKeepsTable == Spec => New /\ [][ManagerNext \/ ServerStops]_mvars
<1>1. Init => New
  BY DEF Init
<1> QED  BY <1>1, TableStep, PTL DEF Spec

\* No session is ended by a timeout that was not due: expireLocked times out
\* only a call in setup whose deadline has passed, also when a late answer,
\* a restart or a disconnect of one side is on its way.
THEOREM SessionTimeoutsAreDue == Spec => TimeoutOnlyWhenDue
<1>1. ServerStops => DueStep
  BY DEF ServerStops, DueStep
<1>2. SessionInv /\ [Next]_vars => [DueStep]_mvars
  BY <1>1, TableStep, NextDue DEF SessionInv
<1> QED  BY <1>2, SessionInvariant, PTL DEF Spec, TimeoutOnlyWhenDue, DueStep
=============================================================================
