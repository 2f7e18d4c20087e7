------------------------- MODULE SignalServerProofs -------------------------
(***************************************************************************)
(* Proofs about the signaling server for any number of connections, users  *)
(* and calls, any queue size and any timeouts.                             *)
(*                                                                         *)
(* The argument has three layers.  Wiring, the control state of the        *)
(* goroutines: which locals are set where, and that the registry is owned  *)
(* by the goroutines between Register and Unregister.  From it, every step *)
(* of the server is a step of the call table or leaves the table alone, so *)
(* the server implements ManagerSpec and inherits the theorems of          *)
(* CallManagerProofs, the contract among them.  With the busy index of the *)
(* table, EveryCallWatched is inductive: a goroutine stops watching a user *)
(* with calls.Disconnect, which by BusyConsistent ends the only live call  *)
(* the user can be in.                                                     *)
(***************************************************************************)
EXTENDS SignalServer, CallManagerProofs

\* The locals a process needs at x are set in j.
JobFits(x, j) ==
    /\ x \in {"find", "book", "ring", "undo"} => j.call \in CallIds /\ j.to \in Users
    /\ x \in {"book", "ring", "deliver", "goodbye"} => j.target \in Conns

Nameless == {"idle", "hello", "waiting"}

Places ==
    /\ \A k \in Conns : pc[k] \in ConnPC
    /\ pc[Sweeper] \in SweepPC
    /\ \A k \in Conns : user[k] = NoUser <=> pc[k] \in Nameless
    /\ \A p \in Procs : JobFits(pc[p], job[p])

Shapes ==
    /\ DOMAIN presence \subseteq Users
    /\ presence \in [DOMAIN presence -> Conns]
    /\ pc \in [Procs -> ConnPC \union SweepPC]
    /\ user \in [Conns -> Users \union {NoUser}]
    /\ job \in [Procs -> Job]

Queues ==
    /\ closed \in [Conns -> BOOLEAN]
    /\ doomed \subseteq Conns
    /\ backlog \in [Conns -> 0..QueueSize]
    /\ notices \subseteq [call : CallIds, first : Users, second : Users]
    /\ server \in {"up", "cancelled", "down"}

Wiring == Shapes /\ Places /\ RegistryOwned

\* Who is in the wait group of a connection: the writer alone until
\* session.ready is out, and nobody once serve has returned.
Helping ==
    /\ helpers \in [Conns -> 0..2]
    /\ \A k \in Conns :
          /\ pc[k] \in {"hello", "ready"} => helpers[k] <= 1
          /\ pc[k] = "idle" => helpers[k] = 0

ServerInv == ManagerInv /\ Queues /\ Wiring /\ Helping /\ EveryCallWatched

----------------------------------------------------------------------------
\* Queues.

\* A delivery respects the bound of the queue.
LEMMA DeliverBound ==
  ASSUME Queues, NEW k \in Conns, DeliverOK(k)
  PROVE  backlog' \in [Conns -> 0..QueueSize]
  BY ServerAssumption DEF Queues, DeliverOK, Room

\* Closing connections empties queues and never fills one.
LEMMA CloseBound ==
  ASSUME Queues, NEW K, CloseConns(K)
  PROVE  closed' \in [Conns -> BOOLEAN] /\ backlog' \in [Conns -> 0..QueueSize]
<1>1. closed' \in [Conns -> BOOLEAN]
  BY DEF CloseConns
<1>2. backlog' \in [Conns -> 0..QueueSize]
  BY ServerAssumption DEF Queues, CloseConns
<1> QED  BY <1>1, <1>2

\* The asynchronous Close is one of a connection.
LEMMA DoomsBound ==
  ASSUME Queues, NEW k \in Conns, Dooms(k)
  PROVE  doomed' \subseteq Conns
  BY DEF Queues, Dooms

\* Every step keeps the queues within their bound.
LEMMA QueuesNext == ManagerInv /\ Queues /\ Wiring /\ [Next]_vars => Queues'
<1> SUFFICES ASSUME ManagerInv, Queues, Wiring, [Next]_vars PROVE Queues'
  OBVIOUS
<1>1. ASSUME NEW k \in Conns, Serve(k) PROVE Queues'
  <2>1. CASE Connect(k)
    BY <2>1 DEF Connect, Queues
  <2>2. CASE Refuse(k) \/ ReadFails(k)
    BY <2>2, CloseBound DEF Refuse, ReadFails, Queues
  <2>3. CASE SendReady(k)
    BY <2>3, CloseBound, DeliverBound DEF SendReady, Queues
  <2>4. CASE RingCallee(k)
    <3>1. job[k].target \in Conns
      BY <2>4 DEF RingCallee, Wiring, Places, JobFits, Procs
    <3> QED  BY <2>4, <3>1, CloseBound, DeliverBound DEF RingCallee, Queues
  <2>5. CASE Answered(k) \/ SendError(k)
    BY <2>5, DeliverBound, DoomsBound DEF Answered, SendError, Queues
  <2>6. CASE UNCHANGED <<closed, doomed, backlog, notices, server>>
    BY <2>6 DEF Queues
  <2> QED  BY <1>1, <2>1, <2>2, <2>3, <2>4, <2>5, <2>6
           DEF Serve, Register, Unregister, CheckContext, DropCalls, WaitDone,
               ReceiveInvite, FindCallee, BookCall, UndoInvite, Relay
<1>2. ASSUME NEW p \in Procs, Lookup(p) PROVE Queues'
  BY <1>2 DEF Lookup, Queues
<1>3. ASSUME NEW p \in Procs, DeliverTo(p) PROVE Queues'
  <2>1. job[p].target \in Conns
    BY <1>3 DEF DeliverTo, Wiring, Places, JobFits
  <2> QED  BY <1>3, <2>1, CloseBound, DeliverBound DEF DeliverTo, Queues
<1>4. ASSUME NEW k \in Conns, Background(k) PROVE Queues'
  <2>1. CASE Write(k)
    <3>1. backlog[k] \in 0..QueueSize /\ backlog[k] > 0
      BY <2>1 DEF Write, Queues
    <3>2. backlog[k] - 1 \in 0..QueueSize
      BY <3>1, ServerAssumption
    <3>3. backlog' \in [Conns -> 0..QueueSize]
      BY <2>1, <3>2 DEF Write, Queues
    <3> QED  BY <2>1, <3>3 DEF Write, Queues
  <2>2. CASE Fail(k)
    BY <2>2, CloseBound DEF Fail, Queues
  <2>3. CASE Ping(k)
    BY <2>3, DeliverBound DEF Ping, Queues
  <2>4. CASE CloseSlow(k)
    BY <2>4, CloseBound DEF CloseSlow, Queues
  <2>5. CASE HelperStops(k)
    BY <2>5 DEF HelperStops, Queues
  <2> QED  BY <1>4, <2>1, <2>2, <2>3, <2>4, <2>5 DEF Background
<1>5. CASE Sweeping
  <2>1. ASSUME NEW lag \in Lags, SweepCalls(lag) PROVE Queues'
    <3>1. \A c \in Expired(lag) :
             /\ c \in CallIds /\ calls[c].caller \in Users /\ calls[c].callee \in Users
      BY DEF Expired, ManagerInv, ManagerTypeOK, Call
    <3>2. notices' \subseteq [call : CallIds, first : Users, second : Users]
      BY <2>1, <3>1 DEF SweepCalls
    <3> QED  BY <2>1, <3>2 DEF SweepCalls, Queues
  <2>2. CASE PickNotice
    BY <2>2 DEF PickNotice, Queues
  <2>3. CASE SweepStops
    BY <2>3 DEF SweepStops, Queues
  <2> QED  BY <1>5, <2>1, <2>2, <2>3 DEF Sweeping
<1>6. CASE CancelContext
  BY <1>6 DEF CancelContext, Queues
<1>7. CASE CloseAll
  BY <1>7, CloseBound DEF CloseAll, Queues
<1>8. CASE TimePasses \/ UNCHANGED vars
  BY <1>8 DEF TimePasses, vars, cvars, Queues
<1> QED  BY <1>1, <1>2, <1>3, <1>4, <1>5, <1>6, <1>7, <1>8 DEF Next

----------------------------------------------------------------------------
\* Wiring.

\* The locals that the steps assign are well formed.
LEMMA NoJobOK ==
  /\ NoJob \in Job
  /\ \A c \in CallIds, u \in Users :
        /\ Tell(c, u) \in Job /\ Tell(c, u).call = c /\ Tell(c, u).to = u
        /\ Tell(c, u).then = NoUser
  BY DEF NoJob, Job, Tell

\* A serve goroutine moves on without giving up or taking a username.
LEMMA ConnMove ==
  ASSUME Wiring, NEW k \in Conns, NEW x \in ConnPC, NEW j \in Job, JobFits(x, j),
         pc[k] \in Registered <=> x \in Registered,
         pc[k] \in Nameless <=> x \in Nameless,
         pc' = [pc EXCEPT ![k] = x], job' = [job EXCEPT ![k] = j],
         UNCHANGED <<presence, user>>
  PROVE  Wiring'
<1>1. /\ k \in Procs /\ k # Sweeper /\ Sweeper \in Procs
      /\ \A i \in Conns : i \in Procs /\ i # Sweeper
  BY ServerAssumption DEF Procs
<1>2. /\ pc'[k] = x /\ \A p \in Procs : p # k => pc'[p] = pc[p]
      /\ job'[k] = j /\ \A p \in Procs : p # k => job'[p] = job[p]
  BY <1>1 DEF Wiring, Shapes
<1>3. Shapes'
  BY <1>1 DEF Wiring, Shapes
<1>4. Places'
  BY <1>1, <1>2 DEF Wiring, Places
<1>5. RegistryOwned'
  BY <1>1, <1>2 DEF Wiring, RegistryOwned
<1> QED  BY <1>3, <1>4, <1>5 DEF Wiring

\* A serve goroutine that is not in the registry lets its username go.
LEMMA ConnEnds ==
  ASSUME Wiring, NEW k \in Conns, pc[k] \notin Registered,
         NEW j \in Job,
         pc' = [pc EXCEPT ![k] = "waiting"], job' = [job EXCEPT ![k] = j],
         user' = [user EXCEPT ![k] = NoUser],
         UNCHANGED presence
  PROVE  Wiring'
<1>1. /\ k \in Procs /\ k # Sweeper /\ Sweeper \in Procs
      /\ \A i \in Conns : i \in Procs /\ i # Sweeper
  BY ServerAssumption DEF Procs
<1>2. /\ pc'[k] = "waiting" /\ \A p \in Procs : p # k => pc'[p] = pc[p]
      /\ job'[k] = j /\ \A p \in Procs : p # k => job'[p] = job[p]
      /\ user'[k] = NoUser /\ \A i \in Conns : i # k => user'[i] = user[i]
  BY <1>1 DEF Wiring, Shapes
<1>3. Shapes'
  BY <1>1 DEF Wiring, Shapes, ConnPC
<1>4. Places'
  BY <1>1, <1>2 DEF Wiring, Places, Nameless, ConnPC, JobFits
<1>5. RegistryOwned'
  BY <1>1, <1>2 DEF Wiring, RegistryOwned, Registered
<1> QED  BY <1>3, <1>4, <1>5 DEF Wiring

\* The sweeper moves on.
LEMMA SweeperMove ==
  ASSUME Wiring, NEW x \in SweepPC, NEW j \in Job, JobFits(x, j),
         pc' = [pc EXCEPT ![Sweeper] = x], job' = [job EXCEPT ![Sweeper] = j],
         UNCHANGED <<presence, user>>
  PROVE  Wiring'
<1>1. Sweeper \in Procs /\ \A i \in Conns : i \in Procs /\ i # Sweeper
  BY ServerAssumption DEF Procs
<1>2. /\ pc'[Sweeper] = x /\ \A p \in Procs : p # Sweeper => pc'[p] = pc[p]
      /\ job'[Sweeper] = j /\ \A p \in Procs : p # Sweeper => job'[p] = job[p]
  BY <1>1 DEF Wiring, Shapes
<1>3. Shapes'
  BY <1>1 DEF Wiring, Shapes
<1>4. Places'
  BY <1>1, <1>2 DEF Wiring, Places
<1>5. RegistryOwned'
  BY <1>1, <1>2 DEF Wiring, RegistryOwned
<1> QED  BY <1>3, <1>4, <1>5 DEF Wiring

\* Register and Unregister, the two steps that change the registry.
LEMMA RegisterWiring ==
  ASSUME Wiring, NEW k \in Conns, NEW u \in Users, Register(k, u)
  PROVE  Wiring'
<1>1. /\ k \in Procs /\ k # Sweeper /\ Sweeper \in Procs
      /\ \A i \in Conns : i \in Procs /\ i # Sweeper
      /\ u # NoUser
  BY ServerAssumption DEF Procs
<1>2. /\ pc'[k] = "ready" /\ \A p \in Procs : p # k => pc'[p] = pc[p]
      /\ user'[k] = u /\ \A i \in Conns : i # k => user'[i] = user[i]
      /\ job' = job /\ pc[k] = "hello"
  BY <1>1 DEF Wiring, Shapes, Register
<1>3. /\ u \notin DOMAIN presence /\ DOMAIN presence' = DOMAIN presence \union {u}
      /\ presence'[u] = k /\ \A w \in DOMAIN presence : presence'[w] = presence[w]
      /\ presence' \in [DOMAIN presence' -> Conns]
  BY DEF Register, Put, Wiring, Shapes
<1>4. Shapes'
  BY <1>1, <1>3 DEF Wiring, Shapes, Register, ConnPC, Watching, Registered
<1>5. Places'
  BY <1>1, <1>2 DEF Wiring, Places, Nameless, ConnPC, Watching, Registered, JobFits
<1>6. RegistryOwned'
  BY <1>1, <1>2, <1>3 DEF Wiring, RegistryOwned, Registered
<1> QED  BY <1>4, <1>5, <1>6 DEF Wiring

\* Unregister removes the goroutine's own entry, or none.
LEMMA UnregisterWiring ==
  ASSUME Wiring, NEW k \in Conns, Unregister(k)
  PROVE  Wiring'
<1>1. /\ k \in Procs /\ k # Sweeper /\ Sweeper \in Procs
      /\ \A i \in Conns : i \in Procs /\ i # Sweeper
  BY ServerAssumption DEF Procs
<1>2. /\ pc'[k] = "parting" /\ \A p \in Procs : p # k => pc'[p] = pc[p]
      /\ user' = user /\ job' = job /\ pc[k] = "leaving"
  BY <1>1 DEF Wiring, Shapes, Unregister
<1>3. user[k] \in Users
  BY <1>2 DEF Wiring, Shapes, Places, Nameless
<1>4. user[k] \in DOMAIN presence /\ presence[user[k]] = k
  BY <1>2, <1>3 DEF Wiring, RegistryOwned, Registered
<1>5. /\ DOMAIN presence' = DOMAIN presence \ {user[k]}
      /\ \A w \in DOMAIN presence' : presence'[w] = presence[w]
      /\ presence' \in [DOMAIN presence' -> Conns]
  BY <1>4 DEF Unregister, Delete, Wiring, Shapes
<1>6. Shapes'
  BY <1>1, <1>5 DEF Wiring, Shapes, Unregister, ConnPC, Watching
<1>7. Places'
  BY <1>1, <1>2 DEF Wiring, Places, Nameless, ConnPC, Watching, JobFits
<1>8. RegistryOwned'
  BY <1>1, <1>2, <1>3, <1>4, <1>5 DEF Wiring, RegistryOwned, Registered
<1> QED  BY <1>6, <1>7, <1>8 DEF Wiring

\* deliverTo returns to whoever called it.
LEMMA ReturnWiring ==
  ASSUME Wiring, NEW p \in Procs, NEW ok \in BOOLEAN, Return(p, ok),
         pc[p] \in {"lookup", "farewell", "deliver", "goodbye"},
         UNCHANGED presence
  PROVE  Wiring'
<1>0. /\ \A i \in Conns : i \in Procs /\ i # Sweeper
      /\ p \in Conns \/ p = Sweeper
      /\ job[p] \in Job
  BY ServerAssumption DEF Procs, Wiring, Shapes
<1>1. CASE p = Sweeper
  <2> DEFINE x == IF job[p].then # NoUser THEN "lookup" ELSE "pick"
             j == IF job[p].then # NoUser
                  THEN [job[p] EXCEPT !.to = job[p].then, !.target = NoConn,
                                      !.then = NoUser]
                  ELSE NoJob
  <2>1. pc[p] \notin {"farewell", "goodbye"}
    BY <1>1 DEF Wiring, Places, SweepPC
  <2>2. pc' = [pc EXCEPT ![Sweeper] = x] /\ job' = [job EXCEPT ![Sweeper] = j]
        /\ user' = user
    BY <1>1, <2>1 DEF Return
  <2>3. x \in SweepPC /\ x \in {"lookup", "pick"}
    BY DEF SweepPC
  <2>4. j \in Job
    BY <1>0, NoJobOK DEF Job
  <2> HIDE DEF x, j
  <2>5. JobFits(x, j)
    BY <2>3 DEF JobFits
  <2> QED  BY <2>2, <2>3, <2>4, <2>5, SweeperMove
<1>2. CASE p # Sweeper /\ pc[p] \in {"farewell", "goodbye"}
  <2>1. /\ p \in Conns /\ pc[p] \notin Registered
        /\ pc' = [pc EXCEPT ![p] = "waiting"] /\ job' = [job EXCEPT ![p] = NoJob]
        /\ user' = [user EXCEPT ![p] = NoUser]
    BY <1>0, <1>2 DEF Return, Registered
  <2> QED  BY <2>1, NoJobOK, ConnEnds
<1>3. CASE p # Sweeper /\ pc[p] \in {"lookup", "deliver"}
  <2>1. PICK x \in {"reading", "reply"} : pc' = [pc EXCEPT ![p] = x]
    BY <1>3 DEF Return
  <2>2. job' = [job EXCEPT ![p] = NoJob] /\ user' = user /\ p \in Conns
    BY <1>0, <1>3 DEF Return
  <2>3. /\ x \in ConnPC /\ x \in Registered /\ pc[p] \in Registered
        /\ x \notin Nameless /\ pc[p] \notin Nameless /\ JobFits(x, NoJob)
    BY <1>3 DEF ConnPC, Watching, Registered, Nameless, JobFits
  <2> QED  BY <2>1, <2>2, <2>3, NoJobOK, ConnMove
<1> QED  BY <1>1, <1>2, <1>3

\* The steps of dispatch and disconnect that keep the username.
LEMMA DispatchWiring ==
  ASSUME Wiring, NEW k \in Conns,
         \/ Connect(k) \/ Refuse(k) \/ SendReady(k) \/ ReadFails(k) \/ WaitDone(k)
         \/ Answered(k) \/ SendError(k)
         \/ \E c \in CallIds, to \in Users : ReceiveInvite(k, c, to)
         \/ FindCallee(k)
         \/ \E lag \in Lags : BookCall(k, lag)
         \/ RingCallee(k)
         \/ \E lag \in Lags : UndoInvite(k, lag)
         \/ \E type \in Signals, c \in CallIds, to \in Users, lag \in Lags :
               Relay(k, type, c, to, lag)
  PROVE  Wiring'
<1>0. /\ job[k] \in Job /\ JobFits(pc[k], job[k])
      /\ job = [job EXCEPT ![k] = job[k]]
  BY DEF Wiring, Shapes, Places, Procs
<1> USE DEF ConnPC, Watching, Registered, Nameless
<1>1. CASE Connect(k) \/ Refuse(k) \/ WaitDone(k)
  <2>1. PICK x \in Nameless :
          pc' = [pc EXCEPT ![k] = x] /\ pc[k] \in Nameless
          /\ UNCHANGED <<presence, user, job>>
    BY <1>1 DEF Connect, Refuse, WaitDone
  <2>2. JobFits(x, job[k])
    BY DEF JobFits
  <2> QED  BY <1>0, <2>1, <2>2, ConnMove
<1>2. CASE SendReady(k) \/ ReadFails(k)
  <2>1. PICK x \in {"reading", "leaving"} :
          pc' = [pc EXCEPT ![k] = x] /\ pc[k] \in {"ready", "reading"}
          /\ UNCHANGED <<presence, user, job>>
    BY <1>2 DEF SendReady, ReadFails
  <2>2. JobFits(x, job[k])
    BY DEF JobFits
  <2> QED  BY <1>0, <2>1, <2>2, ConnMove
<1>3. CASE Answered(k) \/ SendError(k)
  <2>1. PICK x \in {"reading", "reply"}, j \in {NoJob, job[k]} :
          /\ pc' = [pc EXCEPT ![k] = x] /\ job' = [job EXCEPT ![k] = j]
          /\ pc[k] \in {"reading", "reply", "confirm"} /\ UNCHANGED <<presence, user>>
    BY <1>0, <1>3 DEF Answered, SendError, CanRead
  <2>2. JobFits(x, j) /\ j \in Job
    BY <1>0, NoJobOK DEF JobFits
  <2> QED  BY <2>1, <2>2, ConnMove
<1>4. ASSUME NEW c \in CallIds, NEW to \in Users, ReceiveInvite(k, c, to)
      PROVE  Wiring'
  <2>1. /\ pc' = [pc EXCEPT ![k] = "find"] /\ job' = [job EXCEPT ![k] = Tell(c, to)]
        /\ pc[k] = "reading" /\ UNCHANGED <<presence, user>>
    BY <1>4 DEF ReceiveInvite, CanRead
  <2>2. JobFits("find", Tell(c, to))
    BY NoJobOK DEF JobFits
  <2> QED  BY <2>1, <2>2, NoJobOK, ConnMove
<1>5. CASE FindCallee(k)
  <2>1. CASE job[k].to \in DOMAIN presence
    <3> DEFINE j == [job[k] EXCEPT !.target = presence[job[k].to]]
    <3>1. /\ pc' = [pc EXCEPT ![k] = "book"] /\ job' = [job EXCEPT ![k] = j]
          /\ pc[k] = "find" /\ UNCHANGED <<presence, user>>
      BY <1>5, <2>1 DEF FindCallee
    <3>2. presence[job[k].to] \in Conns
      BY <2>1 DEF Wiring, Shapes
    <3>3. /\ j \in Job /\ j.target = presence[job[k].to]
          /\ j.call = job[k].call /\ j.to = job[k].to
      BY <1>0, <3>2 DEF Job
    <3> HIDE DEF j
    <3>4. JobFits("book", j)
      BY <1>0, <3>1, <3>2, <3>3 DEF JobFits
    <3> QED  BY <3>1, <3>3, <3>4, ConnMove
  <2>2. CASE job[k].to \notin DOMAIN presence
    <3>1. /\ pc' = [pc EXCEPT ![k] = "reply"] /\ job' = [job EXCEPT ![k] = NoJob]
          /\ pc[k] = "find" /\ UNCHANGED <<presence, user>>
      BY <1>5, <2>2 DEF FindCallee
    <3>2. JobFits("reply", NoJob)
      BY DEF JobFits
    <3> QED  BY <3>1, <3>2, NoJobOK, ConnMove
  <2> QED  BY <2>1, <2>2
<1>6. ASSUME NEW lag \in Lags, BookCall(k, lag)
      PROVE  Wiring'
  <2>1. CASE pc' = [pc EXCEPT ![k] = "ring"] /\ UNCHANGED job
    <3>1. JobFits("ring", job[k]) /\ pc[k] = "book" /\ UNCHANGED <<presence, user>>
      BY <1>0, <1>6 DEF BookCall, JobFits
    <3> QED  BY <1>0, <2>1, <3>1, ConnMove
  <2>2. ASSUME NEW x \in {"confirm", "reply"}, pc' = [pc EXCEPT ![k] = x],
               job' = [job EXCEPT ![k] = NoJob]
        PROVE  Wiring'
    <3>1. JobFits(x, NoJob) /\ pc[k] = "book" /\ UNCHANGED <<presence, user>>
      BY <1>6 DEF BookCall, JobFits
    <3> QED  BY <2>2, <3>1, NoJobOK, ConnMove
  <2> QED  BY <1>6, <2>1, <2>2 DEF BookCall
<1>7. CASE RingCallee(k)
  <2>1. PICK x \in {"confirm", "undo"} :
          pc' = [pc EXCEPT ![k] = x] /\ pc[k] = "ring"
          /\ UNCHANGED <<presence, user, job>>
    BY <1>7 DEF RingCallee
  <2>2. JobFits(x, job[k])
    BY <1>0, <2>1 DEF JobFits
  <2> QED  BY <1>0, <2>1, <2>2, ConnMove
<1>8. ASSUME NEW lag \in Lags, UndoInvite(k, lag)
      PROVE  Wiring'
  <2>1. /\ pc' = [pc EXCEPT ![k] = "reply"] /\ job' = [job EXCEPT ![k] = NoJob]
        /\ pc[k] = "undo" /\ UNCHANGED <<presence, user>> /\ JobFits("reply", NoJob)
    BY <1>8 DEF UndoInvite, JobFits
  <2> QED  BY <2>1, NoJobOK, ConnMove
<1>9. ASSUME NEW type \in Signals, NEW c \in CallIds, NEW to \in Users, NEW lag \in Lags,
             Relay(k, type, c, to, lag)
      PROVE  Wiring'
  <2>1. /\ pc' = [pc EXCEPT ![k] = "lookup"] /\ job' = [job EXCEPT ![k] = Tell(c, to)]
        /\ pc[k] = "reading" /\ UNCHANGED <<presence, user>>
        /\ JobFits("lookup", Tell(c, to))
    BY <1>9 DEF Relay, CanRead, JobFits
  <2> QED  BY <2>1, NoJobOK, ConnMove
<1> QED  BY <1>1, <1>2, <1>3, <1>4, <1>5, <1>6, <1>7, <1>8, <1>9

\* The end of disconnect: the username goes when the call table is left alone.
LEMMA PartWiring ==
  ASSUME ManagerInv, Wiring, NEW k \in Conns,
         CheckContext(k) \/ \E lag \in Lags : DropCalls(k, lag)
  PROVE  Wiring'
<1>0. job[k] \in Job /\ job = [job EXCEPT ![k] = job[k]] /\ JobFits(pc[k], job[k])
      /\ user = [user EXCEPT ![k] = user[k]]
  BY DEF Wiring, Shapes, Places, Procs
<1> USE DEF ConnPC, Watching, Registered, Nameless
<1>1. CASE CheckContext(k) /\ server = "up"
  <2>1. /\ pc' = [pc EXCEPT ![k] = "dropping"] /\ pc[k] = "parting"
        /\ UNCHANGED <<presence, user, job>> /\ JobFits("dropping", job[k])
    BY <1>0, <1>1 DEF CheckContext, JobFits
  <2> QED  BY <1>0, <2>1, ConnMove
<1>2. CASE CheckContext(k) /\ server # "up"
  <2>1. /\ pc' = [pc EXCEPT ![k] = "waiting"] /\ pc[k] = "parting"
        /\ user' = [user EXCEPT ![k] = NoUser] /\ UNCHANGED <<presence, job>>
    BY <1>2 DEF CheckContext
  <2> QED  BY <1>0, <2>1, ConnEnds
<1>3. ASSUME NEW lag \in Lags, DropCalls(k, lag)
      PROVE  Wiring'
  <2>1. CASE Dropped(user[k]) = {}
    <3>1. /\ pc' = [pc EXCEPT ![k] = "waiting"] /\ pc[k] = "dropping"
          /\ user' = [user EXCEPT ![k] = NoUser] /\ UNCHANGED <<presence, job>>
      BY <1>3, <2>1 DEF DropCalls
    <3> QED  BY <1>0, <3>1, ConnEnds
  <2>2. CASE Dropped(user[k]) # {}
    <3>0. PICK c \in Dropped(user[k]) :
            \E other \in Participants(calls[c]) \ {user[k]} :
              /\ pc' = [pc EXCEPT ![k] = "farewell"]
              /\ job' = [job EXCEPT ![k] = Tell(c, other)]
              /\ UNCHANGED user
      BY <1>3, <2>2 DEF DropCalls
    <3>1. PICK other \in Participants(calls[c]) \ {user[k]} :
            /\ pc' = [pc EXCEPT ![k] = "farewell"]
            /\ job' = [job EXCEPT ![k] = Tell(c, other)]
            /\ UNCHANGED user
      BY <3>0
    <3>2. c \in CallIds /\ other \in Users
      BY <3>1 DEF Dropped, Participants, ManagerInv, ManagerTypeOK, Call
    <3>3. pc[k] = "dropping" /\ UNCHANGED presence /\ JobFits("farewell", Tell(c, other))
      BY <1>3 DEF DropCalls, JobFits
    <3> QED  BY <3>1, <3>2, <3>3, NoJobOK, ConnMove
  <2> QED  BY <2>1, <2>2
<1> QED  BY <1>1, <1>2, <1>3

\* A lookup of the target sets the local that delivery needs.
LEMMA LookupWiring ==
  ASSUME Wiring, NEW p \in Procs, Lookup(p)
  PROVE  Wiring'
<1>0. /\ pc[p] \in {"lookup", "farewell"} /\ UNCHANGED presence
      /\ job[p] \in Job
  BY DEF Lookup, Wiring, Shapes, Procs
<1>1. CASE job[p].to \in DOMAIN presence
  <2> DEFINE j == [job[p] EXCEPT !.target = presence[job[p].to]]
             x == IF pc[p] = "farewell" THEN "goodbye" ELSE "deliver"
  <2>1. /\ pc' = [pc EXCEPT ![p] = x] /\ job' = [job EXCEPT ![p] = j]
        /\ UNCHANGED <<presence, user>>
    BY <1>1 DEF Lookup
  <2>2. presence[job[p].to] \in Conns
    BY <1>1 DEF Wiring, Shapes
  <2>3. j \in Job /\ j.target = presence[job[p].to]
    BY <1>0, <2>2 DEF Job
  <2> HIDE DEF j
  <2>4. JobFits(x, j)
    BY <2>2, <2>3 DEF JobFits
  <2>5. CASE p \in Conns
    <3>1. /\ x \in ConnPC /\ (pc[p] \in Registered <=> x \in Registered)
          /\ (pc[p] \in Nameless <=> x \in Nameless)
      BY <1>0 DEF ConnPC, Watching, Registered, Nameless
    <3> QED  BY <2>1, <2>3, <2>4, <2>5, <3>1, ConnMove
  <2>6. CASE p = Sweeper
    <3>1. x \in SweepPC
      BY <1>0, <2>6 DEF Wiring, Places, SweepPC
    <3> QED  BY <2>1, <2>3, <2>4, <2>6, <3>1, SweeperMove
  <2> QED  BY <1>0, <2>5, <2>6 DEF Procs
<1>2. CASE job[p].to \notin DOMAIN presence
  <2>1. Return(p, FALSE)
    BY <1>2 DEF Lookup
  <2> QED  BY <1>0, <2>1, ReturnWiring
<1> QED  BY <1>1, <1>2

\* Every step keeps the registry and the goroutines in agreement.
LEMMA WiringNext == ManagerInv /\ Queues /\ Wiring /\ [Next]_vars => Wiring'
<1> SUFFICES ASSUME ManagerInv, Queues, Wiring, [Next]_vars PROVE Wiring'
  OBVIOUS
<1>1. ASSUME NEW k \in Conns, Serve(k) PROVE Wiring'
  BY <1>1, RegisterWiring, UnregisterWiring, DispatchWiring, PartWiring DEF Serve
<1>2. ASSUME NEW p \in Procs, Lookup(p) PROVE Wiring'
  BY <1>2, LookupWiring
<1>3. ASSUME NEW p \in Procs, DeliverTo(p) PROVE Wiring'
  BY <1>3, ReturnWiring DEF DeliverTo
<1>4. CASE \/ \E k \in Conns : Background(k)
           \/ CancelContext \/ CloseAll \/ TimePasses \/ UNCHANGED vars
  <2>1. UNCHANGED <<presence, pc, user, job>>
    BY <1>4 DEF Background, Write, Fail, Ping, CloseSlow, HelperStops,
                CancelContext, CloseAll, TimePasses, vars, cvars
  <2> QED  BY <2>1 DEF Wiring, Shapes, Places, RegistryOwned
<1>5. CASE Sweeping
  <2>0. job[Sweeper] \in Job /\ job = [job EXCEPT ![Sweeper] = job[Sweeper]]
    BY DEF Wiring, Shapes, Procs
  <2>1. ASSUME NEW x \in {"pick", "idle", "stopped"},
               pc' = [pc EXCEPT ![Sweeper] = x], UNCHANGED <<presence, user, job>>
        PROVE  Wiring'
    <3>1. x \in SweepPC /\ JobFits(x, job[Sweeper])
      BY DEF SweepPC, JobFits
    <3> QED  BY <2>0, <2>1, <3>1, SweeperMove
  <2>2. CASE PickNotice /\ notices # {}
    <3>1. PICK n \in notices :
            /\ pc' = [pc EXCEPT ![Sweeper] = "lookup"]
            /\ job' = [job EXCEPT ![Sweeper] =
                  [Tell(n.call, n.first) EXCEPT !.then = n.second]]
            /\ UNCHANGED <<presence, user>>
      BY <2>2 DEF PickNotice
    <3>2. n.call \in CallIds /\ n.first \in Users /\ n.second \in Users
      BY DEF Queues
    <3>3. [Tell(n.call, n.first) EXCEPT !.then = n.second] \in Job
      BY <3>2, NoJobOK DEF Job
    <3>4. \A j : JobFits("lookup", j)
      BY DEF JobFits
    <3>5. "lookup" \in SweepPC
      BY DEF SweepPC
    <3> QED  BY <3>1, <3>3, <3>4, <3>5, SweeperMove
  <2> QED  BY <1>5, <2>1, <2>2 DEF Sweeping, SweepCalls, PickNotice, SweepStops
<1> QED  BY <1>1, <1>2, <1>3, <1>4, <1>5 DEF Next

\* Every step keeps the wait groups in agreement with their goroutines.
LEMMA HelpingNext == Wiring /\ Helping /\ [Next]_vars => Helping'
<1> SUFFICES ASSUME Wiring, Helping, [Next]_vars PROVE Helping'
  OBVIOUS
<1>0. pc \in [Procs -> ConnPC \union SweepPC] /\ (\A i \in Conns : i \in Procs)
      /\ Sweeper \in Procs /\ Sweeper \notin Conns
  BY ServerAssumption DEF Wiring, Shapes, Procs
<1>1. ASSUME NEW p \in Procs, NEW x, pc' = [pc EXCEPT ![p] = x], helpers' = helpers,
             p \in Conns => x \notin {"hello", "ready", "idle"}
      PROVE  Helping'
  BY <1>0, <1>1 DEF Helping
<1>2. ASSUME NEW k \in Conns, Serve(k) PROVE Helping'
  <2>1. CASE Connect(k)
    BY <1>0, <2>1 DEF Connect, Helping
  <2>2. CASE \E u \in Users : Register(k, u)
    BY <1>0, <2>2 DEF Register, Helping
  <2>3. CASE SendReady(k)
    BY <1>0, <1>1, <2>3 DEF SendReady, Helping
  <2>4. CASE WaitDone(k)
    BY <1>0, <2>4 DEF WaitDone, Helping
  <2>5. CASE \/ Refuse(k) \/ ReadFails(k) \/ Unregister(k) \/ CheckContext(k)
             \/ \E lag \in Lags : DropCalls(k, lag)
    BY <1>0, <1>1, <2>5 DEF Refuse, ReadFails, Unregister, CheckContext, DropCalls
  <2>6. CASE \/ Answered(k) \/ SendError(k)
             \/ \E c \in CallIds, to \in Users : ReceiveInvite(k, c, to)
             \/ FindCallee(k)
             \/ \E lag \in Lags : BookCall(k, lag)
    BY <1>0, <1>1, <2>6 DEF Answered, SendError, ReceiveInvite, FindCallee, BookCall
  <2>7. CASE \/ RingCallee(k)
             \/ \E lag \in Lags : UndoInvite(k, lag)
             \/ \E type \in Signals, c \in CallIds, to \in Users, lag \in Lags :
                   Relay(k, type, c, to, lag)
    BY <1>0, <1>1, <2>7 DEF RingCallee, UndoInvite, Relay
  <2> QED  BY <1>2, <2>1, <2>2, <2>3, <2>4, <2>5, <2>6, <2>7 DEF Serve
<1>3. ASSUME NEW p \in Procs, Lookup(p) \/ DeliverTo(p) PROVE Helping'
  <2>1. helpers' = helpers /\ \E x \in {"goodbye", "deliver", "lookup", "pick",
                                     "waiting", "reading", "reply"} :
            pc' = [pc EXCEPT ![p] = x]
    BY <1>3 DEF Lookup, DeliverTo, Return
  <2> QED  BY <1>1, <2>1
<1>4. ASSUME NEW k \in Conns, Background(k) PROVE Helping'
  <2>1. CASE HelperStops(k)
    BY <2>1 DEF HelperStops, Helping
  <2>2. CASE UNCHANGED <<pc, helpers>>
    BY <2>2 DEF Helping
  <2> QED  BY <1>4, <2>1, <2>2 DEF Background, Write, Fail, Ping, CloseSlow
<1>5. CASE Sweeping
  <2>1. helpers' = helpers /\ \E x : pc' = [pc EXCEPT ![Sweeper] = x]
    BY <1>5 DEF Sweeping, SweepCalls, PickNotice, SweepStops
  <2> QED  BY <1>0, <1>1, <2>1
<1>6. CASE CancelContext \/ CloseAll \/ TimePasses \/ UNCHANGED vars
  BY <1>6 DEF CancelContext, CloseAll, TimePasses, vars, cvars, Helping
<1> QED  BY <1>2, <1>3, <1>4, <1>5, <1>6 DEF Next

----------------------------------------------------------------------------
\* The call table.

\* A goroutine past the handshake has a username.
LEMMA Named ==
  ASSUME Wiring, NEW k \in Conns, pc[k] \notin Nameless
  PROVE  user[k] \in Users
  BY DEF Wiring, Shapes, Places

\* Every step of the server is one method of the manager or leaves it alone.
LEMMA ManagerStep == Wiring /\ [Next]_vars => [ManagerNext]_mvars
<1> SUFFICES ASSUME Wiring, [Next]_vars PROVE [ManagerNext]_mvars
  OBVIOUS
<1>1. ASSUME NEW k \in Conns, Serve(k) PROVE [ManagerNext]_mvars
  <2>1. ASSUME NEW lag \in Lags, DropCalls(k, lag) PROVE ManagerNext
    <3>1. user[k] \in Users
      BY <2>1, Named DEF DropCalls, Nameless
    <3> QED  BY <2>1, <3>1 DEF DropCalls, ManagerNext
  <2>2. ASSUME NEW lag \in Lags, BookCall(k, lag) PROVE [ManagerNext]_mvars
    <3>1. user[k] \in Users /\ job[k].call \in CallIds /\ job[k].to \in Users
      BY <2>2, Named DEF BookCall, Nameless, Wiring, Places, JobFits, Procs
    <3> QED  BY <2>2, <3>1 DEF BookCall, ManagerNext
  <2>3. ASSUME NEW lag \in Lags, UndoInvite(k, lag) PROVE ManagerNext
    <3>1. job[k].to \in Users
      BY <2>3 DEF UndoInvite, Wiring, Places, JobFits, Procs
    <3> QED  BY <2>3, <3>1 DEF UndoInvite, ManagerNext
  <2>4. ASSUME NEW type \in Signals, NEW c \in CallIds, NEW to \in Users,
               NEW lag \in Lags, Relay(k, type, c, to, lag)
        PROVE  ManagerNext
    <3>1. user[k] \in Users
      BY <2>4, Named DEF Relay, CanRead, Nameless
    <3>2. Transition(c, user[k], to)
      BY <2>4 DEF Relay, ApplySignal, Transition
    <3> QED  BY <3>1, <3>2 DEF ManagerNext
  <2>5. CASE UNCHANGED mvars
    BY <2>5
  <2> QED  BY <1>1, <2>1, <2>2, <2>3, <2>4, <2>5
           DEF Serve, Connect, Refuse, Register, SendReady, ReadFails, Unregister,
               CheckContext, WaitDone, Answered, SendError, ReceiveInvite,
               FindCallee, RingCallee
<1>2. CASE (\E p \in Procs : Lookup(p) \/ DeliverTo(p))
           \/ (\E k \in Conns : Background(k))
           \/ CancelContext \/ CloseAll \/ UNCHANGED vars
  <2>1. UNCHANGED mvars
    BY <1>2 DEF Lookup, DeliverTo, Background, Write, Fail, Ping, CloseSlow,
                HelperStops, CancelContext, CloseAll, vars
  <2> QED  BY <2>1
<1>3. CASE Sweeping
  BY <1>3 DEF Sweeping, SweepCalls, PickNotice, SweepStops, ManagerNext, Sweep
<1>4. CASE TimePasses
  BY <1>4 DEF TimePasses, ManagerNext
<1> QED  BY <1>1, <1>2, <1>3, <1>4 DEF Next

\* The manager's part of a step: what is live afterwards was live before,
\* between the same users, and no ringing call was answered.
Quiet ==
    \A c \in DOMAIN calls' : ~Terminal(calls'[c]) =>
        /\ c \in DOMAIN calls /\ ~Terminal(calls[c])
        /\ calls'[c].caller = calls[c].caller /\ calls'[c].callee = calls[c].callee
        /\ calls[c].state = "RINGING" => calls'[c].state = "RINGING"

\* A finished call needs no watcher.
LEMMA FinishQuiet ==
  ASSUME ManagerInv, NEW c \in DOMAIN calls, NEW s \in TerminalStates, NEW lag \in Lags,
         finish(c, s, lag)
  PROVE  Quiet /\ DOMAIN calls' = DOMAIN calls /\ Terminal(calls'[c])
<1>1. calls[c] \in Call
  BY DEF ManagerInv, ManagerTypeOK
<1>2. /\ DOMAIN calls' = DOMAIN calls /\ calls'[c] = finished(calls[c], s, lag)
      /\ \A d \in DOMAIN calls : d # c => calls'[d] = calls[d]
  BY DEF ManagerInv, ManagerTypeOK, finish
<1>3. Terminal(calls'[c])
  BY <1>1, <1>2, FinishedCall DEF Terminal
<1> QED  BY <1>2, <1>3 DEF Quiet

\* calls.Disconnect(u) leaves no live call of u behind.
LEMMA DisconnectQuiet ==
  ASSUME ManagerInv, NEW u \in Users, NEW lag \in Lags, Disconnect(u, lag)
  PROVE  /\ Quiet
         /\ \A c \in DOMAIN calls' :
               ~Terminal(calls'[c]) => u \notin Participants(calls'[c])
<1>1. CASE Dropped(u) = {}
  <2>1. calls' = calls
    BY <1>1 DEF Disconnect
  <2>2. u \notin DOMAIN active
    BY <1>1 DEF Dropped, ManagerInv, BusyConsistent, ManagerTypeOK
  <2> QED  BY <2>1, <2>2 DEF Quiet, ManagerInv, ManagerTypeOK, BusyConsistent
<1>2. CASE Dropped(u) # {}
  <2>1. PICK c \in Dropped(u) : finish(c, "ENDED", lag)
    BY <1>2 DEF Disconnect
  <2>2. /\ c \in DOMAIN calls /\ c \in CallIds /\ ~Terminal(calls[c])
        /\ u \in DOMAIN active /\ active[u] = c
    BY DEF Dropped, ManagerInv, ManagerTypeOK
  <2>3. Quiet /\ DOMAIN calls' = DOMAIN calls /\ Terminal(calls'[c])
    BY <2>1, <2>2, FinishQuiet DEF TerminalStates
  <2>4. ASSUME NEW d \in DOMAIN calls', ~Terminal(calls'[d]), u \in Participants(calls'[d])
        PROVE  FALSE
    <3>1. d \in CallIds /\ ~Terminal(calls[d]) /\ u \in Participants(calls[d])
      BY <2>3, <2>4 DEF Quiet, Participants, ManagerInv, ManagerTypeOK
    <3>2. active[u] = d
      BY <2>3, <3>1 DEF ManagerInv, BusyConsistent
    <3> QED  BY <2>2, <2>3, <2>4, <3>2
  <2> QED  BY <2>3, <2>4
<1> QED  BY <1>1, <1>2

\* A sweep starts no call and brings none further.
LEMMA ExpireQuiet ==
  ASSUME ManagerInv, NEW lag \in Lags, Expire(lag)
  PROVE  Quiet
<1> SUFFICES ASSUME NEW c \in DOMAIN calls', ~Terminal(calls'[c])
             PROVE  c \in DOMAIN calls /\ calls'[c] = calls[c]
  BY DEF Quiet
<1>1. /\ c \in DOMAIN calls
      /\ calls'[c] = IF c \in Expired(lag) THEN finished(calls[c], "TIMED_OUT", lag)
                                           ELSE calls[c]
  BY DEF Expire
<1>2. CASE c \in Expired(lag)
  <2>1. calls[c] \in Call /\ "TIMED_OUT" \in TerminalStates
    BY <1>1 DEF ManagerInv, ManagerTypeOK, TerminalStates
  <2> QED  BY <1>1, <1>2, <2>1, FinishedCall DEF Terminal
<1> QED  BY <1>1, <1>2

\* Time changes no call's state.
LEMMA TickQuiet ==
  ASSUME ManagerInv, Tick
  PROVE  Quiet
<1> SUFFICES ASSUME NEW c \in DOMAIN calls'
             PROVE  /\ c \in DOMAIN calls
                    /\ calls'[c].caller = calls[c].caller
                    /\ calls'[c].callee = calls[c].callee
                    /\ calls'[c].state = calls[c].state
  BY DEF Quiet, Terminal
<1>1. /\ c \in DOMAIN calls
      /\ calls'[c] = [calls[c] EXCEPT !.deadline = Older(@), !.cleanupAt = Older(@)]
  BY DEF Tick
<1>2. calls[c] \in Call
  BY <1>1 DEF ManagerInv, ManagerTypeOK
<1> QED  BY <1>1, <1>2 DEF Call

\* Only an acceptance, by the callee, takes a live call out of ringing.
LEMMA SignalQuiet ==
  ASSUME ManagerInv, NEW c \in CallIds, NEW u \in Users, NEW v \in Users,
         Transition(c, u, v)
  PROVE  \A d \in DOMAIN calls' : ~Terminal(calls'[d]) =>
            /\ d \in DOMAIN calls /\ ~Terminal(calls[d])
            /\ calls'[d].caller = calls[d].caller /\ calls'[d].callee = calls[d].callee
            /\ \/ u = calls[d].callee
               \/ calls[d].state = "RINGING" => calls'[d].state = "RINGING"
<1>0. c \in DOMAIN calls /\ calls[c] \in Call
  BY DEF ManagerInv, ManagerTypeOK, Transition, Accept, Decline, Cancel,
         Offer, Answer, ICECandidate, ICEComplete, End, Between
<1> DEFINE Goal == \A d \in DOMAIN calls' : ~Terminal(calls'[d]) =>
            /\ d \in DOMAIN calls /\ ~Terminal(calls[d])
            /\ calls'[d].caller = calls[d].caller /\ calls'[d].callee = calls[d].callee
            /\ \/ u = calls[d].callee
               \/ calls[d].state = "RINGING" => calls'[d].state = "RINGING"
<1>1. ASSUME NEW r, calls' = [calls EXCEPT ![c] = r], ~Terminal(calls[c]),
             r.caller = calls[c].caller, r.callee = calls[c].callee,
             u = calls[c].callee \/ calls[c].state # "RINGING"
      PROVE  Goal
  <2>1. /\ DOMAIN calls' = DOMAIN calls /\ calls'[c] = r
        /\ \A d \in DOMAIN calls : d # c => calls'[d] = calls[d]
    BY <1>0, <1>1 DEF ManagerInv, ManagerTypeOK
  <2> QED  BY <1>1, <2>1
<1>2. ASSUME NEW lag \in Lags, NEW s \in TerminalStates, finish(c, s, lag)
      PROVE  Goal
  BY <1>0, <1>2, FinishQuiet DEF Quiet
<1>3. ASSUME NEW lag \in Lags, Accept(c, u, v, lag) PROVE Goal
  <2> DEFINE r == setState(calls[c], "ACCEPTED", NegotiationTimeout - lag)
  <2>1. calls' = [calls EXCEPT ![c] = r] /\ u = calls[c].callee /\ ~Terminal(calls[c])
    BY <1>3 DEF Accept, Terminal, TerminalStates
  <2>2. r.caller = calls[c].caller /\ r.callee = calls[c].callee
    BY <1>0 DEF setState, Call
  <2> HIDE DEF r, Goal
  <2> QED  BY <1>1, <2>1, <2>2
<1>4. ASSUME NEW lag \in Lags,
             Decline(c, u, v, lag) \/ Cancel(c, u, v, lag) \/ End(c, u, v, lag)
      PROVE  Goal
  <2> HIDE DEF Goal
  <2>1. PICK s \in {"DECLINED", "CANCELLED", "ENDED"} : finish(c, s, lag)
    BY <1>4 DEF Decline, Cancel, End
  <2> QED  BY <1>2, <2>1 DEF TerminalStates
<1>5. ASSUME NEW lag \in Lags, Offer(c, u, v, lag) PROVE Goal
  <2> DEFINE b == IF calls[c].state = "CONNECTED"
                  THEN [calls[c] EXCEPT !.callerCandidates = 0,
                                        !.calleeCandidates = 0]
                  ELSE calls[c]
             r == setState(b, "NEGOTIATING", NegotiationTimeout - lag)
  <2>1. /\ calls' = [calls EXCEPT ![c] = r]
        /\ calls[c].state # "RINGING" /\ ~Terminal(calls[c])
    BY <1>5 DEF Offer, Terminal, TerminalStates
  <2>2. r.caller = calls[c].caller /\ r.callee = calls[c].callee
    BY <1>0 DEF setState, Call
  <2> HIDE DEF r, Goal
  <2> QED  BY <1>1, <2>1, <2>2
<1>6. ASSUME Answer(c, u, v) PROVE Goal
  <2> DEFINE r == setState(calls[c], "CONNECTED", NoTime)
  <2>1. /\ calls' = [calls EXCEPT ![c] = r]
        /\ calls[c].state # "RINGING" /\ ~Terminal(calls[c])
    BY <1>6 DEF Answer, Terminal, TerminalStates
  <2>2. r.caller = calls[c].caller /\ r.callee = calls[c].callee
    BY <1>0 DEF setState, Call
  <2> HIDE DEF r, Goal
  <2> QED  BY <1>1, <2>1, <2>2
<1>7. ASSUME ICECandidate(c, u, v) PROVE Goal
  <2>0. calls[c].state # "RINGING" /\ ~Terminal(calls[c])
    BY <1>7 DEF ICECandidate, Established, Terminal, TerminalStates
  <2>1. CASE u = calls[c].caller
    <3> DEFINE r == [calls[c] EXCEPT !.callerCandidates = @ + 1]
    <3>1. calls' = [calls EXCEPT ![c] = r]
      BY <1>7, <2>1 DEF ICECandidate
    <3>2. r.caller = calls[c].caller /\ r.callee = calls[c].callee
      BY <1>0 DEF Call
    <3> HIDE DEF r, Goal
    <3> QED  BY <1>1, <2>0, <3>1, <3>2
  <2>2. CASE u # calls[c].caller
    <3> DEFINE r == [calls[c] EXCEPT !.calleeCandidates = @ + 1]
    <3>1. calls' = [calls EXCEPT ![c] = r]
      BY <1>7, <2>2 DEF ICECandidate
    <3>2. r.caller = calls[c].caller /\ r.callee = calls[c].callee
      BY <1>0 DEF Call
    <3> HIDE DEF r, Goal
    <3> QED  BY <1>1, <2>0, <3>1, <3>2
  <2> QED  BY <2>1, <2>2
<1>8. ASSUME ICEComplete(c, u, v) PROVE Goal
  BY <1>8 DEF ICEComplete, mvars
<1> HIDE DEF Goal
<1>9. Goal
  BY <1>3, <1>4, <1>5, <1>6, <1>7, <1>8 DEF Transition
<1> QED  BY <1>9 DEF Goal

----------------------------------------------------------------------------
\* Every call is watched.

KeepsWatch ==
    \A k \in Conns : pc[k] \in Watching => pc'[k] \in Watching /\ user'[k] = user[k]

\* A quiet step during which nobody stops watching.
LEMMA QuietWatch ==
  ASSUME EveryCallWatched, Quiet, KeepsWatch, server' = server
  PROVE  EveryCallWatched'
<1>1. \A u : Watched(u) => Watched(u)'
  BY DEF Watched, KeepsWatch
<1> QED  BY <1>1 DEF EveryCallWatched, Quiet

\* A step that leaves the table alone changes no call.
LEMMA TableAlone == UNCHANGED mvars => Quiet
  BY DEF mvars, Quiet

\* A goroutine that moves from one place to another keeps watching.
LEMMA MoveWatch ==
  ASSUME Wiring, NEW p \in Procs, NEW x,
         pc' = [pc EXCEPT ![p] = x], user' = user,
         pc[p] \in Watching => x \in Watching
  PROVE  KeepsWatch
  BY DEF KeepsWatch, Wiring, Shapes, Procs

\* BookCall: the new call is watched by its caller and rings.
LEMMA BookWatch ==
  ASSUME ManagerInv, Wiring, EveryCallWatched, NEW k \in Conns, NEW lag \in Lags,
         BookCall(k, lag)
  PROVE  EveryCallWatched'
<1>0. pc[k] = "book" /\ user' = user /\ server' = server
  BY DEF BookCall
<1>1. KeepsWatch
  <2>1. PICK x \in {"ring", "confirm", "reply"} : pc' = [pc EXCEPT ![k] = x]
    BY DEF BookCall
  <2> QED  BY <1>0, <2>1, MoveWatch DEF Watching, Registered, Procs
<1>2. CASE InviteVerdict(job[k].call, user[k], job[k].to) # "OK"
  <2>1. UNCHANGED mvars
    BY <1>2 DEF BookCall
  <2> QED  BY <1>0, <1>1, <2>1, TableAlone, QuietWatch
<1>3. CASE InviteVerdict(job[k].call, user[k], job[k].to) = "OK"
  <2> DEFINE c == job[k].call
             r == [caller |-> user[k], callee |-> job[k].to, state |-> "RINGING",
                   deadline |-> RingTimeout - lag, cleanupAt |-> NoTime,
                   callerCandidates |-> 0, calleeCandidates |-> 0]
  <2>1. c \notin DOMAIN calls /\ calls' = Put(calls, c, r)
    BY <1>3 DEF BookCall, Invite, InviteVerdict
  <2>2. r.caller = user[k] /\ r.state = "RINGING"
    OBVIOUS
  <2> HIDE DEF r, c
  <2>3. /\ DOMAIN calls' = DOMAIN calls \union {c} /\ calls'[c] = r
        /\ \A d \in DOMAIN calls : calls'[d] = calls[d]
    BY <2>1 DEF Put
  <2>4. \A u : Watched(u) => Watched(u)'
    BY <1>1 DEF Watched, KeepsWatch
  <2>5. Watched(user[k])
    BY <1>0 DEF Watched, Watching, Registered
  <2> QED  BY <1>0, <2>2, <2>3, <2>4, <2>5 DEF EveryCallWatched
<1> QED  BY <1>2, <1>3

\* Relay: whoever answers a ringing call watches it from then on.
LEMMA RelayWatch ==
  ASSUME ManagerInv, Wiring, EveryCallWatched, NEW k \in Conns,
         NEW type \in Signals, NEW c \in CallIds, NEW to \in Users, NEW lag \in Lags,
         Relay(k, type, c, to, lag)
  PROVE  EveryCallWatched'
<1>0. /\ pc[k] = "reading" /\ pc' = [pc EXCEPT ![k] = "lookup"]
      /\ user' = user /\ server' = server
  BY DEF Relay, CanRead
<1>1. user[k] \in Users
  BY <1>0, Named DEF Nameless
<1>2. Transition(c, user[k], to)
  BY DEF Relay, ApplySignal, Transition
<1>3. \A d \in DOMAIN calls' : ~Terminal(calls'[d]) =>
         /\ d \in DOMAIN calls /\ ~Terminal(calls[d])
         /\ calls'[d].caller = calls[d].caller /\ calls'[d].callee = calls[d].callee
         /\ \/ user[k] = calls[d].callee
            \/ calls[d].state = "RINGING" => calls'[d].state = "RINGING"
  BY <1>1, <1>2, SignalQuiet
<1>4. KeepsWatch
  BY <1>0, MoveWatch DEF Watching, Registered, Procs
<1>5. \A u : Watched(u) => Watched(u)'
  BY <1>4 DEF Watched, KeepsWatch
<1>6. Watched(user[k])
  BY <1>0 DEF Watched, Watching, Registered
<1> QED  BY <1>0, <1>3, <1>5, <1>6 DEF EveryCallWatched

\* DropCalls: the goroutine stops watching its user, who is in no live call
\* any more.
LEMMA DropWatch ==
  ASSUME ManagerInv, Wiring, EveryCallWatched, NEW k \in Conns, NEW lag \in Lags,
         DropCalls(k, lag)
  PROVE  EveryCallWatched'
<1>0. /\ pc[k] = "dropping" /\ server' = server /\ Disconnect(user[k], lag)
      /\ \A i \in Conns : i # k => pc'[i] = pc[i] /\ user'[i] = user[i]
  BY DEF DropCalls, Wiring, Shapes, Procs
<1>1. user[k] \in Users
  BY <1>0, Named DEF Nameless
<1>2. /\ Quiet
      /\ \A c \in DOMAIN calls' :
            ~Terminal(calls'[c]) => user[k] \notin Participants(calls'[c])
  BY <1>0, <1>1, DisconnectQuiet
<1>3. \A u : u # user[k] /\ Watched(u) => Watched(u)'
  BY <1>0 DEF Watched
<1> QED  BY <1>0, <1>2, <1>3 DEF EveryCallWatched, Quiet, Participants

\* Every step of the server keeps live calls watched.
LEMMA WatchNext ==
  ManagerInv /\ Wiring /\ EveryCallWatched /\ [Next]_vars => EveryCallWatched'
<1> SUFFICES ASSUME ManagerInv, Wiring, EveryCallWatched, [Next]_vars
             PROVE  EveryCallWatched'
  OBVIOUS
<1>1. ASSUME NEW k \in Conns, Serve(k) PROVE EveryCallWatched'
  <2> USE DEF Watching, Registered, Procs
  <2>1. ASSUME NEW x, UNCHANGED mvars, pc' = [pc EXCEPT ![k] = x], user' = user,
               pc[k] \in Watching => x \in Watching, server' = server
        PROVE  EveryCallWatched'
    BY <2>1, MoveWatch, TableAlone, QuietWatch
  <2>2. CASE Connect(k) \/ Refuse(k) \/ WaitDone(k)
    BY <2>1, <2>2 DEF Connect, Refuse, WaitDone
  <2>3. CASE \E u \in Users : Register(k, u)
    <3>1. KeepsWatch /\ UNCHANGED mvars /\ server' = server
      BY <2>3 DEF Register, KeepsWatch, Wiring, Shapes
    <3> QED  BY <3>1, TableAlone, QuietWatch
  <2>4. CASE SendReady(k) \/ ReadFails(k) \/ Unregister(k)
    BY <2>1, <2>4 DEF SendReady, ReadFails, Unregister
  <2>5. CASE CheckContext(k)
    <3>1. CASE server = "up"
      <4>1. user = [user EXCEPT ![k] = user[k]]
        BY DEF Wiring, Shapes
      <4> QED  BY <2>1, <2>5, <3>1, <4>1 DEF CheckContext
    <3>2. CASE server # "up"
      BY <2>5, <3>2 DEF CheckContext, EveryCallWatched
    <3> QED  BY <3>1, <3>2
  <2>6. CASE Answered(k) \/ SendError(k) \/ FindCallee(k) \/ RingCallee(k)
             \/ (\E c \in CallIds, to \in Users : ReceiveInvite(k, c, to))
    BY <2>1, <2>6 DEF Answered, SendError, CanRead, FindCallee, RingCallee, ReceiveInvite
  <2>7. ASSUME NEW lag \in Lags, UndoInvite(k, lag) PROVE EveryCallWatched'
    <3>1. job[k].to \in Users
      BY <2>7 DEF UndoInvite, Wiring, Places, JobFits
    <3>2. Quiet
      BY <2>7, <3>1, DisconnectQuiet DEF UndoInvite
    <3>3. KeepsWatch /\ server' = server
      BY <2>7, MoveWatch DEF UndoInvite
    <3> QED  BY <3>2, <3>3, QuietWatch
  <2> QED  BY <1>1, <2>2, <2>3, <2>4, <2>5, <2>6, <2>7, BookWatch, RelayWatch, DropWatch
           DEF Serve
<1>2. ASSUME NEW p \in Procs, Lookup(p) \/ DeliverTo(p) PROVE EveryCallWatched'
  <2>0. UNCHANGED mvars /\ server' = server
    BY <1>2 DEF Lookup, DeliverTo
  <2>1. KeepsWatch
    <3>0. \A i \in Conns : i \in Procs /\ i # Sweeper
      BY ServerAssumption DEF Procs
    <3>1. CASE p \in Conns /\ pc[p] \in {"farewell", "goodbye"}
      <4>1. pc[p] \notin Watching
        BY <3>1 DEF Watching, Registered
      <4>2. \A i \in Conns : i # p => pc'[i] = pc[i] /\ user'[i] = user[i]
        BY <1>2 DEF Lookup, DeliverTo, Return, Wiring, Shapes, Procs
      <4> QED  BY <4>1, <4>2 DEF KeepsWatch
    <3>2. CASE p \in Conns /\ pc[p] \in {"lookup", "deliver"}
      <4>1. user' = user /\ \E x \in {"deliver", "reading", "reply"} :
                pc' = [pc EXCEPT ![p] = x]
        BY <1>2, <3>0, <3>2 DEF Lookup, DeliverTo, Return
      <4> QED  BY <4>1, MoveWatch DEF Watching, Registered
    <3>3. CASE p = Sweeper
      <4>1. user' = user
        BY <1>2, <3>3 DEF Lookup, DeliverTo, Return, Wiring, Places, SweepPC
      <4>2. \A i \in Conns : pc'[i] = pc[i]
        BY <1>2, <3>0, <3>3 DEF Lookup, DeliverTo, Return, Wiring, Shapes, Procs
      <4> QED  BY <4>1, <4>2 DEF KeepsWatch
    <3> QED  BY <1>2, <3>1, <3>2, <3>3 DEF Procs, Lookup, DeliverTo
  <2> QED  BY <2>0, <2>1, TableAlone, QuietWatch
<1>3. CASE (\E k \in Conns : Background(k)) \/ UNCHANGED vars
  <2>1. UNCHANGED <<mvars, pc, user, server>>
    BY <1>3 DEF Background, Write, Fail, Ping, CloseSlow, HelperStops, vars, cvars
  <2>2. KeepsWatch
    BY <2>1 DEF KeepsWatch
  <2> QED  BY <2>1, <2>2, TableAlone, QuietWatch
<1>4. CASE Sweeping
  <2>0. Sweeper \in Procs /\ \A i \in Conns : i \in Procs /\ i # Sweeper
    BY ServerAssumption DEF Procs
  <2>1. KeepsWatch /\ server' = server
    <3>1. user' = user /\ server' = server /\ \E x : pc' = [pc EXCEPT ![Sweeper] = x]
      BY <1>4 DEF Sweeping, SweepCalls, PickNotice, SweepStops
    <3>2. \A i \in Conns : pc'[i] = pc[i]
      BY <2>0, <3>1 DEF Wiring, Shapes
    <3> QED  BY <3>1, <3>2 DEF KeepsWatch
  <2>2. Quiet
    BY <1>4, ExpireQuiet, TableAlone DEF Sweeping, SweepCalls, PickNotice, SweepStops
  <2> QED  BY <2>1, <2>2, QuietWatch
<1>5. CASE CancelContext \/ CloseAll
  BY <1>5 DEF CancelContext, CloseAll, EveryCallWatched
<1>6. CASE TimePasses
  <2>1. Quiet /\ UNCHANGED <<pc, user, server>>
    BY <1>6, TickQuiet DEF TimePasses, cvars
  <2>2. KeepsWatch
    BY <2>1 DEF KeepsWatch
  <2> QED  BY <2>1, <2>2, QuietWatch
<1> QED  BY <1>1, <1>2, <1>3, <1>4, <1>5, <1>6 DEF Next

----------------------------------------------------------------------------
\* The inductive invariant of the server.
THEOREM ServerInvariant == Spec => []ServerInv
<1>1. Init => ServerInv
  <2> SUFFICES ASSUME Init PROVE ServerInv
    OBVIOUS
  <2>0. Sweeper \in Procs /\ \A i \in Conns : i \in Procs
    BY DEF Procs
  <2>1. ManagerInv
    BY NewInv DEF Init
  <2>2. Queues
    BY ServerAssumption DEF Init, Queues
  <2>3. Shapes
    BY NoJobOK DEF Init, Shapes, ConnPC
  <2>4. Places
    BY <2>0 DEF Init, Places, ConnPC, SweepPC, Nameless, JobFits
  <2>5. RegistryOwned
    BY <2>0 DEF Init, RegistryOwned, Registered
  <2>6. EveryCallWatched
    BY DEF Init, New, EveryCallWatched
  <2>7. Helping
    BY <2>0 DEF Init, Helping
  <2> QED  BY <2>1, <2>2, <2>3, <2>4, <2>5, <2>6, <2>7 DEF ServerInv, Wiring
<1>2. ServerInv /\ [Next]_vars => ServerInv'
  BY ManagerStep, NextInv, QueuesNext, WiringNext, HelpingNext, WatchNext DEF ServerInv
<1> QED  BY <1>1, <1>2, PTL DEF Spec

\* Every variable of the server keeps its type; no send queue ever holds more
\* than QueueSize messages.
THEOREM ServerTypes == Spec => []TypeOK
<1>1. ServerInv => TypeOK
  BY DEF ServerInv, ManagerInv, Queues, Wiring, Shapes, Helping, TypeOK
<1> QED  BY <1>1, ServerInvariant, PTL

\* For any number of connections and users: a username is in the registry
\* exactly while one serve goroutine owns it, so none is left behind and none
\* is served twice.
THEOREM RegistryIsOwned == Spec => []RegistryOwned
<1>1. ServerInv => RegistryOwned
  BY DEF ServerInv, Wiring
<1> QED  BY <1>1, ServerInvariant, PTL

\* For any number of connections, users and calls: while the server is up every
\* live call has a goroutine that will end it when its client goes away.
THEOREM CallsAreWatched == Spec => []EveryCallWatched
<1>1. ServerInv => EveryCallWatched
  BY DEF ServerInv
<1> QED  BY <1>1, ServerInvariant, PTL

\* However its goroutines interleave, the server uses the call table only
\* through the manager's methods with users and calls of the right kind: the
\* manager's specification, and with it every theorem about it, holds inside
\* the server.
THEOREM ServerUsesTable == Spec => ManagerSpec
<1>1. Init => ManagerInit
  BY DEF Init, ManagerInit
<1>2. ServerInv /\ [Next]_vars => [ManagerNext]_mvars
  BY ManagerStep DEF ServerInv
<1> QED  BY <1>1, <1>2, ServerInvariant, PTL DEF Spec, ManagerSpec

\* The whole server implements the contract about calls.
THEOREM ServerImplementsContract == Spec => ImplementsContract
  BY ServerUsesTable, TableImplementsContract, PTL
=============================================================================
