---------------------------- MODULE SignalServer ----------------------------
(***************************************************************************)
(* The signaling server: internal/server/websocket/server.go with the      *)
(* registry of internal/server/presence/registry.go, around the call table *)
(* of CallManager.                                                         *)
(*                                                                         *)
(* A process is the serve goroutine of a connection, or the sweeper.  An   *)
(* action is the code between two points where another goroutine can get   *)
(* in: a method of the registry or of the call table (each holds its lock  *)
(* throughout), one Deliver (one select), one read.  What the writer, the  *)
(* heartbeat and the asynchronous Close do are actions of their own, and   *)
(* serve waits for the first two before it returns.                        *)
(*                                                                         *)
(* Abstracted: what a proof, the rate limiters, the duplicate filter and   *)
(* the validator decide (a message is let through or answered with an      *)
(* error; Admission models the proofs), and the contents of the           *)
(* queued messages: a queue is how full it is, since no step of the server *)
(* looks at a message again.  A connection identity is reused once no      *)
(* goroutine holds a pointer to it, as garbage collection guarantees.      *)
(***************************************************************************)
EXTENDS CallManager

CONSTANTS
    Conns,      \* connection objects
    NoConn, NoUser, NoCall,
    Sweeper,    \* the process of sweepLoop
    Signals,    \* the call signals the clients send in this instance
    QueueSize   \* Config.QueueSize, the bound of clientConnection.send

CallSignals == {"ACCEPT", "DECLINE", "CANCEL", "OFFER", "ANSWER",
                "ICE", "ICE_COMPLETE", "END"}

ASSUME ServerAssumption ==
    /\ NoConn \notin Conns /\ Sweeper \notin Conns
    /\ NoUser \notin Users /\ NoCall \notin CallIds
    /\ Signals \subseteq CallSignals
    /\ QueueSize \in Nat \ {0}

VARIABLES
    presence,  \* Registry.users: a partial function from Users to Conns
    pc,        \* where each process is
    user,      \* clientConnection.username, set by the handshake
    closed,    \* clientConnection.done is closed
    doomed,    \* connections with a "go c.Close()" under way
    backlog,   \* the number of messages in clientConnection.send
    helpers,   \* clientConnection.wg: writeLoop and heartbeatLoop, if running
    job,       \* the locals of dispatch, disconnect and sweepLoop
    notices,   \* calls the sweeper has expired and not yet announced
    server     \* "up", "cancelled" (context cancelled), "down" (CloseAll done)

cvars == <<presence, pc, user, closed, doomed, backlog, helpers, job, notices, server>>
vars == <<mvars, cvars>>

Procs == Conns \union {Sweeper}

\* From Register to Unregister; and until calls.Disconnect has run.
Registered == {"ready", "reading", "find", "book", "ring", "undo", "confirm",
               "lookup", "deliver", "reply", "leaving"}
Watching == Registered \union {"parting", "dropping"}
ConnPC == Watching \union {"idle", "hello", "farewell", "goodbye", "waiting"}
SweepPC == {"idle", "pick", "lookup", "deliver", "stopped"}

\* then: whom the sweeper tells next about the same call.
Job == [call : CallIds \union {NoCall}, to : Users \union {NoUser},
        target : Conns \union {NoConn}, then : Users \union {NoUser}]
NoJob == [call |-> NoCall, to |-> NoUser, target |-> NoConn, then |-> NoUser]
Tell(c, to) == [NoJob EXCEPT !.call = c, !.to = to]

----------------------------------------------------------------------------
\* clientConnection.Deliver and Close.

Room(k) == backlog[k] < QueueSize

\* Mutant: the bound of the queue is not looked at.
DeliverUnbounded(k) ==
    backlog' = IF closed[k] THEN backlog ELSE [backlog EXCEPT ![k] = @ + 1]

\* The message goes into the queue.  If the connection is closed as well,
\* select may still choose the queue; nobody reads it any more.
DeliverOK(k) ==
    /\ closed[k] \/ Room(k)
    /\ backlog' = IF closed[k] THEN backlog ELSE [backlog EXCEPT ![k] = @ + 1]

DeliverFails(k) == closed[k] \/ ~Room(k)

\* A Deliver that finds the queue full starts an asynchronous Close.
Dooms(k) == doomed' = IF closed[k] THEN doomed ELSE doomed \union {k}

\* Close; the queue of a closed connection is never read again.
CloseConns(K) ==
    /\ closed' = [k \in Conns |-> closed[k] \/ k \in K]
    /\ backlog' = [k \in Conns |-> IF k \in K THEN 0 ELSE backlog[k]]

----------------------------------------------------------------------------
\* serve: connection, handshake, disconnection.

Init ==
    /\ New
    /\ presence = [u \in {} |-> u]
    /\ pc = [p \in Procs |-> "idle"]
    /\ user = [k \in Conns |-> NoUser]
    /\ closed = [k \in Conns |-> TRUE]
    /\ doomed = {}
    /\ backlog = [k \in Conns |-> 0]
    /\ helpers = [k \in Conns |-> 0]
    /\ job = [p \in Procs |-> NoJob]
    /\ notices = {}
    /\ server = "up"

\* handleWebSocket: a fresh connection object (main stops the listener before
\* Shutdown), whose serve goroutine starts writeLoop.
Connect(k) ==
    /\ pc[k] = "idle" /\ server = "up"
    /\ k \notin doomed /\ \A p \in Procs : job[p].target # k
    /\ pc' = [pc EXCEPT ![k] = "hello"]
    /\ closed' = [closed EXCEPT ![k] = FALSE]
    /\ helpers' = [helpers EXCEPT ![k] = 1]
    /\ UNCHANGED <<mvars, presence, user, doomed, backlog, job, notices, server>>

\* The hello is missing, late, invalid or replayed, or its username is taken:
\* serve returns and disconnect finds nothing registered.
Refuse(k) ==
    /\ pc[k] = "hello"
    /\ pc' = [pc EXCEPT ![k] = "waiting"]
    /\ CloseConns({k})
    /\ UNCHANGED <<mvars, presence, user, doomed, helpers, job, notices, server>>

\* Mutant: a second connection takes the username over.
RegisterOver(k, u) ==
    /\ pc[k] = "hello"
    /\ presence' = Put(presence, u, k)
    /\ user' = [user EXCEPT ![k] = u]
    /\ pc' = [pc EXCEPT ![k] = "ready"]
    /\ UNCHANGED <<mvars, closed, doomed, backlog, helpers, job, notices, server>>

\* presence.Register succeeds.
Register(k, u) ==
    /\ pc[k] = "hello"
    /\ u \notin DOMAIN presence
    /\ presence' = Put(presence, u, k)
    /\ user' = [user EXCEPT ![k] = u]
    /\ pc' = [pc EXCEPT ![k] = "ready"]
    /\ UNCHANGED <<mvars, closed, doomed, backlog, helpers, job, notices, server>>

\* session.ready goes out after the registry already shows the client, and
\* heartbeatLoop starts; if it cannot be queued, serve returns.
SendReady(k) ==
    /\ pc[k] = "ready"
    /\ \/ /\ DeliverOK(k)
          /\ pc' = [pc EXCEPT ![k] = "reading"]
          /\ helpers' = [helpers EXCEPT ![k] = @ + 1]
          /\ UNCHANGED closed
       \/ /\ DeliverFails(k)
          /\ pc' = [pc EXCEPT ![k] = "leaving"]
          /\ CloseConns({k})
          /\ UNCHANGED helpers
    /\ UNCHANGED <<mvars, presence, user, doomed, job, notices, server>>

\* Mutant: conn.Read is not given the context of the server.
ReadFailsClosed(k) ==
    /\ pc[k] = "reading" /\ closed[k]
    /\ pc' = [pc EXCEPT ![k] = "leaving"]
    /\ CloseConns({k})
    /\ UNCHANGED <<mvars, presence, user, doomed, helpers, job, notices, server>>

\* conn.Read fails: the peer is gone, the connection was closed or the server
\* is shutting down.  disconnect starts with Close.
ReadFails(k) ==
    /\ pc[k] = "reading"
    /\ pc' = [pc EXCEPT ![k] = "leaving"]
    /\ CloseConns({k})
    /\ UNCHANGED <<mvars, presence, user, doomed, helpers, job, notices, server>>

Unregister(k) ==
    /\ pc[k] = "leaving"
    /\ presence' = IF user[k] \in DOMAIN presence /\ presence[user[k]] = k
                   THEN Delete(presence, {user[k]}) ELSE presence
    /\ pc' = [pc EXCEPT ![k] = "parting"]
    /\ UNCHANGED <<mvars, user, closed, doomed,
                   backlog, helpers, job, notices, server>>

\* During shutdown disconnect leaves the call table alone.
CheckContext(k) ==
    /\ pc[k] = "parting"
    /\ pc' = [pc EXCEPT ![k] = IF server = "up" THEN "dropping" ELSE "waiting"]
    /\ user' = [user EXCEPT ![k] = IF server = "up" THEN @ ELSE NoUser]
    /\ UNCHANGED <<mvars, presence, closed, doomed,
                   backlog, helpers, job, notices, server>>

\* Mutant: the calls of the user are left alone.
DropNothing(k, lag) ==
    /\ pc[k] = "dropping"
    /\ pc' = [pc EXCEPT ![k] = "waiting"]
    /\ user' = [user EXCEPT ![k] = NoUser]
    /\ UNCHANGED <<mvars, presence, closed, doomed,
                   backlog, helpers, job, notices, server>>

\* calls.Disconnect ends the user's call, whichever connection it came from.
DropCalls(k, lag) ==
    /\ pc[k] = "dropping"
    /\ Disconnect(user[k], lag)
    /\ IF Dropped(user[k]) = {}
       THEN /\ pc' = [pc EXCEPT ![k] = "waiting"]
            /\ user' = [user EXCEPT ![k] = NoUser]
            /\ UNCHANGED job
       ELSE \E c \in Dropped(user[k]) :
            \E other \in Participants(calls[c]) \ {user[k]} :
              /\ pc' = [pc EXCEPT ![k] = "farewell"]
              /\ job' = [job EXCEPT ![k] = Tell(c, other)]
              /\ UNCHANGED user
    /\ UNCHANGED <<presence, closed, doomed, backlog, helpers, notices, server>>

\* client.wg.Wait() returns, and with it serve; nothing looks at the username
\* after disconnect.
WaitDone(k) ==
    /\ pc[k] = "waiting" /\ helpers[k] = 0
    /\ pc' = [pc EXCEPT ![k] = "idle"]
    /\ UNCHANGED <<mvars, presence, user, closed, doomed,
                   backlog, helpers, job, notices, server>>

----------------------------------------------------------------------------
\* dispatch.

\* conn.Read(s.ctx) returns a message.  A message that is dispatched while the
\* connection closes is one dispatched before: dispatch does not look at done.
CanRead(k) == pc[k] = "reading" /\ ~closed[k] /\ server = "up"

\* dispatch ends with an answer to its own client: session.pong,
\* presence.result, call.busy, or call.ringing, which comes after the callee
\* may have answered already.  If it cannot be queued, dispatch fails.
Answered(k) ==
    /\ CanRead(k) \/ pc[k] = "confirm"
    /\ job' = [job EXCEPT ![k] = NoJob]
    /\ \/ /\ DeliverOK(k)
          /\ pc' = [pc EXCEPT ![k] = "reading"]
          /\ UNCHANGED doomed
       \/ /\ DeliverFails(k)
          /\ Dooms(k)
          /\ pc' = [pc EXCEPT ![k] = "reply"]
          /\ UNCHANGED backlog
    /\ UNCHANGED <<mvars, presence, user, closed, helpers, notices, server>>

\* sendError: a message is refused, or dispatch has failed.
SendError(k) ==
    /\ CanRead(k) \/ pc[k] = "reply"
    /\ \/ DeliverOK(k) /\ UNCHANGED doomed
       \/ DeliverFails(k) /\ Dooms(k) /\ UNCHANGED backlog
    /\ pc' = [pc EXCEPT ![k] = "reading"]
    /\ UNCHANGED <<mvars, presence, user, closed, helpers, job, notices, server>>

\* call.invite has passed its proof and its rate limits.
ReceiveInvite(k, c, to) ==
    /\ CanRead(k)
    /\ pc' = [pc EXCEPT ![k] = "find"]
    /\ job' = [job EXCEPT ![k] = Tell(c, to)]
    /\ UNCHANGED <<mvars, presence, user, closed, doomed,
                   backlog, helpers, notices, server>>

\* presence.Get(message.To)
FindCallee(k) ==
    /\ pc[k] = "find"
    /\ IF job[k].to \in DOMAIN presence
       THEN /\ pc' = [pc EXCEPT ![k] = "book"]
            /\ job' = [job EXCEPT ![k].target = presence[job[k].to]]
       ELSE /\ pc' = [pc EXCEPT ![k] = "reply"]
            /\ job' = [job EXCEPT ![k] = NoJob]
    /\ UNCHANGED <<mvars, presence, user, closed, doomed,
                   backlog, helpers, notices, server>>

\* calls.Invite; call.busy is an answer, any other refusal an error.
BookCall(k, lag) ==
    /\ pc[k] = "book"
    /\ LET verdict == InviteVerdict(job[k].call, user[k], job[k].to) IN
       IF verdict = "OK"
       THEN /\ Invite(job[k].call, user[k], job[k].to, lag)
            /\ pc' = [pc EXCEPT ![k] = "ring"]
            /\ UNCHANGED job
       ELSE /\ pc' = [pc EXCEPT ![k] = IF verdict = "BUSY" THEN "confirm" ELSE "reply"]
            /\ job' = [job EXCEPT ![k] = NoJob]
            /\ UNCHANGED mvars
    /\ UNCHANGED <<presence, user, closed, doomed,
                   backlog, helpers, notices, server>>

\* target.Deliver(invite), with the target found before the call was booked.
RingCallee(k) ==
    /\ pc[k] = "ring"
    /\ \/ /\ DeliverOK(job[k].target)
          /\ pc' = [pc EXCEPT ![k] = "confirm"]
          /\ UNCHANGED closed
       \/ /\ DeliverFails(job[k].target)
          /\ CloseConns({job[k].target})
          /\ pc' = [pc EXCEPT ![k] = "undo"]
    /\ UNCHANGED <<mvars, presence, user, doomed, helpers, job, notices, server>>

\* calls.Disconnect(message.To): ends whatever call the callee is in now.
UndoInvite(k, lag) ==
    /\ pc[k] = "undo"
    /\ Disconnect(job[k].to, lag)
    /\ pc' = [pc EXCEPT ![k] = "reply"]
    /\ job' = [job EXCEPT ![k] = NoJob]
    /\ UNCHANGED <<presence, user, closed, doomed,
                   backlog, helpers, notices, server>>

\* calls.Transition with the signal of a client.
ApplySignal(type, c, u, v, lag) ==
    \/ type = "ACCEPT" /\ Accept(c, u, v, lag)
    \/ type = "DECLINE" /\ Decline(c, u, v, lag)
    \/ type = "CANCEL" /\ Cancel(c, u, v, lag)
    \/ type = "OFFER" /\ Offer(c, u, v, lag)
    \/ type = "ANSWER" /\ Answer(c, u, v)
    \/ type = "ICE" /\ ICECandidate(c, u, v)
    \/ type = "ICE_COMPLETE" /\ ICEComplete(c, u, v)
    \/ type = "END" /\ End(c, u, v, lag)

\* Any other call signal: Transition, then deliverTo.
Relay(k, type, c, to, lag) ==
    /\ CanRead(k)
    /\ ApplySignal(type, c, user[k], to, lag)
    /\ pc' = [pc EXCEPT ![k] = "lookup"]
    /\ job' = [job EXCEPT ![k] = Tell(c, to)]
    /\ UNCHANGED <<presence, user, closed, doomed,
                   backlog, helpers, notices, server>>

----------------------------------------------------------------------------
\* deliverTo, shared by dispatch, disconnect and the sweeper.

\* What the process does when deliverTo returns: dispatch reports a failure to
\* its client, disconnect is done and serve waits, the sweeper goes on with its list.
Return(p, ok) ==
    /\ pc' = [pc EXCEPT ![p] =
          CASE p = Sweeper -> IF job[p].then # NoUser THEN "lookup" ELSE "pick"
            [] p # Sweeper /\ pc[p] \in {"farewell", "goodbye"} -> "waiting"
            [] OTHER -> IF ok THEN "reading" ELSE "reply"]
    /\ job' = [job EXCEPT ![p] =
          IF p = Sweeper /\ @.then # NoUser
          THEN [@ EXCEPT !.to = job[p].then, !.target = NoConn, !.then = NoUser]
          ELSE NoJob]
    /\ user' = IF pc[p] \in {"farewell", "goodbye"}
               THEN [user EXCEPT ![p] = NoUser] ELSE user

\* presence.Get(username)
Lookup(p) ==
    /\ pc[p] \in {"lookup", "farewell"}
    /\ IF job[p].to \in DOMAIN presence
       THEN /\ job' = [job EXCEPT ![p].target = presence[job[p].to]]
            /\ pc' = [pc EXCEPT ![p] =
                  IF pc[p] = "farewell" THEN "goodbye" ELSE "deliver"]
            /\ UNCHANGED user
       ELSE Return(p, FALSE)
    /\ UNCHANGED <<mvars, presence, closed, doomed,
                   backlog, helpers, notices, server>>

\* target.Deliver(message), and target.Close() if it fails.
DeliverTo(p) ==
    /\ pc[p] \in {"deliver", "goodbye"}
    /\ \/ /\ DeliverOK(job[p].target)
          /\ UNCHANGED closed
          /\ Return(p, TRUE)
       \/ /\ DeliverFails(job[p].target)
          /\ CloseConns({job[p].target})
          /\ Return(p, FALSE)
    /\ UNCHANGED <<mvars, presence, doomed, helpers, notices, server>>

----------------------------------------------------------------------------
\* The other goroutines of a connection, the sweeper, and Shutdown.

\* writeLoop writes the oldest message.
Write(k) ==
    /\ ~closed[k] /\ backlog[k] > 0
    /\ backlog' = [backlog EXCEPT ![k] = @ - 1]
    /\ UNCHANGED <<mvars, presence, pc, user, closed, doomed,
                   helpers, job, notices, server>>

\* Close from elsewhere: a write failed or timed out, the client was idle too
\* long, or a ping could not be queued.
Fail(k) ==
    /\ pc[k] \notin {"idle", "hello"} /\ ~closed[k]
    /\ CloseConns({k})
    /\ UNCHANGED <<mvars, presence, pc, user, doomed,
                   helpers, job, notices, server>>

\* heartbeatLoop queues a ping.
Ping(k) ==
    /\ pc[k] \notin {"idle", "hello", "ready"} /\ ~closed[k] /\ Room(k)
    /\ DeliverOK(k)
    /\ UNCHANGED <<mvars, presence, pc, user, closed, doomed,
                   helpers, job, notices, server>>

\* writeLoop or heartbeatLoop returns: both see done, and close the connection
\* themselves before they return after an error.
HelperStops(k) ==
    /\ closed[k] /\ helpers[k] > 0
    /\ helpers' = [helpers EXCEPT ![k] = @ - 1]
    /\ UNCHANGED <<mvars, presence, pc, user, closed, doomed,
                   backlog, job, notices, server>>

\* The goroutine of "go c.Close()".
CloseSlow(k) ==
    /\ k \in doomed
    /\ doomed' = doomed \ {k}
    /\ CloseConns({k})
    /\ UNCHANGED <<mvars, presence, pc, user, helpers, job, notices, server>>

\* A tick of sweepLoop.
SweepCalls(lag) ==
    /\ pc[Sweeper] = "idle" /\ server = "up"
    /\ Expire(lag)
    /\ notices' = {[call |-> c, first |-> calls[c].caller, second |-> calls[c].callee] :
                      c \in Expired(lag)}
    /\ pc' = [pc EXCEPT ![Sweeper] = "pick"]
    /\ UNCHANGED <<presence, user, closed, doomed, backlog, helpers, job, server>>

\* The next expired call, in the order of a Go map; or the end of the list.
PickNotice ==
    /\ pc[Sweeper] = "pick"
    /\ IF notices = {}
       THEN /\ pc' = [pc EXCEPT ![Sweeper] = "idle"]
            /\ UNCHANGED <<job, notices>>
       ELSE \E n \in notices :
              /\ pc' = [pc EXCEPT ![Sweeper] = "lookup"]
              /\ job' = [job EXCEPT ![Sweeper] =
                    [Tell(n.call, n.first) EXCEPT !.then = n.second]]
              /\ notices' = notices \ {n}
    /\ UNCHANGED <<mvars, presence, user, closed, doomed, backlog, server, helpers>>

SweepStops ==
    /\ pc[Sweeper] = "idle" /\ server # "up"
    /\ pc' = [pc EXCEPT ![Sweeper] = "stopped"]
    /\ UNCHANGED <<mvars, presence, user, closed, doomed,
                   backlog, helpers, job, notices, server>>

\* Shutdown cancels the context, then closes every registered endpoint.
CancelContext ==
    /\ server = "up"
    /\ server' = "cancelled"
    /\ UNCHANGED <<mvars, presence, pc, user, closed, doomed,
                   backlog, helpers, job, notices>>

CloseAll ==
    /\ server = "cancelled"
    /\ server' = "down"
    /\ CloseConns({presence[u] : u \in DOMAIN presence})
    /\ UNCHANGED <<mvars, presence, pc, user, doomed, helpers, job, notices>>

TimePasses == Tick /\ UNCHANGED cvars

----------------------------------------------------------------------------
Serve(k) ==
    \/ Connect(k)
    \/ Refuse(k)
    \/ \E u \in Users : Register(k, u)
    \/ SendReady(k)
    \/ ReadFails(k)
    \/ Unregister(k)
    \/ CheckContext(k)
    \/ \E lag \in Lags : DropCalls(k, lag)
    \/ WaitDone(k)
    \/ Answered(k)
    \/ SendError(k)
    \/ \E c \in CallIds, to \in Users : ReceiveInvite(k, c, to)
    \/ FindCallee(k)
    \/ \E lag \in Lags : BookCall(k, lag)
    \/ RingCallee(k)
    \/ \E lag \in Lags : UndoInvite(k, lag)
    \/ \E type \in Signals, c \in CallIds, to \in Users, lag \in Lags :
          Relay(k, type, c, to, lag)

Background(k) == Write(k) \/ Fail(k) \/ Ping(k) \/ CloseSlow(k) \/ HelperStops(k)

Sweeping == (\E lag \in Lags : SweepCalls(lag)) \/ PickNotice \/ SweepStops

Next ==
    \/ \E k \in Conns : Serve(k)
    \/ \E p \in Procs : Lookup(p)
    \/ \E p \in Procs : DeliverTo(p)
    \/ \E k \in Conns : Background(k)
    \/ Sweeping
    \/ CancelContext
    \/ CloseAll
    \/ TimePasses

Spec == Init /\ [][Next]_vars

\* The steps a serve goroutine takes on its own: the hello is awaited with a
\* timeout, a read fails at once on a closed connection or cancelled context,
\* and everything else is code that runs.  Its helpers have to stop only while
\* it waits for them.
Progress(k) ==
    \/ Refuse(k) \/ (\E u \in Users : Register(k, u))
    \/ SendReady(k)
    \/ (closed[k] \/ server # "up") /\ ReadFails(k)
    \/ Unregister(k) \/ CheckContext(k) \/ (\E lag \in Lags : DropCalls(k, lag))
    \/ WaitDone(k)
    \/ pc[k] = "waiting" /\ HelperStops(k)
    \/ pc[k] = "confirm" /\ Answered(k)
    \/ pc[k] = "reply" /\ SendError(k)
    \/ FindCallee(k) \/ (\E lag \in Lags : BookCall(k, lag)) \/ RingCallee(k)
    \/ (\E lag \in Lags : UndoInvite(k, lag))
    \/ Lookup(k) \/ DeliverTo(k)

\* Goroutines are scheduled, tickers tick, Shutdown finishes.  Clients owe
\* nothing: they need not send, answer or stay.
Fairness ==
    /\ \A k \in Conns : WF_vars(Progress(k)) /\ WF_vars(CloseSlow(k))
    /\ WF_vars(Sweeping \/ Lookup(Sweeper) \/ DeliverTo(Sweeper))
    /\ WF_vars(CloseAll)
    /\ WF_vars(TimePasses)

FairSpec == Spec /\ Fairness

----------------------------------------------------------------------------
\* Type invariant.
TypeOK ==
    /\ ManagerTypeOK
    /\ DOMAIN presence \subseteq Users
    /\ presence \in [DOMAIN presence -> Conns]
    /\ pc \in [Procs -> ConnPC \union SweepPC]
    /\ user \in [Conns -> Users \union {NoUser}]
    /\ closed \in [Conns -> BOOLEAN]
    /\ doomed \subseteq Conns
    /\ backlog \in [Conns -> 0..QueueSize]
    /\ helpers \in [Conns -> 0..2]
    /\ job \in [Procs -> Job]
    /\ notices \subseteq [call : CallIds, first : Users, second : Users]
    /\ server \in {"up", "cancelled", "down"}

\* The registry shows a connection exactly while its serve goroutine is
\* between Register and Unregister: no entry is left behind by a goroutine
\* that has finished (nobody else would remove it and the username would be
\* taken for ever), and two connections never serve the same username.
RegistryOwned ==
    \A u \in Users, k \in Conns :
        (u \in DOMAIN presence /\ presence[u] = k)
          <=> (pc[k] \in Registered /\ user[k] = u)

Watched(u) == \E k \in Conns : user[k] = u /\ pc[k] \in Watching

\* While the server is up, every live call is in reach of a goroutine that
\* will end it: its caller has a connection whose calls.Disconnect is still
\* to come, and so has its callee unless the call is only ringing, when it has
\* a deadline.  A connected call has no deadline, so without this both users
\* could stay busy for ever.  The presence lookup before calls.Invite is
\* stale when it is used, which is why a ringing callee need not be there.
EveryCallWatched ==
    server = "up" =>
        \A c \in DOMAIN calls :
            ~Terminal(calls[c]) =>
                /\ Watched(calls[c].caller)
                /\ Watched(calls[c].callee) \/ calls[c].state = "RINGING"

\* A client reads session.ready first and gives up on anything else
\* (signaling/client.go: ErrUnexpectedHello).
ReadyFirst == \A k \in Conns : pc[k] = "ready" => backlog[k] = 0

\* A call does not outlive the absence of one of its users: it is over at some
\* point, or the user is back, or the server stops.
AbandonedCallEnds ==
    \A c \in CallIds, u \in Users :
        (/\ c \in DOMAIN calls /\ ~Terminal(calls[c])
         /\ u \in Participants(calls[c]) /\ u \notin DOMAIN presence)
          ~> \/ c \notin DOMAIN calls \/ Terminal(calls[c])
             \/ u \in DOMAIN presence
             \/ server # "up"

\* No goroutine of the server is left: serve and sweepLoop, which Shutdown waits
\* for, and writeLoop and heartbeatLoop, which serve waits for.
Drained ==
    /\ \A k \in Conns : pc[k] = "idle" /\ helpers[k] = 0
    /\ pc[Sweeper] = "stopped"

\* Shutdown's WaitGroup drains, and every connection's with it: whatever the
\* goroutines were doing when the context was cancelled, they all stop.
ShutdownDrains == server # "up" ~> Drained
=============================================================================
