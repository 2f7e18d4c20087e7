---------------------------- MODULE CallManager ----------------------------
(***************************************************************************)
(* The call table of the signaling server, internal/server/calls/manager.go *)
(*                                                                         *)
(* Manager.mu is held for the whole of every method, so a method is one    *)
(* action.  A method that returns an error changes nothing: its guard is   *)
(* the negation of the code's early returns, and a failed call is a        *)
(* stuttering step.  The server module calls the same operators.           *)
(*                                                                         *)
(* Time.  The code compares instants only with the current one, so an      *)
(* instant is kept as the time left until it; Tick lets one unit pass.     *)
(* Nothing else bounds time: behaviours are infinite and no clock is       *)
(* capped.  The caller of a method reads the clock before it takes the     *)
(* lock, so a method works with a time up to MaxLag units old (lag).       *)
(* Instants further in the past than that are all alike.                   *)
(*                                                                         *)
(* CreatedAt and UpdatedAt are written and never read: left out.           *)
(***************************************************************************)
EXTENDS Integers, FiniteSets

CONSTANTS
    Users,               \* usernames
    CallIds,             \* call identifiers, chosen by the callers
    NoTime,              \* the zero time.Time
    RingTimeout,         \* Config.RingTimeout, in ticks
    NegotiationTimeout,  \* Config.NegotiationTimeout
    CleanupAfter,        \* Config.CleanupAfter
    MaxICECandidates,    \* protocol.MaxICECandidates
    MaxLag               \* bound on the age of the time a method is given

ASSUME TimeAssumption ==
    /\ NoTime \notin Int
    /\ RingTimeout \in Nat \ {0}
    /\ NegotiationTimeout \in Nat \ {0}
    /\ CleanupAfter \in Nat \ {0}
    /\ MaxLag \in Nat

ASSUME LimitAssumption == MaxICECandidates \in Nat \ {0}

VARIABLES
    calls,   \* Manager.calls: a partial function from CallIds to Call
    active   \* Manager.active: a partial function from Users to CallIds

mvars == <<calls, active>>

Lags == 0..MaxLag

Establishing == {"RINGING", "ACCEPTED", "NEGOTIATING"}
TerminalStates == {"DECLINED", "CANCELLED", "TIMED_OUT", "ENDED"}
State == Establishing \union {"CONNECTED"} \union TerminalStates

Instant == {i \in Int : i >= -MaxLag} \union {NoTime}

Call == [caller : Users, callee : Users, state : State,
         deadline : Instant, cleanupAt : Instant,
         callerCandidates : 0..MaxICECandidates,
         calleeCandidates : 0..MaxICECandidates]

----------------------------------------------------------------------------
\* Go maps as partial functions.

Put(f, k, v) == [x \in DOMAIN f \union {k} |-> IF x = k THEN v ELSE f[x]]
Delete(f, K) == [x \in DOMAIN f \ K |-> f[x]]

Terminal(call) == call.state \in TerminalStates

Participants(call) == {call.caller, call.callee}

\* Call.Other(actor) succeeds and returns recipient.
Between(c, actor, recipient) ==
    /\ c \in DOMAIN calls
    /\ \/ actor = calls[c].caller /\ recipient = calls[c].callee
       \/ actor = calls[c].callee /\ recipient = calls[c].caller

setState(call, state, deadline) ==
    [call EXCEPT !.state = state, !.deadline = deadline]

\* Mutant: the cleanup time is forgotten.
finishedForGood(call, state, lag) == setState(call, state, NoTime)

finished(call, state, lag) ==
    [setState(call, state, NoTime) EXCEPT !.cleanupAt = CleanupAfter - lag]

\* Mutant: only the caller becomes free.
finishCaller(c, state, lag) ==
    /\ calls' = [calls EXCEPT ![c] = finished(@, state, lag)]
    /\ active' = Delete(active, {calls[c].caller})

\* finish: the call is over and both of its users are free.
finish(c, state, lag) ==
    /\ calls' = [calls EXCEPT ![c] = finished(@, state, lag)]
    /\ active' = Delete(active, Participants(calls[c]))

----------------------------------------------------------------------------
\* The methods of Manager.

New ==
    /\ calls = [c \in {} |-> c]
    /\ active = [u \in {} |-> u]

\* Mutant: only the caller is looked up among the busy users.
InviteVerdictCaller(c, caller, callee) ==
    CASE caller = callee -> "INVALID"
      [] caller # callee /\ c \in DOMAIN calls -> "EXISTS"
      [] caller # callee /\ c \notin DOMAIN calls /\ caller \in DOMAIN active -> "BUSY"
      [] OTHER -> "OK"

\* What Invite answers.
InviteVerdict(c, caller, callee) ==
    CASE caller = callee                  -> "INVALID"
      [] caller # callee /\ c \in DOMAIN calls -> "EXISTS"
      [] /\ caller # callee
         /\ c \notin DOMAIN calls
         /\ {caller, callee} \intersect DOMAIN active # {} -> "BUSY"
      [] OTHER                            -> "OK"

Invite(c, caller, callee, lag) ==
    /\ InviteVerdict(c, caller, callee) = "OK"
    /\ calls' = Put(calls, c,
            [caller |-> caller, callee |-> callee, state |-> "RINGING",
             deadline |-> RingTimeout - lag, cleanupAt |-> NoTime,
             callerCandidates |-> 0, calleeCandidates |-> 0])
    /\ active' = Put(Put(active, caller, c), callee, c)

\* Transition with call.accept.
Accept(c, actor, recipient, lag) ==
    /\ Between(c, actor, recipient)
    /\ calls[c].state = "RINGING"
    /\ actor = calls[c].callee
    /\ calls' = [calls EXCEPT ![c] =
            setState(@, "ACCEPTED", NegotiationTimeout - lag)]
    /\ UNCHANGED active

\* Transition with call.decline.
Decline(c, actor, recipient, lag) ==
    /\ Between(c, actor, recipient)
    /\ calls[c].state = "RINGING"
    /\ actor = calls[c].callee
    /\ finish(c, "DECLINED", lag)

\* Transition with call.cancel.
Cancel(c, actor, recipient, lag) ==
    /\ Between(c, actor, recipient)
    /\ calls[c].state = "RINGING"
    /\ actor = calls[c].caller
    /\ finish(c, "CANCELLED", lag)

\* Mutant: every offer gets a fresh candidate budget.
OfferResets(c, actor, recipient, lag) ==
    /\ Between(c, actor, recipient)
    /\ calls[c].state \in {"ACCEPTED", "CONNECTED"}
    /\ actor = calls[c].caller
    /\ calls' = [calls EXCEPT ![c] =
            [setState(@, "NEGOTIATING", NegotiationTimeout - lag)
                EXCEPT !.callerCandidates = 0, !.calleeCandidates = 0]]
    /\ UNCHANGED active

\* Transition with webrtc.offer: a second offer while connected is an ICE
\* restart and gets a fresh candidate budget.
Offer(c, actor, recipient, lag) ==
    /\ Between(c, actor, recipient)
    /\ calls[c].state \in {"ACCEPTED", "CONNECTED"}
    /\ actor = calls[c].caller
    /\ LET call   == calls[c]
           budget == IF call.state = "CONNECTED"
                     THEN [call EXCEPT !.callerCandidates = 0,
                                       !.calleeCandidates = 0]
                     ELSE call
       IN  calls' = [calls EXCEPT ![c] =
               setState(budget, "NEGOTIATING", NegotiationTimeout - lag)]
    /\ UNCHANGED active

\* Transition with webrtc.answer: a connected call has no deadline.
Answer(c, actor, recipient) ==
    /\ Between(c, actor, recipient)
    /\ calls[c].state = "NEGOTIATING"
    /\ actor = calls[c].callee
    /\ calls' = [calls EXCEPT ![c] = setState(@, "CONNECTED", NoTime)]
    /\ UNCHANGED active

Established == {"ACCEPTED", "NEGOTIATING", "CONNECTED"}

\* Mutant: the limit is off by one.
ICECandidateExtra(c, actor, recipient) ==
    /\ Between(c, actor, recipient)
    /\ calls[c].state \in Established
    /\ IF actor = calls[c].caller
       THEN /\ calls[c].callerCandidates <= MaxICECandidates
            /\ calls' = [calls EXCEPT ![c].callerCandidates = @ + 1]
       ELSE /\ calls[c].calleeCandidates <= MaxICECandidates
            /\ calls' = [calls EXCEPT ![c].calleeCandidates = @ + 1]
    /\ UNCHANGED active

\* Transition with webrtc.ice_candidate; a candidate past the limit is refused.
ICECandidate(c, actor, recipient) ==
    /\ Between(c, actor, recipient)
    /\ calls[c].state \in Established
    /\ IF actor = calls[c].caller
       THEN /\ calls[c].callerCandidates < MaxICECandidates
            /\ calls' = [calls EXCEPT ![c].callerCandidates = @ + 1]
       ELSE /\ calls[c].calleeCandidates < MaxICECandidates
            /\ calls' = [calls EXCEPT ![c].calleeCandidates = @ + 1]
    /\ UNCHANGED active

\* Transition with webrtc.ice_complete only checks the call.
ICEComplete(c, actor, recipient) ==
    /\ Between(c, actor, recipient)
    /\ calls[c].state \in Established
    /\ UNCHANGED mvars

\* Mutant: a call that is over can be ended again.
EndAgain(c, actor, recipient, lag) ==
    /\ Between(c, actor, recipient)
    /\ calls[c].state # "RINGING"
    /\ finish(c, "ENDED", lag)

\* Transition with call.end.
End(c, actor, recipient, lag) ==
    /\ Between(c, actor, recipient)
    /\ calls[c].state \in Established
    /\ finish(c, "ENDED", lag)

\* Mutant: the age of the time is added on the wrong side.
ReachedEarly(instant, lag) == instant # NoTime /\ instant <= lag

Reached(instant, lag) == instant # NoTime /\ instant + lag <= 0

\* Mutant: only a ringing call is timed out.
ExpiredRinging(lag) ==
    {c \in DOMAIN calls : calls[c].state = "RINGING" /\ Reached(calls[c].deadline, lag)}

\* Mutant: the deadline, which a finished call has no more, decides.
CleanedByDeadline(lag) ==
    {c \in DOMAIN calls : Terminal(calls[c]) /\ Reached(calls[c].deadline, lag)}

\* The calls Expire(now) times out, and the ones it deletes.
Expired(lag) ==
    {c \in DOMAIN calls : ~Terminal(calls[c]) /\ Reached(calls[c].deadline, lag)}
Cleaned(lag) ==
    {c \in DOMAIN calls : Terminal(calls[c]) /\ Reached(calls[c].cleanupAt, lag)}

Expire(lag) ==
    /\ calls' = [c \in DOMAIN calls \ Cleaned(lag) |->
            IF c \in Expired(lag) THEN finished(calls[c], "TIMED_OUT", lag)
                                  ELSE calls[c]]
    /\ active' = Delete(active, UNION {Participants(calls[c]) : c \in Expired(lag)})

\* The call Disconnect(u) ends, if any.
Dropped(u) ==
    {c \in DOMAIN calls : u \in DOMAIN active /\ active[u] = c /\ ~Terminal(calls[c])}

Disconnect(u, lag) ==
    IF Dropped(u) = {}
    THEN active' = Delete(active, {u}) /\ UNCHANGED calls
    ELSE \E c \in Dropped(u) : finish(c, "ENDED", lag)

----------------------------------------------------------------------------
\* One unit of time passes.
Older(instant) ==
    IF instant = NoTime \/ instant = -MaxLag THEN instant ELSE instant - 1

Tick ==
    /\ calls' = [c \in DOMAIN calls |->
            [calls[c] EXCEPT !.deadline = Older(@), !.cleanupAt = Older(@)]]
    /\ UNCHANGED active

\* The manager alone, under every client that respects its interface.
Transition(c, actor, recipient) ==
    \/ \E lag \in Lags : Accept(c, actor, recipient, lag)
    \/ \E lag \in Lags : Decline(c, actor, recipient, lag)
    \/ \E lag \in Lags : Cancel(c, actor, recipient, lag)
    \/ \E lag \in Lags : Offer(c, actor, recipient, lag)
    \/ Answer(c, actor, recipient)
    \/ ICECandidate(c, actor, recipient)
    \/ ICEComplete(c, actor, recipient)
    \/ \E lag \in Lags : End(c, actor, recipient, lag)

Sweep == \E lag \in Lags : Expire(lag)

ManagerNext ==
    \/ \E c \in CallIds, u, v \in Users, lag \in Lags : Invite(c, u, v, lag)
    \/ \E c \in CallIds, u, v \in Users : Transition(c, u, v)
    \/ \E u \in Users, lag \in Lags : Disconnect(u, lag)
    \/ Sweep
    \/ Tick

ManagerInit == New

ManagerSpec == ManagerInit /\ [][ManagerNext]_mvars

\* time.Ticker keeps firing and the sweeper keeps running.  Fairness asks for
\* a sweep that is not older than the last tick (lag 0): a sweep that is late
\* for ever would be a stopped goroutine.
ManagerFairness == WF_mvars(Tick) /\ WF_mvars(Expire(0))

ManagerFairSpec == ManagerSpec /\ ManagerFairness

----------------------------------------------------------------------------
\* Type invariant: both maps are partial functions of the right type and an
\* instant never lies further back than MaxLag.
ManagerTypeOK ==
    /\ DOMAIN calls \subseteq CallIds
    /\ calls \in [DOMAIN calls -> Call]
    /\ DOMAIN active \subseteq Users
    /\ active \in [DOMAIN active -> CallIds]

\* Manager.active mirrors Manager.calls: a user is busy with call c exactly
\* when c is in the table, not terminal, and the user is one of its two
\* distinct participants.  So no user is ever in two live calls, no finished
\* call keeps a user busy, and Disconnect's guard against a dangling entry
\* (manager.go:223) never fires.
BusyConsistent ==
    /\ \A c \in DOMAIN calls : calls[c].caller # calls[c].callee
    /\ \A u \in Users, c \in CallIds :
          (u \in DOMAIN active /\ active[u] = c)
            <=> /\ c \in DOMAIN calls
                /\ ~Terminal(calls[c])
                /\ u \in Participants(calls[c])

\* Every call the sweeper must get rid of carries the instant at which it
\* will: a call being set up has a deadline, a finished one a cleanup time, and
\* only a connected call, which must not time out, has neither.
SweepCanFinish ==
    \A c \in DOMAIN calls :
        /\ calls[c].deadline # NoTime <=> calls[c].state \in Establishing
        /\ calls[c].cleanupAt # NoTime <=> Terminal(calls[c])

\* A finished call is history: no method revives it, changes how it ended or
\* who took part, and it leaves the table only when its cleanup time came, so
\* its identifier is not reused before.
TerminalIsFinal ==
    [][\A c \in DOMAIN calls :
          Terminal(calls[c]) =>
            IF c \in DOMAIN calls'
            THEN [calls'[c] EXCEPT !.cleanupAt = 0] = [calls[c] EXCEPT !.cleanupAt = 0]
            ELSE calls[c].cleanupAt <= 0]_mvars

\* A call is timed out only when its deadline has passed, and never once it
\* is connected: a late sweep cannot kill a call that was answered in time.
TimeoutOnlyWhenDue ==
    [][\A c \in DOMAIN calls \intersect DOMAIN calls' :
          calls'[c].state = "TIMED_OUT" /\ calls[c].state # "TIMED_OUT"
            => calls[c].state \in Establishing /\ calls[c].deadline <= 0]_mvars

\* The candidate counters start again only with an ICE restart, so between two
\* answers a side forwards at most MaxICECandidates candidates.
BudgetOnlyByRestart ==
    [][\A c \in DOMAIN calls \intersect DOMAIN calls' :
          (\/ calls'[c].callerCandidates < calls[c].callerCandidates
           \/ calls'[c].calleeCandidates < calls[c].calleeCandidates)
            => calls[c].state = "CONNECTED" /\ calls'[c].state = "NEGOTIATING"]_mvars

\* The open calls of the table, as the contract sees them.
OpenCalls ==
    [c \in {d \in DOMAIN calls : ~Terminal(calls[d])} |->
        [caller |-> calls[c].caller, callee |-> calls[c].callee,
         agreed |-> calls[c].state # "RINGING"]]

ClosedCalls == {c \in DOMAIN calls : Terminal(calls[c])}

Contract == INSTANCE CallContract WITH open <- OpenCalls, over <- ClosedCalls

\* The table with its busy index, deadlines, candidate counters and lagging
\* clocks implements the contract: calls are agreed to once, never go back to
\* ringing, close once, and never share a user.
ImplementsContract == Contract!Spec

\* No call stays in setup: whatever the two sides send, a call that rings, is
\* accepted or negotiates is connected, over or gone at some point.
SetupResolves ==
    \A c \in CallIds, s \in Establishing :
        (c \in DOMAIN calls /\ calls[c].state = s)
          ~> ~(c \in DOMAIN calls /\ calls[c].state = s)

\* A finished call is eventually deleted from the table.
TerminalIsCleaned ==
    \A c \in CallIds :
        (c \in DOMAIN calls /\ Terminal(calls[c])) ~> c \notin DOMAIN calls
=============================================================================
