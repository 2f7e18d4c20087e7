---------------------------- MODULE CallContract ----------------------------
(***************************************************************************)
(* What the call table promises to the users of the server: a call is asked*)
(* for between two users neither of whom is in an open call, may then be   *)
(* agreed to, closes once and for all, and its identifier becomes free only*)
(* after that.  No timeouts, no signals, no index of busy users.           *)
(***************************************************************************)
CONSTANTS Users, CallIds

VARIABLES
    open,   \* the open calls: identifier -> [caller, callee, agreed]
    over    \* identifiers of closed calls that are not yet forgotten

vars == <<open, over>>

Engaged(u) == \E c \in DOMAIN open : u = open[c].caller \/ u = open[c].callee

Init == open = [c \in {} |-> c] /\ over = {}

Ask(c, u, v) ==
    /\ u # v /\ ~Engaged(u) /\ ~Engaged(v)
    /\ c \notin DOMAIN open \union over
    /\ open' = [d \in DOMAIN open \union {c} |->
            IF d = c THEN [caller |-> u, callee |-> v, agreed |-> FALSE]
                     ELSE open[d]]
    /\ UNCHANGED over

Agree(c) ==
    /\ c \in DOMAIN open /\ ~open[c].agreed
    /\ open' = [open EXCEPT ![c].agreed = TRUE]
    /\ UNCHANGED over

\* Some open calls close while some closed ones are forgotten.
Close(C, D) ==
    /\ C \subseteq DOMAIN open
    /\ D \subseteq over
    /\ open' = [d \in DOMAIN open \ C |-> open[d]]
    /\ over' = (over \ D) \union C

Next ==
    \/ \E c \in CallIds, u, v \in Users : Ask(c, u, v)
    \/ \E c \in CallIds : Agree(c)
    \/ \E C \in SUBSET DOMAIN open, D \in SUBSET over : Close(C, D)

Spec == Init /\ [][Next]_vars
=============================================================================
