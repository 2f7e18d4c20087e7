---------------------------- MODULE MCServerLive ----------------------------
(* The signaling server for TLC with one connection per user.              *)
EXTENDS SignalServer, TLC

CONSTANTS k1, k2, u1, u2

\* Each connection always serves the same user: reconnection of a user over
\* another connection is left to the other instance.  Refuse, the other
\* outcome of a hello, stays inside, so the constraint takes no fair step away.
OwnUser == user[k1] # u2 /\ user[k2] # u1

\* The client of k2 sends no call.invite, as a client need not: calls that cross
\* are left to the other instance.
OneCaller == pc[k2] # "find"

\* Helpers stop while serve waits for them, and not before: that is all the
\* fairness asks of them, and no other step looks at them.
StopsAtWait == \A k \in Conns : helpers'[k] < helpers[k] => pc[k] = "waiting"
=============================================================================
