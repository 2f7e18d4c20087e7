--------------------------- MODULE MCSignalServer ---------------------------
(* The signaling server for TLC: connections, users and calls are             *)
(* interchangeable.                                                           *)
EXTENDS SignalServer, TLC

Interchangeable ==
    Permutations(Users) \union Permutations(Conns) \union Permutations(CallIds)

\* A server that is not shut down, with messages waiting for one connection at
\* a time and no slow connection being closed in the background (MCServerLive
\* has both).
Steady ==
    /\ server = "up" /\ doomed = {}
    /\ \A k, j \in Conns : k # j => backlog[k] = 0 \/ backlog[j] = 0

\* The end of a connection runs in one go: helpers stop when serve waits for
\* them, and then nothing comes in between.  No other goroutine reads what these
\* steps change, and none holds them up.
EndsAtOnce ==
    \A k \in Conns :
        /\ helpers'[k] < helpers[k] => pc[k] = "waiting"
        /\ pc[k] = "waiting" => pc'[k] = "idle" \/ helpers'[k] < helpers[k]

\* A connection whose session.ready fails differs from one that is lost right
\* after it by the heartbeat alone (MCServerLive has both).
GetsReady == \A k \in Conns : pc[k] = "ready" => pc'[k] # "leaving"
=============================================================================
