----------------------------- MODULE MCSession ------------------------------
(* One call and its two ends for TLC.                                      *)
EXTENDS Session

\* Bound: at most one of the two websockets is lost without a word.
OneSilent == ~(silent[Caller] /\ silent[Callee])

\* Bound: candidates are trickled in the first negotiation, not again in an ICE
\* restart.
TrickledAtFirst ==
    \A p \in Users :
        gathering[p] /\ ~gathering'[p] /\ stage'[p] = "session" => route[p] = "new"
=============================================================================
