---------------------------- MODULE MCAdmission ----------------------------
(* Two keys whose fingerprints end alike.                                  *)
EXTENDS Admission, TLC

Colliding == [k \in Keys |-> CHOOSE s \in Suffixes : TRUE]
Interchangeable == Permutations(Keys) \union Permutations(Nonces) \union Permutations(Conns)
=============================================================================
