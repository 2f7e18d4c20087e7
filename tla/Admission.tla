----------------------------- MODULE Admission -----------------------------
(***************************************************************************)
(* Proof of identity at the signaling server: identity.Verify, ReplayGuard *)
(* (internal/identity), and the handshake and verifyBoundProof of          *)
(* internal/server/websocket/server.go.                                    *)
(*                                                                         *)
(* A proof is a value that anyone may present any number of times; only    *)
(* the holder of the key can make it.  Signatures, base64 and the address  *)
(* syntax are left out: a proof is presented for the message it was signed *)
(* for, or Verify fails.  Verify and Accept read the clock separately, and *)
(* Accept reads it before it takes the lock, so other goroutines may run   *)
(* with a later time in between.                                           *)
(***************************************************************************)
EXTENDS Integers, FiniteSets

CONSTANTS
    Keys, Suffixes,
    SuffixOf,    \* Keys -> Suffixes: the end of a fingerprint
    Nonces,
    Conns,       \* serve goroutines
    NoKey, NoProof,
    Lifetime,    \* proofLifetime
    Skew,        \* the extra minute Verify grants to a fast clock
    Capacity,    \* ReplayGuard's limit (65536)
    MaxClock,    \* bound: the clock stops here
    MaxProofs    \* bound: proofs made in a behaviour

ASSUME AdmissionAssumption ==
    /\ SuffixOf \in [Keys -> Suffixes]
    /\ NoKey \notin Keys
    /\ {Lifetime, Skew, Capacity, MaxClock, MaxProofs} \subseteq Nat

VARIABLES
    clock,     \* the real time
    made,      \* proofs that were signed
    seen,      \* ReplayGuard.seen: <<key, nonce>> -> expiry
    suffixes,  \* Server.suffixes: suffix -> key
    stage,     \* where each goroutine is
    proof,     \* the proof it is handling
    at,        \* the time it read for Accept
    key,       \* clientConnection.fingerprint
    used,      \* history: proofs that were accepted
    replayed   \* history: proofs that were accepted again before they expired

vars == <<clock, made, seen, suffixes, stage, proof, at, key, used, replayed>>

Proof == [key : Keys, nonce : Nonces, purpose : {"HELLO", "CALL"},
          expires : 0..(MaxClock + Lifetime + Skew)]
Id(p) == <<p.key, p.nonce>>
Stages == {"idle", "verified", "timed", "accepted", "admitted"}

Init ==
    /\ clock = 0
    /\ made = {}
    /\ seen = [i \in {} |-> i]
    /\ suffixes = [s \in {} |-> s]
    /\ stage = [c \in Conns |-> "idle"]
    /\ proof = [c \in Conns |-> NoProof]
    /\ at = [c \in Conns |-> 0]
    /\ key = [c \in Conns |-> NoKey]
    /\ used = {} /\ replayed = {}

\* Verify: a proof that is not expired and not too far in the future.
Valid(p, now) == now <= p.expires /\ p.expires <= now + Lifetime + Skew

\* Identity.Sign, by a holder of the key whose clock may be wrong and who may
\* take a nonce that was used before.  A proof that is not valid yet might as
\* well be made later.
Sign(p) ==
    /\ Valid(p, clock)
    /\ p \notin made /\ Cardinality(made) < MaxProofs
    /\ made' = made \union {p}
    /\ UNCHANGED <<clock, seen, suffixes, stage, proof, at, key, used, replayed>>

\* A hello on a new connection, or a call signal on an admitted one, whose
\* proof passes Verify; verifyBoundProof also wants the key of the connection.
Verify(c, p) ==
    /\ p \in made /\ Valid(p, clock)
    /\ \/ stage[c] = "idle" /\ p.purpose = "HELLO"
       \/ stage[c] = "admitted" /\ p.purpose = "CALL" /\ p.key = key[c]
    /\ stage' = [stage EXCEPT ![c] = "verified"]
    /\ proof' = [proof EXCEPT ![c] = p]
    /\ UNCHANGED <<clock, made, seen, suffixes, at, key, used, replayed>>

\* s.now() for Accept.
ReadClock(c) ==
    /\ stage[c] = "verified"
    /\ stage' = [stage EXCEPT ![c] = "timed"]
    /\ at' = [at EXCEPT ![c] = clock]
    /\ UNCHANGED <<clock, made, seen, suffixes, proof, key, used, replayed>>

\* Mutant: entries are dropped before their proofs expire.
KeptBriefly(now) == {i \in DOMAIN seen : seen[i] > now + Skew}

\* The entries Accept keeps, given the time of its caller.
Kept(now) == {i \in DOMAIN seen : seen[i] > now}

\* Mutant: the limit is off by one.
UnseenExtra(p, kept) == Id(p) \notin kept /\ Cardinality(kept) <= Capacity

\* Accept lets the proof through: it is not on record and there is room.
Unseen(p, kept) == Id(p) \notin kept /\ Cardinality(kept) < Capacity

\* A refused hello closes the connection, a refused call signal is an error.
Back(c) == IF proof[c].purpose = "HELLO" THEN "idle" ELSE "admitted"

\* ReplayGuard.Accept, and for a call signal the end of verifyBoundProof.
Accept(c) ==
    /\ stage[c] = "timed"
    /\ LET p    == proof[c]
           kept == Kept(at[c])
       IN  IF Unseen(p, kept)
           THEN /\ seen' = [i \in kept \union {Id(p)} |->
                              IF i = Id(p) THEN p.expires ELSE seen[i]]
                /\ used' = used \union {p}
                /\ replayed' = IF p \in used /\ clock < p.expires
                               THEN replayed \union {p} ELSE replayed
                /\ stage' = [stage EXCEPT ![c] =
                      IF p.purpose = "HELLO" THEN "accepted" ELSE "admitted"]
           ELSE /\ seen' = [i \in kept |-> seen[i]]
                /\ stage' = [stage EXCEPT ![c] = Back(c)]
                /\ UNCHANGED <<used, replayed>>
    /\ proof' = [proof EXCEPT ![c] =
          IF stage'[c] = "accepted" THEN @ ELSE NoProof]
    /\ at' = [at EXCEPT ![c] = 0]
    /\ UNCHANGED <<clock, made, suffixes, key>>

\* Mutant: the suffix passes to the key that came last.
Untaken(k) == FALSE

\* Another key came first with the suffix of this one.
Taken(k) == SuffixOf[k] \in DOMAIN suffixes /\ suffixes[SuffixOf[k]] # k

\* The first key seen with a suffix keeps it for the server's life.
ClaimSuffix(c) ==
    /\ stage[c] = "accepted"
    /\ LET k == proof[c].key
           s == SuffixOf[k]
       IN  IF Taken(k)
           THEN /\ stage' = [stage EXCEPT ![c] = "idle"]
                /\ UNCHANGED <<suffixes, key>>
           ELSE /\ suffixes' = [t \in DOMAIN suffixes \union {s} |->
                                  IF t = s THEN k ELSE suffixes[t]]
                /\ stage' = [stage EXCEPT ![c] = "admitted"]
                /\ key' = [key EXCEPT ![c] = k]
    /\ proof' = [proof EXCEPT ![c] = NoProof]
    /\ UNCHANGED <<clock, made, seen, at, used, replayed>>

\* The connection ends; what the server learnt stays.
Leave(c) ==
    /\ stage[c] = "admitted"
    /\ stage' = [stage EXCEPT ![c] = "idle"]
    /\ key' = [key EXCEPT ![c] = NoKey]
    /\ UNCHANGED <<clock, made, seen, suffixes, proof, at, used, replayed>>

Tick ==
    /\ clock < MaxClock
    /\ clock' = clock + 1
    /\ UNCHANGED <<made, seen, suffixes, stage, proof, at, key, used, replayed>>

Next ==
    \/ \E p \in Proof : Sign(p)
    \/ \E c \in Conns, p \in made : Verify(c, p)
    \/ \E c \in Conns : ReadClock(c)
    \/ \E c \in Conns : Accept(c)
    \/ \E c \in Conns : ClaimSuffix(c)
    \/ \E c \in Conns : Leave(c)
    \/ Tick

Spec == Init /\ [][Next]_vars

----------------------------------------------------------------------------
\* Type invariant.
TypeOK ==
    /\ clock \in 0..MaxClock
    /\ made \subseteq Proof
    /\ DOMAIN seen \subseteq Keys \X Nonces
    /\ Cardinality(DOMAIN seen) <= Capacity
    /\ DOMAIN suffixes \subseteq Suffixes
    /\ stage \in [Conns -> Stages]
    /\ proof \in [Conns -> Proof \union {NoProof}]
    /\ at \in [Conns -> 0..MaxClock]
    /\ key \in [Conns -> Keys \union {NoKey}]

\* Nonces are single-use until ExpiresAt (protocol/signaling.go:87): however
\* many goroutines present a proof and whatever times they bring along, it is
\* accepted at most once before it expires.
SingleUse == replayed = {}

\* Two connections admitted at any time with the same address suffix, hence
\* with the same address, hold the same key.
OneKeyPerSuffix ==
    \A c, d \in Conns :
        key[c] # NoKey /\ key[d] # NoKey /\ SuffixOf[key[c]] = SuffixOf[key[d]]
          => key[c] = key[d]
=============================================================================
