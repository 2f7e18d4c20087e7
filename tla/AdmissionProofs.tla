-------------------------- MODULE AdmissionProofs --------------------------
(***************************************************************************)
(* Proofs about admission for any number of keys, nonces, connections and  *)
(* proofs, any capacity of the replay guard and any lifetimes.             *)
(*                                                                         *)
(* SingleUse is not inductive: it needs Remembered, that the guard still   *)
(* holds an entry for every accepted proof that has not expired, under an  *)
(* expiry at least as late.  Remembered in turn needs that no goroutine    *)
(* brings along a time that lies in the future (TimesPast): the guard      *)
(* forgets an entry only when its expiry is at or before the time of some  *)
(* goroutine, which is at or before the real time.                         *)
(***************************************************************************)
EXTENDS Admission, FiniteSetTheorems, TLAPS

Handling == {"verified", "timed", "accepted"}

\* What the types of Admission leave open.
Places ==
    /\ IsFiniteSet(DOMAIN seen)
    /\ seen \in [DOMAIN seen -> Int]
    /\ suffixes \in [DOMAIN suffixes -> Keys]
    /\ used \subseteq Proof
    /\ \A c \in Conns : stage[c] \in Handling => proof[c] \in Proof

TimesPast == \A c \in Conns : at[c] <= clock

\* The guard remembers every accepted proof that has not expired.
Remembered ==
    \A p \in used :
        clock < p.expires => Id(p) \in DOMAIN seen /\ p.expires <= seen[Id(p)]

\* An admitted key owns its suffix.
SuffixOwned ==
    \A c \in Conns :
        key[c] # NoKey => /\ SuffixOf[key[c]] \in DOMAIN suffixes
                          /\ suffixes[SuffixOf[key[c]]] = key[c]

AdmissionInv ==
    TypeOK /\ Places /\ TimesPast /\ Remembered /\ SuffixOwned /\ SingleUse

\* Nothing is admitted at the start.
LEMMA InitInv == Init => AdmissionInv
<1> SUFFICES ASSUME Init PROVE AdmissionInv
  OBVIOUS
<1>1. DOMAIN seen = {} /\ DOMAIN suffixes = {}
  BY DEF Init
<1>2. IsFiniteSet(DOMAIN seen) /\ Cardinality(DOMAIN seen) = 0
  BY <1>1, FS_EmptySet
<1>3. TypeOK
  BY <1>1, <1>2, AdmissionAssumption DEF Init, TypeOK, Stages
<1>4. Places
  BY <1>1, <1>2 DEF Init, Places, Handling
<1>5. TimesPast /\ Remembered /\ SuffixOwned /\ SingleUse
  BY DEF Init, TimesPast, Remembered, SuffixOwned, SingleUse
<1> QED  BY <1>3, <1>4, <1>5 DEF AdmissionInv

\* Pruning the guard with a time of the past forgets only expired proofs.
LEMMA PruneRemembers ==
  ASSUME AdmissionInv, NEW c \in Conns, NEW p \in used, clock < p.expires
  PROVE  Id(p) \in Kept(at[c])
<1>1. Id(p) \in DOMAIN seen /\ p.expires <= seen[Id(p)] /\ seen[Id(p)] \in Int
  BY DEF AdmissionInv, Remembered, Places
<1>2. at[c] \in Int /\ clock \in Int /\ at[c] <= clock /\ p.expires \in Int
  BY AdmissionAssumption DEF AdmissionInv, TypeOK, TimesPast, Places, Proof
<1> QED  BY <1>1, <1>2 DEF Kept

\* The guard never outgrows its capacity.
LEMMA PruneBound ==
  ASSUME AdmissionInv, NEW now
  PROVE  /\ IsFiniteSet(Kept(now)) /\ Kept(now) \subseteq DOMAIN seen
         /\ Cardinality(Kept(now)) \in Nat /\ Cardinality(Kept(now)) <= Capacity
<1>1. Kept(now) \subseteq DOMAIN seen
  BY DEF Kept
<1>2. /\ IsFiniteSet(DOMAIN seen) /\ Cardinality(DOMAIN seen) <= Capacity
      /\ Capacity \in Nat
  BY AdmissionAssumption DEF AdmissionInv, Places, TypeOK
<1>3. IsFiniteSet(Kept(now)) /\ Cardinality(Kept(now)) <= Cardinality(DOMAIN seen)
  BY <1>1, <1>2, FS_Subset
<1>4. Cardinality(Kept(now)) \in Nat /\ Cardinality(DOMAIN seen) \in Nat
  BY <1>2, <1>3, FS_CardinalityType
<1> QED  BY <1>1, <1>2, <1>3, <1>4

\* The guard lets a proof through: it was not accepted before, or expired.
LEMMA AcceptNew ==
  ASSUME AdmissionInv, NEW c \in Conns, Accept(c), Unseen(proof[c], Kept(at[c]))
  PROVE  AdmissionInv'
<1> DEFINE p == proof[c]
           kept == Kept(at[c])
<1>0. /\ stage[c] = "timed" /\ p \in Proof /\ p.expires \in Int
      /\ Id(p) \in Keys \X Nonces
  BY AdmissionAssumption DEF Accept, AdmissionInv, Places, Handling, Proof, Id
<1>1. /\ seen' = [i \in kept \union {Id(p)} |-> IF i = Id(p) THEN p.expires ELSE seen[i]]
      /\ used' = used \union {p}
      /\ replayed' = IF p \in used /\ clock < p.expires
                     THEN replayed \union {p} ELSE replayed
  BY DEF Accept
<1>2. stage' = [stage EXCEPT ![c] = IF p.purpose = "HELLO" THEN "accepted" ELSE "admitted"]
  BY DEF Accept
<1>3. /\ proof' = [proof EXCEPT ![c] = IF stage'[c] = "accepted" THEN @ ELSE NoProof]
      /\ at' = [at EXCEPT ![c] = 0]
      /\ UNCHANGED <<clock, made, suffixes, key>>
  BY DEF Accept
<1>4. Id(p) \notin kept /\ Cardinality(kept) < Capacity
  BY DEF Unseen
<1>5. /\ IsFiniteSet(kept) /\ kept \subseteq DOMAIN seen /\ Cardinality(kept) \in Nat
  BY PruneBound
<1>6. /\ \A q \in used : clock < q.expires => Id(q) \in kept
      /\ \A q \in used : clock < q.expires => q.expires <= seen[Id(q)]
  BY PruneRemembers DEF AdmissionInv, Remembered
<1>7. /\ IsFiniteSet(kept \union {Id(p)})
      /\ Cardinality(kept \union {Id(p)}) = Cardinality(kept) + 1
  BY <1>4, <1>5, FS_AddElement
<1> HIDE DEF p, kept
<1>8. /\ DOMAIN seen' = kept \union {Id(p)} /\ seen'[Id(p)] = p.expires
      /\ \A i \in kept : seen'[i] = seen[i]
  BY <1>1, <1>4
<1>9. TypeOK'
  <2>1. DOMAIN seen' \subseteq Keys \X Nonces
    BY <1>0, <1>5, <1>8 DEF AdmissionInv, TypeOK
  <2>2. Cardinality(DOMAIN seen') <= Capacity
    BY <1>4, <1>5, <1>7, <1>8, AdmissionAssumption
  <2>3. stage' \in [Conns -> Stages]
    BY <1>2 DEF AdmissionInv, TypeOK, Stages
  <2>4. proof' \in [Conns -> Proof \union {NoProof}]
    BY <1>3 DEF AdmissionInv, TypeOK
  <2>5. at' \in [Conns -> 0..MaxClock]
    BY <1>3, AdmissionAssumption DEF AdmissionInv, TypeOK
  <2> QED  BY <1>3, <2>1, <2>2, <2>3, <2>4, <2>5 DEF AdmissionInv, TypeOK
<1>10. Places'
  <2>1. seen' \in [DOMAIN seen' -> Int]
    BY <1>0, <1>1, <1>5, <1>8 DEF AdmissionInv, Places
  <2>2. \A d \in Conns : stage'[d] \in Handling => proof'[d] \in Proof
    <3> TAKE d \in Conns
    <3>1. CASE d = c
      BY <1>0, <1>2, <1>3, <3>1 DEF AdmissionInv, TypeOK, Handling, p
    <3>2. CASE d # c
      BY <1>2, <1>3, <3>2 DEF AdmissionInv, TypeOK, Places
    <3> QED  BY <3>1, <3>2
  <2> QED  BY <1>0, <1>1, <1>3, <1>7, <1>8, <2>1, <2>2 DEF AdmissionInv, Places
<1>11. TimesPast'
  BY <1>3, AdmissionAssumption DEF AdmissionInv, TypeOK, TimesPast
<1>12. Remembered'
  <2> SUFFICES ASSUME NEW q \in used', clock < q.expires
               PROVE  Id(q) \in DOMAIN seen' /\ q.expires <= seen'[Id(q)]
    BY <1>3 DEF Remembered
  <2>1. CASE q = p
    BY <1>0, <1>8, <2>1
  <2>2. CASE q \in used
    BY <1>6, <1>8, <2>2
  <2> QED  BY <1>1, <2>1, <2>2
<1>13. SuffixOwned'
  BY <1>3 DEF AdmissionInv, SuffixOwned
<1>14. SingleUse'
  BY <1>1, <1>4, <1>6 DEF AdmissionInv, SingleUse
<1> QED  BY <1>9, <1>10, <1>11, <1>12, <1>13, <1>14 DEF AdmissionInv

\* The guard refuses a proof and prunes.
LEMMA AcceptSeen ==
  ASSUME AdmissionInv, NEW c \in Conns, Accept(c), ~Unseen(proof[c], Kept(at[c]))
  PROVE  AdmissionInv'
<1> DEFINE kept == Kept(at[c])
<1>0. stage[c] = "timed" /\ proof[c] \in Proof
  BY DEF Accept, AdmissionInv, Places, Handling
<1>1. /\ seen' = [i \in kept |-> seen[i]]
      /\ stage' = [stage EXCEPT ![c] = Back(c)]
      /\ UNCHANGED <<used, replayed>>
  BY DEF Accept
<1>2. /\ at' = [at EXCEPT ![c] = 0]
      /\ UNCHANGED <<clock, made, suffixes, key>>
      /\ proof' = [proof EXCEPT ![c] = IF stage'[c] = "accepted" THEN @ ELSE NoProof]
  BY DEF Accept
<1>3. Back(c) \in {"idle", "admitted"}
  BY DEF Back
<1>4. /\ IsFiniteSet(kept) /\ kept \subseteq DOMAIN seen /\ Cardinality(kept) <= Capacity
  BY PruneBound
<1>5. \A q \in used : clock < q.expires => Id(q) \in kept
  BY PruneRemembers
<1> HIDE DEF kept
<1>6. DOMAIN seen' = kept /\ \A i \in kept : seen'[i] = seen[i]
  BY <1>1
<1>7. TypeOK'
  <2>1. stage' \in [Conns -> Stages] /\ at' \in [Conns -> 0..MaxClock]
    BY <1>1, <1>2, <1>3, AdmissionAssumption DEF AdmissionInv, TypeOK, Stages
  <2>2. proof' \in [Conns -> Proof \union {NoProof}]
    BY <1>2 DEF AdmissionInv, TypeOK
  <2> QED  BY <1>2, <1>4, <1>6, <2>1, <2>2 DEF AdmissionInv, TypeOK
<1>8. Places'
  <2>1. seen' \in [DOMAIN seen' -> Int]
    BY <1>1, <1>4, <1>6 DEF AdmissionInv, Places
  <2>2. \A d \in Conns : stage'[d] \in Handling => proof'[d] \in Proof
    BY <1>1, <1>2, <1>3 DEF AdmissionInv, TypeOK, Places, Handling
  <2> QED  BY <1>1, <1>2, <1>4, <1>6, <2>1, <2>2 DEF AdmissionInv, Places
<1>9. TimesPast'
  BY <1>2, AdmissionAssumption DEF AdmissionInv, TypeOK, TimesPast
<1>10. Remembered'
  BY <1>1, <1>2, <1>5, <1>6 DEF AdmissionInv, Remembered
<1>11. SuffixOwned' /\ SingleUse'
  BY <1>1, <1>2 DEF AdmissionInv, SuffixOwned, SingleUse
<1> QED  BY <1>7, <1>8, <1>9, <1>10, <1>11 DEF AdmissionInv

\* The first key with a suffix keeps it.
LEMMA ClaimInv ==
  ASSUME AdmissionInv, NEW c \in Conns, ClaimSuffix(c)
  PROVE  AdmissionInv'
<1> DEFINE k == proof[c].key
<1>0. /\ stage[c] = "accepted" /\ k \in Keys /\ SuffixOf[k] \in Suffixes
      /\ UNCHANGED <<clock, made, seen, at, used, replayed>>
      /\ proof' = [proof EXCEPT ![c] = NoProof]
  BY AdmissionAssumption DEF ClaimSuffix, AdmissionInv, Places, Handling, Proof
<1>1. TimesPast' /\ Remembered' /\ SingleUse'
  BY <1>0 DEF AdmissionInv, TimesPast, Remembered, SingleUse
<1>2. CASE Taken(k)
  <2>1. stage' = [stage EXCEPT ![c] = "idle"] /\ UNCHANGED <<suffixes, key>>
    BY <1>2 DEF ClaimSuffix
  <2>2. TypeOK'
    BY <1>0, <2>1 DEF AdmissionInv, TypeOK, Stages
  <2>3. Places'
    BY <1>0, <2>1 DEF AdmissionInv, TypeOK, Places, Handling
  <2>4. SuffixOwned'
    BY <2>1 DEF AdmissionInv, SuffixOwned
  <2> QED  BY <1>1, <2>2, <2>3, <2>4 DEF AdmissionInv
<1>3. CASE ~Taken(k)
  <2> DEFINE s == SuffixOf[k]
  <2>1. /\ suffixes' = [t \in DOMAIN suffixes \union {s} |-> IF t = s THEN k ELSE suffixes[t]]
        /\ stage' = [stage EXCEPT ![c] = "admitted"]
        /\ key' = [key EXCEPT ![c] = k]
    BY <1>3 DEF ClaimSuffix
  <2>2. s \in DOMAIN suffixes => suffixes[s] = k
    BY <1>3 DEF Taken
  <2> HIDE DEF s
  <2>3. /\ DOMAIN suffixes' = DOMAIN suffixes \union {s} /\ suffixes'[s] = k
        /\ \A t \in DOMAIN suffixes : suffixes'[t] = suffixes[t]
        /\ suffixes' \in [DOMAIN suffixes' -> Keys]
    BY <1>0, <2>1, <2>2 DEF AdmissionInv, Places
  <2> HIDE DEF k
  <2>4. TypeOK'
    BY <1>0, <2>1, <2>3 DEF AdmissionInv, TypeOK, Stages, s
  <2>5. Places'
    BY <1>0, <2>1, <2>3 DEF AdmissionInv, TypeOK, Places, Handling
  <2>6. SuffixOwned'
    BY <2>1, <2>3 DEF AdmissionInv, TypeOK, SuffixOwned, s
  <2> QED  BY <1>1, <2>4, <2>5, <2>6 DEF AdmissionInv
<1> QED  BY <1>2, <1>3

\* Every step keeps the invariant.
LEMMA NextInv == AdmissionInv /\ [Next]_vars => AdmissionInv'
<1> SUFFICES ASSUME AdmissionInv, [Next]_vars PROVE AdmissionInv'
  OBVIOUS
<1> USE DEF AdmissionInv
<1>1. ASSUME NEW p \in Proof, Sign(p) PROVE AdmissionInv'
  BY <1>1 DEF Sign, TypeOK, Places, TimesPast, Remembered, SuffixOwned, SingleUse
<1>2. ASSUME NEW c \in Conns, NEW p \in made, Verify(c, p) PROVE AdmissionInv'
  <2>1. p \in Proof
    BY DEF TypeOK
  <2>2. TypeOK'
    BY <1>2, <2>1 DEF Verify, TypeOK, Stages
  <2>3. Places'
    BY <1>2, <2>1 DEF Verify, TypeOK, Places
  <2> QED  BY <1>2, <2>2, <2>3 DEF Verify, TimesPast, Remembered, SuffixOwned, SingleUse
<1>3. ASSUME NEW c \in Conns, ReadClock(c) PROVE AdmissionInv'
  <2>1. TypeOK'
    BY <1>3 DEF ReadClock, TypeOK, Stages
  <2>2. Places'
    BY <1>3 DEF ReadClock, TypeOK, Places, Handling
  <2>3. TimesPast'
    BY <1>3, AdmissionAssumption DEF ReadClock, TypeOK, TimesPast
  <2> QED  BY <1>3, <2>1, <2>2, <2>3 DEF ReadClock, Remembered, SuffixOwned, SingleUse
<1>4. ASSUME NEW c \in Conns, Leave(c) PROVE AdmissionInv'
  <2>1. TypeOK'
    BY <1>4 DEF Leave, TypeOK, Stages
  <2>2. Places'
    BY <1>4 DEF Leave, TypeOK, Places, Handling
  <2>3. SuffixOwned'
    BY <1>4 DEF Leave, TypeOK, SuffixOwned
  <2> QED  BY <1>4, <2>1, <2>2, <2>3 DEF Leave, TimesPast, Remembered, SingleUse
<1>5. CASE Tick
  <2>0. clock' = clock + 1 /\ clock \in Int /\ clock < MaxClock
    BY <1>5, AdmissionAssumption DEF Tick, TypeOK
  <2>1. TypeOK'
    BY <1>5, <2>0, AdmissionAssumption DEF Tick, TypeOK
  <2>2. TimesPast'
    BY <1>5, <2>0, AdmissionAssumption DEF Tick, TypeOK, TimesPast
  <2>3. Remembered'
    <3>1. \A p \in used : p.expires \in Int
      BY AdmissionAssumption DEF Places, Proof
    <3> QED  BY <1>5, <2>0, <3>1 DEF Tick, Remembered
  <2> QED  BY <1>5, <2>1, <2>2, <2>3 DEF Tick, Places, SuffixOwned, SingleUse
<1>6. CASE UNCHANGED vars
  BY <1>6 DEF vars, TypeOK, Places, TimesPast, Remembered, SuffixOwned, SingleUse
<1> QED  BY <1>1, <1>2, <1>3, <1>4, <1>5, <1>6, AcceptNew, AcceptSeen, ClaimInv DEF Next

\* The inductive invariant of admission.
THEOREM AdmissionInvariant == Spec => []AdmissionInv
  BY InitInv, NextInv, PTL DEF Spec

\* Every variable keeps its type; the replay guard never holds more than
\* Capacity entries.
THEOREM AdmissionTypes == Spec => []TypeOK
<1>1. AdmissionInv => TypeOK
  BY DEF AdmissionInv
<1> QED  BY <1>1, AdmissionInvariant, PTL

\* However many goroutines present a proof, with whatever stale times, and
\* however full the guard is, a proof is accepted at most once before it expires.
THEOREM ProofsAreSingleUse == Spec => []SingleUse
<1>1. AdmissionInv => SingleUse
  BY DEF AdmissionInv
<1> QED  BY <1>1, AdmissionInvariant, PTL

\* Connections admitted with the same address suffix hold the same key, for
\* every way in which fingerprints may collide.
THEOREM SuffixHasOneKey == Spec => []OneKeyPerSuffix
<1>1. AdmissionInv => OneKeyPerSuffix
  BY DEF AdmissionInv, SuffixOwned, OneKeyPerSuffix
<1> QED  BY <1>1, AdmissionInvariant, PTL
=============================================================================
