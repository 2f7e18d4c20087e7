----------------------------- MODULE TrustStore -----------------------------
(***************************************************************************)
(* The trust file, internal/identity/trust.go, and the processes that use  *)
(* it (cmd/termcall/main.go, internal/client/app/app.go): a daemon opens   *)
(* the store once and keeps it for its life; trust, untrust, block and     *)
(* unblock are processes that open it, change one record and exit; a chat  *)
(* or answer window opens it for one Observe.                              *)
(*                                                                         *)
(* A store is a copy of the file in memory.  Every operation changes the   *)
(* copy and replaces the file by the whole copy (temporary file, sync,     *)
(* rename).  TrustStore.mu serialises one process only.  Keys and aliases  *)
(* are left out: a record is its two flags, and its presence means that    *)
(* the key was observed or named in full.                                  *)
(***************************************************************************)
CONSTANTS
    Procs,         \* processes that may hold the store open
    Fingerprints

VARIABLES
    file,      \* trust.json: a partial function from Fingerprints to Record
    memory,    \* TrustStore.records of each process
    isOpen,    \* the process holds a store
    rang,      \* the keys whose invitation the last step let through
    wantBlock  \* history: the keys the user's commands have blocked

vars == <<file, memory, isOpen, rang, wantBlock>>

Record == [trusted : BOOLEAN, blocked : BOOLEAN]
Empty == [f \in {} |-> f]

\* The record of f, with Go's zero value for a missing one.
Lookup(records, f) ==
    IF f \in DOMAIN records THEN records[f] ELSE [trusted |-> FALSE, blocked |-> FALSE]

Put(records, f, r) ==
    [g \in DOMAIN records \union {f} |-> IF g = f THEN r ELSE records[g]]

Init ==
    /\ file = Empty
    /\ memory = [p \in Procs |-> Empty]
    /\ isOpen = [p \in Procs |-> FALSE]
    /\ rang = {}
    /\ wantBlock = {}

\* OpenTrustStoreFile; a missing file is an empty store.
Open(p) ==
    /\ ~isOpen[p]
    /\ isOpen' = [isOpen EXCEPT ![p] = TRUE]
    /\ memory' = [memory EXCEPT ![p] = file]
    /\ rang' = {}
    /\ UNCHANGED <<file, wantBlock>>

\* The process exits, or dies before or between the operations.
Exit(p) ==
    /\ isOpen[p]
    /\ isOpen' = [isOpen EXCEPT ![p] = FALSE]
    /\ memory' = [memory EXCEPT ![p] = Empty]
    /\ rang' = {}
    /\ UNCHANGED <<file, wantBlock>>

\* The record changes in memory and saveLocked renames a new file into place.
Save(p, f, r) ==
    /\ memory' = [memory EXCEPT ![p] = Put(@, f, r)]
    /\ file' = Put(memory[p], f, r)
    /\ UNCHANGED isOpen

\* saveLocked fails before the rename: the copy has changed, the file has not.
SaveFails(p, f, r) ==
    /\ memory' = [memory EXCEPT ![p] = Put(@, f, r)]
    /\ UNCHANGED <<file, isOpen>>

\* An invitation with a verified key: Observe remembers the key without
\* trusting it; the caller declines if that fails or the record is blocked.
Observe(p, f) ==
    /\ isOpen[p]
    /\ LET r == Lookup(memory[p], f)
       IN  \/ Save(p, f, r) /\ rang' = IF r.blocked THEN {} ELSE {f}
           \/ SaveFails(p, f, r) /\ rang' = {}
    /\ UNCHANGED wantBlock

\* SetTrusted and SetBlockedFingerprint from a command; a command whose save
\* fails reports the error and exits.
SetTrusted(p, f, value) ==
    /\ isOpen[p]
    /\ Save(p, f, [Lookup(memory[p], f) EXCEPT !.trusted = value])
    /\ rang' = {}
    /\ UNCHANGED wantBlock

SetBlockedFingerprint(p, f, value) ==
    /\ isOpen[p]
    /\ Save(p, f, [Lookup(memory[p], f) EXCEPT !.blocked = value])
    /\ wantBlock' = IF value THEN wantBlock \union {f} ELSE wantBlock \ {f}
    /\ rang' = {}

Next ==
    \E p \in Procs :
        \/ Open(p)
        \/ Exit(p)
        \/ \E f \in Fingerprints : Observe(p, f)
        \/ \E f \in Fingerprints, value \in BOOLEAN : SetTrusted(p, f, value)
        \/ \E f \in Fingerprints, value \in BOOLEAN : SetBlockedFingerprint(p, f, value)

Spec == Init /\ [][Next]_vars

----------------------------------------------------------------------------
\* Blocked proofs are declined: an invitation is let through only if the key
\* is not blocked by the last block or unblock command that succeeded.
BlockHonoured == rang \intersect wantBlock = {}
=============================================================================
