----------------------------- MODULE AsciiCodec -----------------------------
(***************************************************************************)
(* The delta coding of ASCII video, internal/client/asciivideo/codec.go.   *)
(* A picture is a sequence of cells.  A delta is a sequence of runs of     *)
(* changed cells.  The bytes of a frame (magic, version, lengths) only     *)
(* carry the fields of the records used here.                              *)
(***************************************************************************)
EXTENDS Naturals, Sequences, SequencesExt

CONSTANTS
    Cell,       \* the cell bytes
    MaxRun,     \* the longest run, 0xffff in the code
    EntrySize   \* the bytes that start a run: 6 in the code

ASSUME CodecAssumption == MaxRun \in Nat \ {0} /\ EntrySize \in Nat

\* Mutant: a run may be one cell too long.
RunEndLong(previous, current, start) ==
    CHOOSE last \in start..Len(current) :
        /\ \A i \in start..last : current[i] # previous[i]
        /\ \/ last = Len(current)
           \/ last - start = MaxRun
           \/ current[last + 1] = previous[last + 1]

\* The last index of the run of changed cells that starts at index start.
RunEnd(previous, current, start) ==
    CHOOSE last \in start..Len(current) :
        /\ last - start < MaxRun
        /\ \A i \in start..last : current[i] # previous[i]
        /\ \/ last = Len(current)
           \/ last - start = MaxRun - 1
           \/ current[last + 1] = previous[last + 1]

\* Nothing to compare with gives an empty delta: Encode sends a keyframe then.
encodeDelta(previous, current) ==
    LET runs[i \in 1..Len(current) + 1] ==
            IF i > Len(current) THEN <<>>
            ELSE IF current[i] = previous[i] THEN runs[i + 1]
            ELSE LET last == RunEnd(previous, current, i)
                 IN  <<[start |-> i, cells |-> SubSeq(current, i, last)]>> \o runs[last + 1]
    IN  IF Len(previous) # Len(current) THEN <<>> ELSE runs[1]

\* len(payload)
EncodedSize(runs) ==
    FoldLeft(LAMBDA size, run : size + EntrySize + Len(run.cells), 0, runs)

\* The checks applyDelta makes of every run.
ValidRun(cells, run) ==
    Len(run.cells) # 0 /\ run.start + Len(run.cells) <= Len(cells) + 1

applyRun(cells, run) ==
    [i \in 1..Len(cells) |->
        IF i \in run.start..(run.start + Len(run.cells) - 1)
        THEN run.cells[i - run.start + 1] ELSE cells[i]]

\* The loop over the runs.
applyDelta(cells, runs) ==
    LET applied[n \in 0..Len(runs)] ==
            IF n = 0 THEN cells ELSE applyRun(applied[n - 1], runs[n])
    IN  applied[Len(runs)]

\* The reference: the runs of the delta are accepted, restore the new picture
\* exactly, and name no cell that did not change (so the comparison of the
\* delta's size with that of a keyframe is not misled).
Restores(previous, current) ==
    LET runs == encodeDelta(previous, current)
    IN  /\ \A r \in 1..Len(runs) :
              ValidRun(current, runs[r]) /\ Len(runs[r].cells) <= MaxRun
        /\ applyDelta(previous, runs) = current
        /\ UNION {runs[r].start..(runs[r].start + Len(runs[r].cells) - 1) :
                      r \in 1..Len(runs)}
             = {i \in 1..Len(current) : previous[i] # current[i]}
=============================================================================
