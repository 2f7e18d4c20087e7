-------------------------- MODULE AsciiVideoProofs --------------------------
(***************************************************************************)
(* Proofs about AsciiCodec and AsciiVideo for pictures of any size, any    *)
(* longest run and any bounds on what is under way: the receiver's picture *)
(* is one that the sender encoded.                                         *)
(*                                                                         *)
(* First the codec: a delta, applied to the picture it was computed from,  *)
(* restores the new picture.  encodeDelta and the loop of applyDelta are   *)
(* recursive functions, so the proof is by induction: first that each      *)
(* satisfies its own equation, then what it computes (Describes: runs is a *)
(* correct delta of the cells from k on; Upto: the first n runs are        *)
(* applied).                                                               *)
(*                                                                         *)
(* Then the path: the decoder only ever applies a delta to the picture     *)
(* that delta was computed from, whatever is dropped, lost, replaced or    *)
(* reordered.  A sequence number stands for one picture, and               *)
(* PictureFaithful is not inductive without that: Numbered says of every   *)
(* delta under way that whatever has the number before its own, another    *)
(* frame or the decoder, is the picture it was computed from.              *)
(***************************************************************************)
EXTENDS AsciiVideo, WellFoundedInduction, TLAPS

----------------------------------------------------------------------------
\* Induction.  The library's principle takes an operator, which the provers
\* cannot instantiate; here it is said of sets.

\* The order of the natural numbers as a well-founded relation.
LEMMA LessThan ==
  \E R : IsWellFoundedOn(R, Nat) /\ \A x, y \in Nat : <<y, x>> \in R <=> y < x
<1> WITNESS OpToRel(<, Nat)
<1>1. IsWellFoundedOn(OpToRel(<, Nat), Nat)
  BY NatLessThanWellFounded, Zenon
<1>2. \A x, y \in Nat : <<y, x>> \in OpToRel(<, Nat) <=> y < x
  BY DEF OpToRel
<1> QED  BY <1>1, <1>2, Zenon

\* A set of natural numbers has a least element.
LEMMA Least ==
  ASSUME NEW T \in SUBSET Nat, T # {}
  PROVE  \E m \in T : \A n \in T : m <= n
<1>1. PICK R : IsWellFoundedOn(R, Nat) /\ \A x, y \in Nat : <<y, x>> \in R <=> y < x
  BY LessThan
<1>2. PICK m \in T : \A n \in T : ~(<<n, m>> \in R)
  BY <1>1, WFMin
<1>3. \A n \in T : ~(n < m)
  BY <1>1, <1>2
<1> QED  BY <1>3

\* Induction over the natural numbers.
LEMMA Induction ==
  ASSUME NEW S, 0 \in S, \A n \in Nat : n \in S => n + 1 \in S
  PROVE  \A n \in Nat : n \in S
<1> DEFINE T == Nat \ S
<1> SUFFICES ASSUME T # {} PROVE FALSE
  OBVIOUS
<1>1. PICK m \in T : \A n \in T : m <= n
  BY Least
<1>2. m \in Nat \ {0} /\ m - 1 \in Nat /\ m - 1 \notin T
  BY <1>1
<1>3. m - 1 + 1 \in S
  BY <1>2
<1> QED  BY <1>2, <1>3

----------------------------------------------------------------------------
\* applyDelta.

\* The loop over the runs is well defined.
LEMMA LoopDefined ==
  ASSUME NEW cells, NEW runs, Len(runs) \in Nat
  PROVE  \E f : /\ f = [n \in 0..Len(runs) |->
                          IF n = 0 THEN cells ELSE applyRun(f[n - 1], runs[n])]
                /\ applyDelta(cells, runs) = f[Len(runs)]
<1> DEFINE Loop(f, m) ==
      f = [n \in 0..m |-> IF n = 0 THEN cells ELSE applyRun(f[n - 1], runs[n])]
    S == {m \in Nat : \E f : Loop(f, m)}
    g == CHOOSE f : Loop(f, Len(runs))
<1>1. 0 \in S
  <2>1. Loop([n \in 0..0 |-> cells], 0)
    OBVIOUS
  <2> QED  BY <2>1
<1>2. ASSUME NEW m \in Nat, m \in S PROVE m + 1 \in S
  <2>1. PICK f : Loop(f, m)
    BY <1>2
  <2> DEFINE h == [n \in 0..(m + 1) |->
                     IF n = m + 1 THEN applyRun(f[m], runs[m + 1]) ELSE f[n]]
  <2>2. \A n \in 0..m : h[n] = f[n]
    OBVIOUS
  <2>3. \A n \in 0..(m + 1) :
          h[n] = IF n = 0 THEN cells ELSE applyRun(h[n - 1], runs[n])
    <3> SUFFICES ASSUME NEW n \in 0..(m + 1)
                 PROVE  h[n] = IF n = 0 THEN cells ELSE applyRun(h[n - 1], runs[n])
      OBVIOUS
    <3>1. CASE n = m + 1
      BY <3>1, <2>2
    <3>2. CASE n \in 0..m
      <4>1. h[n] = f[n] /\ (n # 0 => n - 1 \in 0..m /\ h[n - 1] = f[n - 1])
        BY <2>2, <3>2
      <4>2. f[n] = IF n = 0 THEN cells ELSE applyRun(f[n - 1], runs[n])
        BY <2>1, <3>2
      <4> HIDE DEF h
      <4> QED  BY <4>1, <4>2
    <3> QED  BY <3>1, <3>2
  <2>4. Loop(h, m + 1)
    BY <2>3
  <2> HIDE DEF h
  <2> QED  BY <2>4
<1>3. \E f : Loop(f, Len(runs))
  <2> HIDE DEF Loop
  <2>1. Len(runs) \in S
    <3> HIDE DEF S
    <3> QED  BY <1>1, <1>2, Induction
  <2> QED  BY <2>1
<1>4. applyDelta(cells, runs) = g[Len(runs)]
  BY DEF applyDelta
<1>5. Loop(g, Len(runs))
  <2> HIDE DEF Loop
  <2> QED  BY <1>3
<1> HIDE DEF g
<1> QED  BY <1>4, <1>5

----------------------------------------------------------------------------
\* encodeDelta.  The two pictures have size cells.

\* The run of changed cells that starts at start exists: it ends where the
\* first of its three reasons to end holds.
LEMMA RunEndExists ==
  ASSUME NEW size \in Nat, NEW previous, NEW current, Len(current) = size,
         NEW start \in 1..size, current[start] # previous[start]
  PROVE  LET last == RunEnd(previous, current, start)
         IN  /\ last \in start..size /\ last - start < MaxRun
             /\ \A i \in start..last : current[i] # previous[i]
<1> DEFINE Ends(last) == \/ last = size
                         \/ last - start = MaxRun - 1
                         \/ current[last + 1] = previous[last + 1]
           T == {last \in start..size : Ends(last)}
           Is(last) == /\ last - start < MaxRun
                       /\ \A i \in start..last : current[i] # previous[i]
                       /\ Ends(last)
<1>1. T \in SUBSET Nat /\ T # {}
  OBVIOUS
<1>2. PICK m \in T : \A n \in T : m <= n
  BY <1>1, Least
<1>3. m \in start..size /\ Ends(m)
  BY <1>2
<1>4. \A n \in start..size : n < m => ~Ends(n)
  BY <1>2
<1>5. m - start < MaxRun
  <2> SUFFICES ASSUME ~(m - start < MaxRun) PROVE FALSE
    OBVIOUS
  <2>1. start + MaxRun - 1 \in start..size /\ start + MaxRun - 1 < m
    BY <1>3, CodecAssumption
  <2>2. Ends(start + MaxRun - 1)
    BY CodecAssumption
  <2> QED  BY <1>4, <2>1, <2>2
<1>6. ASSUME NEW i \in start..m PROVE current[i] # previous[i]
  <2>1. CASE i = start
    BY <2>1
  <2>2. CASE i # start
    <3>1. i - 1 \in start..size /\ i - 1 < m /\ i - 1 + 1 = i
      BY <1>3, <2>2
    <3> QED  BY <1>4, <3>1
  <2> QED  BY <2>1, <2>2
<1>7. m \in start..size /\ Is(m)
  BY <1>3, <1>5, <1>6
<1> DEFINE last == CHOOSE n \in start..size : Is(n)
<1>8. RunEnd(previous, current, start) = last
  BY DEF RunEnd
<1>9. last \in start..size /\ Is(last)
  <2> HIDE DEF Is
  <2> QED  BY <1>7
<1> HIDE DEF last
<1> QED  BY <1>8, <1>9

\* One step of the encoder: what it makes of the cells from i on, if runs has
\* what it made of the cells after them.
Runs(previous, current, runs, i) ==
    IF i > Len(current) THEN <<>>
    ELSE IF current[i] = previous[i] THEN runs[i + 1]
    ELSE LET last == RunEnd(previous, current, i)
         IN  <<[start |-> i, cells |-> SubSeq(current, i, last)]>> \o runs[last + 1]

\* The step looks only at later cells.
LEMMA RunsLocal ==
  ASSUME NEW size \in Nat, NEW previous, NEW current, Len(current) = size,
         NEW i \in 1..(size + 1), NEW g, NEW h,
         \A j \in (i + 1)..(size + 1) : g[j] = h[j]
  PROVE  Runs(previous, current, g, i) = Runs(previous, current, h, i)
<1>1. CASE i = size + 1
  BY <1>1 DEF Runs
<1>2. CASE i \in 1..size /\ current[i] = previous[i]
  BY <1>2 DEF Runs
<1>3. CASE i \in 1..size /\ current[i] # previous[i]
  <2>1. PICK last : last = RunEnd(previous, current, i) /\ last \in i..size
    BY <1>3, RunEndExists
  <2>2. g[last + 1] = h[last + 1]
    BY <2>1
  <2> QED  BY <1>3, <2>1, <2>2 DEF Runs
<1> QED  BY <1>1, <1>2, <1>3

\* The encoder is well defined.
LEMMA EncoderDefined ==
  ASSUME NEW size \in Nat, NEW previous, NEW current,
         Len(current) = size, Len(previous) = size
  PROVE  \E f : /\ \A i \in 1..(size + 1) : f[i] = Runs(previous, current, f, i)
                /\ encodeDelta(previous, current) = f[1]
<1> DEFINE Part(f, d) ==
      f = [i \in (size + 1 - d)..(size + 1) |-> Runs(previous, current, f, i)]
    S == {d \in Nat : d <= size => \E f : Part(f, d)}
    Whole(f) == f = [i \in 1..(size + 1) |-> Runs(previous, current, f, i)]
    g == CHOOSE f : Whole(f)
<1>1. 0 \in S
  <2> DEFINE h == [i \in (size + 1)..(size + 1) |-> <<>>]
  <2>1. \A i \in (size + 1)..(size + 1) : Runs(previous, current, h, i) = <<>>
    BY DEF Runs
  <2>2. Part(h, 0)
    BY <2>1
  <2> HIDE DEF h
  <2> QED  BY <2>2
<1>2. ASSUME NEW d \in Nat, d \in S PROVE d + 1 \in S
  <2> SUFFICES ASSUME d + 1 <= size PROVE \E f : Part(f, d + 1)
    OBVIOUS
  <2>1. PICK f : Part(f, d)
    BY <1>2
  <2> DEFINE k == size + 1 - (d + 1)
             h == [i \in k..(size + 1) |->
                     IF i = k THEN Runs(previous, current, f, k) ELSE f[i]]
  <2>2. k \in 1..size /\ size + 1 - d = k + 1
    OBVIOUS
  <2> HIDE DEF k
  <2>3. \A i \in (k + 1)..(size + 1) : h[i] = f[i]
    BY <2>2
  <2>4. \A i \in (k + 1)..(size + 1) : f[i] = Runs(previous, current, f, i)
    BY <2>1, <2>2
  <2>5. h[k] = Runs(previous, current, f, k)
    BY <2>2
  <2>6. h = [i \in k..(size + 1) |-> h[i]]
    OBVIOUS
  <2> HIDE DEF h
  <2>7. \A i \in k..(size + 1) : h[i] = Runs(previous, current, h, i)
    <3> SUFFICES ASSUME NEW i \in k..(size + 1)
                 PROVE  h[i] = Runs(previous, current, h, i)
      OBVIOUS
    <3>1. i \in 1..(size + 1) /\ \A j \in (i + 1)..(size + 1) : f[j] = h[j]
      BY <2>2, <2>3
    <3>2. Runs(previous, current, f, i) = Runs(previous, current, h, i)
      BY <3>1, RunsLocal
    <3>3. h[i] = Runs(previous, current, f, i)
      BY <2>2, <2>3, <2>4, <2>5
    <3> QED  BY <3>2, <3>3
  <2>8. Part(h, d + 1)
    BY <2>6, <2>7 DEF k
  <2> QED  BY <2>8
<1>3. \E f : Whole(f)
  <2>1. size \in S
    <3> HIDE DEF S
    <3> QED  BY <1>1, <1>2, Induction
  <2>2. PICK f : Part(f, size)
    BY <2>1
  <2>3. Whole(f)
    BY <2>2
  <2> QED  BY <2>3
<1>4. encodeDelta(previous, current) = g[1]
  BY DEF encodeDelta, Runs
<1>5. Whole(g)
  <2> HIDE DEF Whole
  <2> QED  BY <1>3
<1> HIDE DEF g
<1> QED  BY <1>4, <1>5

----------------------------------------------------------------------------
\* What the delta holds.

Span(run) == run.start..(run.start + Len(run.cells) - 1)

\* A run of the delta: not empty, not too long, inside the picture, and its
\* cells are those of the new picture.
Correct(run, current, size) ==
    /\ run.start \in 1..size
    /\ Len(run.cells) \in 1..MaxRun /\ run.start + Len(run.cells) <= size + 1
    /\ \A i \in Span(run) : run.cells[i - run.start + 1] = current[i]

\* runs is a correct delta of the cells from k on.
Describes(runs, previous, current, size, k) ==
    /\ Len(runs) \in Nat /\ runs = [r \in 1..Len(runs) |-> runs[r]]
    /\ \A r \in 1..Len(runs) : Correct(runs[r], current, size)
    /\ \A i \in 1..size :
          (\E r \in 1..Len(runs) : i \in Span(runs[r])) <=> i >= k /\ previous[i] # current[i]

\* The run that the encoder makes.
RunOf(current, start, last) == [start |-> start, cells |-> SubSeq(current, start, last)]

\* It is correct and spans what it should.
LEMMA RunCorrect ==
  ASSUME NEW size \in Nat, NEW current \in [1..size -> Cell],
         NEW start \in 1..size, NEW last \in start..size, last - start < MaxRun
  PROVE  /\ Correct(RunOf(current, start, last), current, size)
         /\ Span(RunOf(current, start, last)) = start..last
<1> DEFINE cells == SubSeq(current, start, last)
           run == RunOf(current, start, last)
<1>1. cells = [i \in 1..(last - start + 1) |-> current[start + i - 1]]
  OBVIOUS
<1>2. Len(cells) = last - start + 1
  BY <1>1
<1>3. \A i \in start..last : cells[i - start + 1] = current[i]
  <2> SUFFICES ASSUME NEW i \in start..last PROVE cells[i - start + 1] = current[i]
    OBVIOUS
  <2>1. i - start + 1 \in 1..(last - start + 1) /\ start + (i - start + 1) - 1 = i
    OBVIOUS
  <2> QED  BY <1>1, <2>1
<1>4. run.start = start /\ run.cells = cells
  BY DEF RunOf
<1> HIDE DEF cells, run
<1>5. Span(run) = start..last
  BY <1>2, <1>4 DEF Span
<1>6. Correct(run, current, size)
  BY <1>2, <1>3, <1>4, <1>5, CodecAssumption DEF Correct
<1> QED  BY <1>5, <1>6 DEF run

\* One more run in front.
LEMMA RunInFront ==
  ASSUME NEW run, NEW runs, Len(runs) \in Nat, runs = [r \in 1..Len(runs) |-> runs[r]],
         NEW all, all = <<run>> \o runs
  PROVE  /\ Len(all) = Len(runs) + 1 /\ all = [r \in 1..Len(all) |-> all[r]]
         /\ all[1] = run /\ \A r \in 1..Len(runs) : all[r + 1] = runs[r]
<1>1. PICK R : runs \in Seq(R) /\ run \in R
  <2> DEFINE R == {run} \union {runs[r] : r \in 1..Len(runs)}
  <2>1. runs \in [1..Len(runs) -> R]
    OBVIOUS
  <2>2. runs \in Seq(R)
    BY <2>1
  <2> QED  BY <2>2
<1>2. <<run>> \in Seq(R) /\ Len(<<run>>) = 1
  BY <1>1
<1> QED  BY <1>1, <1>2

\* A step keeps the description correct.
LEMMA StepDescribes ==
  ASSUME NEW size \in Nat, NEW previous \in [1..size -> Cell],
         NEW current \in [1..size -> Cell], Len(current) = size,
         NEW f, NEW k \in 1..(size + 1),
         \A j \in (k + 1)..(size + 1) : Describes(f[j], previous, current, size, j)
  PROVE  Describes(Runs(previous, current, f, k), previous, current, size, k)
<1>1. CASE k = size + 1
  <2>1. Runs(previous, current, f, k) = <<>>
    BY <1>1 DEF Runs
  <2>2. Len(<<>>) = 0 /\ <<>> = [r \in 1..0 |-> <<>>[r]]
    OBVIOUS
  <2> QED  BY <1>1, <2>1, <2>2 DEF Describes
<1>2. CASE k \in 1..size /\ current[k] = previous[k]
  <2>1. Runs(previous, current, f, k) = f[k + 1]
    BY <1>2 DEF Runs
  <2>2. Describes(f[k + 1], previous, current, size, k + 1)
    BY <1>2
  <2>3. \A i \in 1..size : i >= k /\ previous[i] # current[i]
                             <=> i >= k + 1 /\ previous[i] # current[i]
    BY <1>2
  <2> QED  BY <2>1, <2>2, <2>3 DEF Describes
<1>3. CASE k \in 1..size /\ current[k] # previous[k]
  <2>1. PICK last : /\ last = RunEnd(previous, current, k)
                    /\ last \in k..size /\ last - k < MaxRun
                    /\ \A i \in k..last : current[i] # previous[i]
    BY <1>3, RunEndExists
  <2>r. PICK run : run = RunOf(current, k, last)
    OBVIOUS
  <2>s. PICK rest : rest = f[last + 1]
    OBVIOUS
  <2>a. PICK all : all = <<run>> \o rest
    OBVIOUS
  <2>2. Runs(previous, current, f, k) = all
    BY <1>3, <2>1, <2>r, <2>s, <2>a DEF Runs, RunOf
  <2>3. Correct(run, current, size) /\ Span(run) = k..last
    BY <1>3, <2>1, <2>r, RunCorrect
  <2>4. Describes(rest, previous, current, size, last + 1)
    BY <1>3, <2>1, <2>s
  <2>5. /\ Len(all) = Len(rest) + 1 /\ all = [r \in 1..Len(all) |-> all[r]]
        /\ all[1] = run /\ \A r \in 1..Len(rest) : all[r + 1] = rest[r]
    BY <2>4, <2>a, RunInFront DEF Describes
  <2>6. Len(rest) \in Nat /\ Len(all) \in Nat
    BY <2>4, <2>5 DEF Describes
  <2>7. \A r \in 1..Len(all) : r = 1 \/ (r - 1 \in 1..Len(rest) /\ all[r] = rest[r - 1])
    BY <2>5, <2>6
  <2>8. \A r \in 1..Len(all) : Correct(all[r], current, size)
    BY <2>3, <2>4, <2>5, <2>7 DEF Describes
  <2>9. ASSUME NEW i \in 1..size
        PROVE  (\E r \in 1..Len(all) : i \in Span(all[r])) <=> i >= k /\ previous[i] # current[i]
    <3>1. (\E r \in 1..Len(all) : i \in Span(all[r]))
            <=> i \in Span(run) \/ \E r \in 1..Len(rest) : i \in Span(rest[r])
      <4>1. ASSUME NEW r \in 1..Len(all), i \in Span(all[r])
            PROVE  i \in Span(run) \/ \E q \in 1..Len(rest) : i \in Span(rest[q])
        BY <2>5, <2>7, <4>1
      <4>2. ASSUME i \in Span(run) PROVE \E r \in 1..Len(all) : i \in Span(all[r])
        <5>1. 1 \in 1..Len(all)
          BY <2>5, <2>6
        <5> QED  BY <2>5, <4>2, <5>1
      <4>3. ASSUME NEW q \in 1..Len(rest), i \in Span(rest[q])
            PROVE  \E r \in 1..Len(all) : i \in Span(all[r])
        <5>1. q + 1 \in 1..Len(all)
          BY <2>5, <2>6
        <5> QED  BY <2>5, <4>3, <5>1
      <4> QED  BY <4>1, <4>2, <4>3
    <3>2. (\E r \in 1..Len(rest) : i \in Span(rest[r]))
            <=> i >= last + 1 /\ previous[i] # current[i]
      BY <2>4 DEF Describes
    <3>3. i \in Span(run) <=> i >= k /\ i <= last
      BY <2>1, <2>3
    <3>4. i >= k /\ i <= last => previous[i] # current[i]
      BY <2>1, <1>3
    <3> QED  BY <3>1, <3>2, <3>3, <3>4, <2>1, <1>3
  <2> QED  BY <2>2, <2>5, <2>6, <2>8, <2>9 DEF Describes
<1> QED  BY <1>1, <1>2, <1>3

\* The delta of two pictures describes all cells that changed.
LEMMA DeltaDescribes ==
  ASSUME NEW size \in Nat, NEW previous \in [1..size -> Cell],
         NEW current \in [1..size -> Cell],
         Len(current) = size, Len(previous) = size
  PROVE  Describes(encodeDelta(previous, current), previous, current, size, 1)
<1>1. PICK f : /\ \A i \in 1..(size + 1) : f[i] = Runs(previous, current, f, i)
               /\ encodeDelta(previous, current) = f[1]
  BY EncoderDefined
<1> DEFINE Right(k) == Describes(f[k], previous, current, size, k)
           S == {d \in Nat : d <= size => \A k \in (size + 1 - d)..(size + 1) : Right(k)}
<1>2. ASSUME NEW k \in 1..(size + 1), \A j \in (k + 1)..(size + 1) : Right(j)
      PROVE  Right(k)
  <2>1. Describes(Runs(previous, current, f, k), previous, current, size, k)
    BY <1>2, StepDescribes
  <2> QED  BY <1>1, <2>1
<1> HIDE DEF Right
<1>3. 0 \in S
  <2>1. Right(size + 1)
    <3>1. \A j \in (size + 1 + 1)..(size + 1) : Right(j)
      OBVIOUS
    <3> QED  BY <1>2, <3>1
  <2> QED  BY <2>1
<1>4. ASSUME NEW d \in Nat, d \in S PROVE d + 1 \in S
  <2> SUFFICES ASSUME d + 1 <= size
               PROVE  \A k \in (size + 1 - (d + 1))..(size + 1) : Right(k)
    OBVIOUS
  <2>1. PICK n \in 1..size : n = size + 1 - (d + 1) /\ size + 1 - d = n + 1
    OBVIOUS
  <2>2. \A j \in (n + 1)..(size + 1) : Right(j)
    BY <1>4, <2>1
  <2>3. Right(n)
    BY <1>2, <2>2
  <2> QED  BY <2>1, <2>2, <2>3
<1>5. size \in S
  <2> HIDE DEF S
  <2> QED  BY <1>3, <1>4, Induction
<1>6. Right(1)
  BY <1>5
<1> QED  BY <1>1, <1>6 DEF Right

\* A picture in which the cells of the first n runs are new and the others old.
Upto(cells, runs, previous, current, size, n) ==
    /\ cells \in [1..size -> Cell]
    /\ \A i \in 1..size :
          cells[i] = IF \E r \in 1..n : i \in Span(runs[r]) THEN current[i] ELSE previous[i]

\* A run takes the picture one run further.
LEMMA RunApplied ==
  ASSUME NEW size \in Nat, NEW previous \in [1..size -> Cell],
         NEW current \in [1..size -> Cell],
         NEW runs, NEW n \in Nat, Correct(runs[n + 1], current, size),
         NEW cells, Upto(cells, runs, previous, current, size, n)
  PROVE  Upto(applyRun(cells, runs[n + 1]), runs, previous, current, size, n + 1)
<1> DEFINE run == runs[n + 1]
           new == applyRun(cells, run)
<1>1. cells \in [1..size -> Cell] /\ Len(cells) = size
  BY DEF Upto
<1>2. new = [i \in 1..size |-> IF i \in Span(run) THEN run.cells[i - run.start + 1] ELSE cells[i]]
  BY <1>1 DEF applyRun, Span
<1>3. \A i \in 1..size : new[i] = IF i \in Span(run) THEN current[i] ELSE cells[i]
  BY <1>2 DEF Correct
<1>4. new \in [1..size -> Cell]
  BY <1>1, <1>2, <1>3
<1> HIDE DEF new
<1>5. ASSUME NEW i \in 1..size
      PROVE  new[i] = IF \E r \in 1..(n + 1) : i \in Span(runs[r])
                      THEN current[i] ELSE previous[i]
  <2>1. (\E r \in 1..(n + 1) : i \in Span(runs[r]))
          <=> i \in Span(run) \/ \E r \in 1..n : i \in Span(runs[r])
    OBVIOUS
  <2>2. cells[i] = IF \E r \in 1..n : i \in Span(runs[r]) THEN current[i] ELSE previous[i]
    BY DEF Upto
  <2> QED  BY <1>3, <2>1, <2>2
<1> QED  BY <1>4, <1>5 DEF Upto, new

\* All runs of a delta together make the new picture.
LEMMA DeltaApplied ==
  ASSUME NEW size \in Nat, NEW previous \in [1..size -> Cell],
         NEW current \in [1..size -> Cell],
         NEW runs, Describes(runs, previous, current, size, 1)
  PROVE  applyDelta(previous, runs) = current
<1>1. Len(runs) \in Nat /\ \A r \in 1..Len(runs) : Correct(runs[r], current, size)
  BY DEF Describes
<1>2. PICK f : /\ f = [n \in 0..Len(runs) |->
                         IF n = 0 THEN previous ELSE applyRun(f[n - 1], runs[n])]
               /\ applyDelta(previous, runs) = f[Len(runs)]
  BY <1>1, LoopDefined
<1> DEFINE At(n) == Upto(f[n], runs, previous, current, size, n)
           S == {n \in Nat : n <= Len(runs) => At(n)}
<1>3. 0 \in S
  <2>1. f[0] = previous
    BY <1>1, <1>2
  <2> QED  BY <2>1 DEF Upto
<1>4. ASSUME NEW n \in Nat, n \in S PROVE n + 1 \in S
  <2> SUFFICES ASSUME n + 1 <= Len(runs) PROVE At(n + 1)
    OBVIOUS
  <2>1. f[n + 1] = applyRun(f[n], runs[n + 1])
    <3>1. n + 1 \in 0..Len(runs) /\ n + 1 # 0 /\ n + 1 - 1 = n
      BY <1>1
    <3> QED  BY <1>2, <3>1
  <2>2. At(n) /\ Correct(runs[n + 1], current, size)
    BY <1>1, <1>4
  <2> QED  BY <2>1, <2>2, RunApplied
<1>5. At(Len(runs))
  <2>1. Len(runs) \in S
    <3> HIDE DEF S
    <3> QED  BY <1>1, <1>3, <1>4, Induction
  <2> QED  BY <1>1, <2>1
<1>6. \A i \in 1..size : f[Len(runs)][i] = current[i]
  <2> SUFFICES ASSUME NEW i \in 1..size PROVE f[Len(runs)][i] = current[i]
    OBVIOUS
  <2>1. (\E r \in 1..Len(runs) : i \in Span(runs[r])) <=> previous[i] # current[i]
    BY DEF Describes
  <2> QED  BY <1>5, <2>1 DEF Upto
<1>7. f[Len(runs)] \in [1..size -> Cell]
  BY <1>5 DEF Upto
<1>8. ASSUME NEW cells \in [1..size -> Cell], \A i \in 1..size : cells[i] = current[i]
      PROVE  cells = current
  BY <1>8
<1> QED  BY <1>2, <1>6, <1>7, <1>8

\* For pictures of any size, any cells and any longest run: applying the delta
\* of two pictures to the first gives the second, the decoder refuses no run
\* of it, and it names exactly the cells that changed.
THEOREM CodecIsCorrect ==
  \A size \in Nat : \A previous, current \in [1..size -> Cell] : Restores(previous, current)
<1> SUFFICES ASSUME NEW size \in Nat, NEW previous \in [1..size -> Cell],
                    NEW current \in [1..size -> Cell]
             PROVE  Restores(previous, current)
  OBVIOUS
<1>1. Len(previous) = size /\ Len(current) = size
  OBVIOUS
<1>2. PICK runs : runs = encodeDelta(previous, current)
  OBVIOUS
<1>3. Describes(runs, previous, current, size, 1)
  BY <1>1, <1>2, DeltaDescribes
<1>4. applyDelta(previous, runs) = current
  BY <1>3, DeltaApplied
<1>5. \A r \in 1..Len(runs) : ValidRun(current, runs[r]) /\ Len(runs[r].cells) <= MaxRun
  BY <1>1, <1>3, CodecAssumption DEF Describes, Correct, ValidRun
<1>6. UNION {Span(runs[r]) : r \in 1..Len(runs)} = {i \in 1..size : previous[i] # current[i]}
  <2>1. \A r \in 1..Len(runs) : Span(runs[r]) \subseteq 1..size
    BY <1>3, CodecAssumption DEF Describes, Correct, Span
  <2>2. \A i \in 1..size :
          (\E r \in 1..Len(runs) : i \in Span(runs[r])) <=> previous[i] # current[i]
    BY <1>3 DEF Describes
  <2> QED  BY <2>1, <2>2
<1> QED  BY <1>1, <1>2, <1>4, <1>5, <1>6 DEF Restores, Span

\* The codec never fails, in particular for the pictures TLC tries.
THEOREM CodecRoundTrip == Spec => []RoundTrip
<1>1. RoundTrip
  BY CodecIsCorrect, VideoAssumption DEF RoundTrip
<1> QED  BY <1>1, PTL

\* The same for the pictures of the video.
LEMMA CodecRestores == \A previous, current \in Picture : Restores(previous, current)
  BY CodecIsCorrect, VideoAssumption DEF Picture

----------------------------------------------------------------------------
\* The video path.

UnderWay == ({outbound, inbound} \ {NoFrame}) \union network

Shapes ==
    /\ UnderWay \subseteq Frame
    /\ encoder \in [previous : Picture \union {NoPicture}, age : Nat, forceKey : BOOLEAN]
    /\ decoder \in [cells : Picture \union {NoPicture}, behind : 0..Forgotten]

\* Number 0 is the picture the encoder made last.
Latest ==
    /\ \A f \in UnderWay : f.behind = 0 => f.truth = encoder.previous
    /\ decoder.behind = 0 => shown = encoder.previous

\* The picture a delta was computed from has the number before the delta's.
Follows(f, base) ==
    /\ f.payload = encodeDelta(base, f.truth)
    /\ \A g \in UnderWay : g.behind = f.behind + 1 => g.truth = base
    /\ decoder.behind = f.behind + 1 => shown = base

Numbered ==
    \A f \in UnderWay :
        IF f.type = "KEY" THEN f.payload[1].cells = f.truth
        ELSE \E base \in Picture : Follows(f, base)

\* The inductive invariant.
VideoInv == Shapes /\ Latest /\ Numbered /\ PictureFaithful

----------------------------------------------------------------------------
\* Nothing is under way at the start.
LEMMA InitInv == Init => VideoInv
  BY VideoAssumption
  DEF Init, VideoInv, Shapes, Latest, Numbered, PictureFaithful, UnderWay, Forgotten

\* Frames are handed on, lost or dropped; encoder and decoder keep their
\* pictures.
LEMMA FewerFrames ==
  ASSUME VideoInv, UnderWay' \subseteq UnderWay,
         encoder' \in [previous : Picture \union {NoPicture}, age : Nat, forceKey : BOOLEAN],
         encoder'.previous = encoder.previous, UNCHANGED <<decoder, shown>>
  PROVE  VideoInv'
<1>1. Shapes' /\ Latest' /\ PictureFaithful'
  BY DEF VideoInv, Shapes, Latest, PictureFaithful
<1>2. \A f, base : Follows(f, base) => Follows(f, base)'
  BY DEF Follows
<1>3. Numbered'
  BY <1>2 DEF VideoInv, Numbered
<1> QED  BY <1>1, <1>3 DEF VideoInv

\* The decoder takes a frame: a delta, only with the picture it follows.
LEMMA RenderInv ==
  ASSUME VideoInv, Render
  PROVE  VideoInv'
<1>1. /\ inbound \in UnderWay /\ inbound \in Frame /\ UnderWay' \subseteq UnderWay
      /\ encoder' = encoder
  BY DEF Render, VideoInv, Shapes, UnderWay
<1>2. Decoded(inbound) = inbound.truth /\ inbound.truth \in Picture
  <2>1. CASE inbound.type = "KEY"
    BY <1>1, <2>1 DEF VideoInv, Numbered, Decoded, Frame
  <2>2. CASE inbound.type = "DELTA"
    <3>1. PICK base \in Picture : Follows(inbound, base)
      BY <1>1, <2>2 DEF VideoInv, Numbered
    <3>2. decoder.cells = base
      BY <2>2, <3>1 DEF Render, Decodes, Follows, VideoInv, PictureFaithful
    <3>3. applyDelta(base, encodeDelta(base, inbound.truth)) = inbound.truth
      BY <1>1, CodecRestores DEF Restores, Frame
    <3> QED  BY <1>1, <2>2, <3>1, <3>2, <3>3 DEF Follows, Decoded, Frame
  <2> QED  BY <1>1, <2>1, <2>2 DEF Frame
<1>3. decoder' = [cells |-> inbound.truth, behind |-> inbound.behind] /\ shown' = inbound.truth
  BY <1>2 DEF Render
<1>4. Shapes'
  BY <1>1, <1>2, <1>3, VideoAssumption DEF VideoInv, Shapes, Frame, Forgotten
<1>5. Latest'
  BY <1>1, <1>3 DEF VideoInv, Latest
<1>6. \A f, base : Follows(f, base) => Follows(f, base)'
  BY <1>1, <1>3 DEF Follows
<1>7. Numbered'
  BY <1>1, <1>6 DEF VideoInv, Numbered
<1> QED  BY <1>3, <1>4, <1>5, <1>7 DEF VideoInv, PictureFaithful

----------------------------------------------------------------------------
\* A picture is captured: all numbers move, and the new frame follows the
\* picture the encoder had.

\* What a frame under way is like when one more has been made.
LEMMA AgedFrame ==
  ASSUME NEW f \in Frame, f.behind < MaxLate
  PROVE  /\ Aged(f) \in Frame /\ Aged(f).behind = f.behind + 1
         /\ Aged(f).type = f.type /\ Aged(f).payload = f.payload /\ Aged(f).truth = f.truth
<1>1. f # NoFrame
  BY NoFrameAssumption
<1> QED  BY <1>1, VideoAssumption DEF Aged, Frame

\* The frame Encode makes: a delta only from a picture it has.
LEMMA NewFrame ==
  ASSUME Shapes, NEW picture \in Picture
  PROVE  LET f == Encode(picture).frame
         IN  /\ f \in Frame /\ f.behind = 0 /\ f.truth = picture
             /\ \/ f.type = "KEY" /\ f.payload[1].cells = f.truth
                \/ /\ f.type = "DELTA" /\ encoder.previous \in Picture
                   /\ f.payload = encodeDelta(encoder.previous, f.truth)
<1>1. CASE NeedsKey(picture)
  BY <1>1, VideoAssumption DEF Encode, Frame, Payload
<1>2. CASE ~NeedsKey(picture)
  <2>1. encoder.previous \in Picture
    BY <1>2 DEF NeedsKey, Shapes
  <2> QED  BY <1>2, <2>1, VideoAssumption DEF Encode, Frame, Payload
<1> QED  BY <1>1, <1>2

\* A new picture takes number 0; all that is under way moves back by one.
LEMMA CaptureInv ==
  ASSUME VideoInv, NEW picture \in Picture, NEW congested \in BOOLEAN,
         Capture(picture, congested)
  PROVE  VideoInv'
<1> DEFINE new == Encode(picture).frame
           Old(f) == \E g \in UnderWay : g \in Frame /\ g.behind < MaxLate /\ f = Aged(g)
<1>1. /\ new \in Frame /\ new.behind = 0 /\ new.truth = picture
      /\ \/ new.type = "KEY" /\ new.payload[1].cells = new.truth
         \/ /\ new.type = "DELTA" /\ encoder.previous \in Picture
            /\ new.payload = encodeDelta(encoder.previous, new.truth)
  BY NewFrame DEF VideoInv
<1>2. \A f \in UnderWay' : f = new \/ Old(f)
  <2>1. UnderWay \subseteq Frame
    BY DEF VideoInv, Shapes
  <2>2. \A f \in network' : Old(f)
    BY <2>1 DEF Capture, UnderWay
  <2>3. inbound' # NoFrame => Old(inbound')
    BY <2>1 DEF Capture, UnderWay, Aged
  <2>4. outbound' # NoFrame => outbound' = new \/ Old(outbound')
    BY <2>1 DEF Capture, UnderWay, Aged
  <2> QED  BY <2>2, <2>3, <2>4 DEF UnderWay
<1>3. /\ encoder' \in [previous : Picture \union {NoPicture}, age : Nat, forceKey : BOOLEAN]
      /\ encoder'.previous = picture
  <2>1. encoder.age \in Nat /\ encoder.forceKey \in BOOLEAN
    BY DEF VideoInv, Shapes
  <2>2. PICK age \in Nat, force \in BOOLEAN :
           encoder' = [previous |-> picture, age |-> age, forceKey |-> force]
    <3>1. CASE NeedsKey(picture)
      BY <3>1 DEF Capture, Encode
    <3>2. CASE ~NeedsKey(picture)
      <4>1. encoder' = [previous |-> picture, age |-> encoder.age + 1,
                        forceKey |-> encoder.forceKey]
        BY <3>2 DEF Capture, Encode
      <4>2. encoder.age + 1 \in Nat
        BY <2>1
      <4> QED  BY <2>1, <4>1, <4>2, Zenon
    <3> QED  BY <3>1, <3>2
  <2> QED  BY <2>2
<1>4. /\ decoder' \in [cells : Picture \union {NoPicture}, behind : 0..Forgotten]
      /\ decoder'.cells = decoder.cells /\ shown' = shown
      /\ decoder'.behind # 0
      /\ decoder'.behind # Forgotten => decoder'.behind = decoder.behind + 1
  <2>1. /\ decoder.behind \in 0..Forgotten /\ Behind(decoder.behind) \in (0..Forgotten) \ {0}
        /\ Behind(decoder.behind) # Forgotten => Behind(decoder.behind) = decoder.behind + 1
    BY VideoAssumption DEF VideoInv, Shapes, Behind, Forgotten
  <2>2. decoder'.cells = decoder.cells /\ decoder'.behind = Behind(decoder.behind) /\ shown' = shown
    BY DEF Capture, VideoInv, Shapes
  <2>3. decoder' \in [cells : Picture \union {NoPicture}, behind : 0..Forgotten]
    BY <2>1 DEF Capture, VideoInv, Shapes
  <2> QED  BY <2>1, <2>2, <2>3
<1> HIDE DEF new
<1>5. \A f \in UnderWay' :
         \/ f = new
         \/ \E g \in UnderWay : /\ g \in Frame /\ f \in Frame /\ f.behind = g.behind + 1
                                /\ f.type = g.type /\ f.payload = g.payload /\ f.truth = g.truth
  BY <1>2, AgedFrame
<1>6. Shapes' /\ PictureFaithful'
  BY <1>1, <1>3, <1>4, <1>5 DEF VideoInv, Shapes, PictureFaithful
<1>7. Latest'
  BY <1>1, <1>3, <1>4, <1>5 DEF Latest, Frame
<1>8. Numbered'
  <2> SUFFICES ASSUME NEW f \in UnderWay', f.type # "KEY"
               PROVE  \E base \in Picture : Follows(f, base)'
    BY <1>1, <1>5 DEF Numbered, VideoInv
  <2>0. decoder.behind \in Nat /\ f.behind + 1 # Forgotten
    BY <1>6, VideoAssumption DEF VideoInv, Shapes, Frame, Forgotten
  <2>1. CASE f = new
    <3>1. PICK base \in Picture : base = encoder.previous
      BY <1>1, <2>1
    <3>2. f.payload = encodeDelta(base, f.truth)
      BY <1>1, <2>1, <3>1
    <3>3. \A g \in UnderWay' : g.behind = f.behind + 1 => g.truth = base
      BY <1>1, <1>5, <2>1, <3>1 DEF VideoInv, Latest, Frame
    <3>4. decoder'.behind = f.behind + 1 => shown' = base
      BY <1>1, <1>4, <2>0, <2>1, <3>1 DEF VideoInv, Latest
    <3> QED  BY <3>2, <3>3, <3>4 DEF Follows
  <2>2. CASE f # new
    <3>1. PICK old \in UnderWay :
             /\ old \in Frame /\ f \in Frame /\ f.behind = old.behind + 1
             /\ f.type = old.type /\ f.payload = old.payload /\ f.truth = old.truth
      BY <1>5, <2>2
    <3>2. PICK base \in Picture : Follows(old, base)
      BY <3>1 DEF VideoInv, Numbered
    <3>3. \A g \in UnderWay' : g.behind = f.behind + 1 => g.truth = base
      BY <1>1, <1>5, <3>1, <3>2 DEF Follows, Frame
    <3>4. decoder'.behind = f.behind + 1 => shown' = base
      BY <1>4, <2>0, <3>1, <3>2 DEF Follows, Frame
    <3> QED  BY <3>1, <3>2, <3>3, <3>4 DEF Follows
  <2> QED  BY <2>1, <2>2
<1> QED  BY <1>6, <1>7, <1>8 DEF VideoInv

\* Every step keeps the invariant.
LEMMA VideoNextInv == VideoInv /\ [Next]_vars => VideoInv'
<1> SUFFICES ASSUME VideoInv, [Next]_vars PROVE VideoInv'
  OBVIOUS
<1>1. CASE \E picture \in Picture, congested \in BOOLEAN : Capture(picture, congested)
  BY <1>1, CaptureInv
<1>2. CASE Render
  BY <1>2, RenderInv
<1>3. CASE ForceKeyframe
  <2>1. /\ encoder' \in [previous : Picture \union {NoPicture}, age : Nat, forceKey : BOOLEAN]
        /\ encoder'.previous = encoder.previous
    BY <1>3 DEF ForceKeyframe, VideoInv, Shapes
  <2>2. UnderWay' = UnderWay /\ UNCHANGED <<decoder, shown>>
    BY <1>3 DEF ForceKeyframe, UnderWay
  <2> QED  BY <2>1, <2>2, FewerFrames
<1>4. CASE \/ OpenVideo \/ Reject \/ UNCHANGED vars
           \/ \E congested \in BOOLEAN : SendFrame(congested)
           \/ \E frame \in network : Lose(frame) \/ Receive(frame)
  <2>1. UNCHANGED <<encoder, decoder, shown>>
    BY <1>4 DEF OpenVideo, Reject, SendFrame, Lose, Receive, vars
  <2>2. UnderWay' \subseteq UnderWay
    BY <1>4 DEF OpenVideo, Reject, SendFrame, Lose, Receive, vars, UnderWay
  <2>3. encoder' \in [previous : Picture \union {NoPicture}, age : Nat, forceKey : BOOLEAN]
    BY <2>1 DEF VideoInv, Shapes
  <2> QED  BY <2>1, <2>2, <2>3, FewerFrames
<1> QED  BY <1>1, <1>2, <1>3, <1>4 DEF Next

----------------------------------------------------------------------------
\* The inductive invariant, for pictures of any size and any network.
THEOREM VideoInvariant == Spec => []VideoInv
  BY InitInv, VideoNextInv, PTL DEF Spec

\* The receiver shows exactly a picture the sender encoded, whatever was
\* dropped, lost, replaced or reordered: the check of the sequence number in
\* Decoder.Decode is enough.
THEOREM PictureIsFaithful == Spec => []PictureFaithful
<1>1. VideoInv => PictureFaithful
  BY DEF VideoInv
<1> QED  BY <1>1, VideoInvariant, PTL
=============================================================================
