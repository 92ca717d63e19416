--------------------------- MODULE ChunkerProofs ---------------------------
(***************************************************************************)
(* Theorems about Chunker, for texts of any length and any chunk size,      *)
(* overlap and look-back.                                                   *)
(***************************************************************************)
EXTENDS Chunker, FiniteSetTheorems, WellFoundedInduction, TLAPS

Last == chunks[Len(chunks)]

\* What the loop knows at its head: the last chunk cut ends short of the text,
\* and start lies inside it or right at its end.
LoopInv ==
    pc = "loop" =>
        /\ chunks = <<>> => start = 0
        /\ chunks # <<>> => Last.from < start /\ start <= Last.to /\ Last.to < Length
        /\ chunks # <<>> /\ RoomToAdvance => start + Overlap = Last.to
        /\ start < Length

Inv ==
    /\ TypeOK /\ LoopInv /\ NoGap /\ ChunkBounds /\ EachChunkAddsText
    /\ pc = "strip" => chunks = <<>> /\ start = 0

\* What the assumption says of the call's arguments.
LEMMA SettingTypes ==
  ASSUME setting \in Settings
  PROVE  /\ ChunkSize \in Nat \ {0}
         /\ Overlap \in Nat
         /\ LookBack \in Nat
  BY ChunkerAssumption DEF ChunkerAssumption, Setting, ChunkSize, Overlap, LookBack

\* A boundary lies in the window or at its end.
LEMMA BoundaryInWindow ==
  ASSUME LookBack \in Nat, NEW pos \in Nat, NEW b \in Int, FindBoundary(pos, b)
  PROVE  /\ b <= pos /\ 0 <= b
         /\ pos > 0 /\ LookBack = 0 => b = pos
         /\ LookBack > 0 /\ pos > LookBack => b > pos - LookBack
  BY DEF FindBoundary, LastOf, Window, WindowStart

LEMMA InitInv == Init => Inv
  BY ChunkerAssumption
  DEF ChunkerAssumption, Init, Inv, TypeOK, LoopInv, NoGap, ChunkBounds, EachChunkAddsText

LEMMA NextInv == Inv /\ [Next]_vars => Inv'
<1> SUFFICES ASSUME Inv, [Next]_vars PROVE Inv'
  OBVIOUS
<1>0. /\ ChunkSize \in Nat \ {0} /\ Overlap \in Nat /\ LookBack \in Nat
      /\ setting \in Settings
  BY SettingTypes DEF Inv, TypeOK
<1>s. /\ setting' = setting
      /\ ChunkSize' = ChunkSize /\ Overlap' = Overlap /\ LookBack' = LookBack
  BY DEF Next, vars, Blank, Strip, LastChunk, NextChunk, Finished, ChunkSize, Overlap, LookBack
<1> USE <1>0, <1>s
<1>1. CASE Blank
  BY <1>1 DEF Blank, Inv, TypeOK, LoopInv, NoGap, ChunkBounds, EachChunkAddsText, Length
<1>2. CASE Strip
  <2>1. PICK i, j \in Solid :
          /\ \A k \in Solid : i <= k /\ k <= j
          /\ text' = SubSeq(text, i, j)
          /\ IF j - i < ChunkSize
              THEN chunks' = <<Slice(0, j - i + 1)>> /\ pc' = "done"
              ELSE chunks' = <<>> /\ pc' = "loop"
    BY <1>2 DEF Strip
  <2>2. /\ i \in 1..Len(text) /\ j \in 1..Len(text) /\ i <= j
        /\ text \in Seq(Kinds) /\ start = 0 /\ start' = 0
    BY <1>2, <2>1 DEF Solid, Strip, Inv, TypeOK
  <2>3. text' \in Seq(Kinds) /\ Len(text') = j - i + 1
    BY <2>1, <2>2
  <2>4. CASE j - i < ChunkSize
    <3> DEFINE whole == Slice(0, j - i + 1)
    <3>1. /\ whole.from = 0 /\ whole.to = j - i + 1 /\ whole \in [from : Nat, to : Nat]
          /\ j - i + 1 \in Nat /\ j - i + 1 <= ChunkSize /\ Length' = j - i + 1
      BY <2>2, <2>3, <2>4 DEF Slice, Length
    <3> HIDE DEF whole
    <3>2. chunks' = <<whole>> /\ Len(chunks') = 1 /\ chunks'[1] = whole /\ pc' = "done"
      BY <2>1, <2>4 DEF whole
    <3>3. TypeOK' /\ LoopInv'
      BY <2>2, <2>3, <3>1, <3>2 DEF TypeOK, LoopInv
    <3>4. NoGap' /\ ChunkBounds' /\ EachChunkAddsText'
      BY <2>2, <3>1, <3>2 DEF NoGap, ChunkBounds, EachChunkAddsText
    <3> QED
      BY <3>2, <3>3, <3>4 DEF Inv
  <2>5. CASE ~(j - i < ChunkSize)
    <3>1. chunks' = <<>> /\ Len(chunks') = 0 /\ pc' = "loop" /\ Length' > 0
      BY <2>1, <2>2, <2>3, <2>5 DEF Length
    <3>2. TypeOK' /\ LoopInv'
      BY <2>2, <2>3, <3>1 DEF TypeOK, LoopInv
    <3>3. NoGap' /\ ChunkBounds' /\ EachChunkAddsText'
      BY <3>1 DEF NoGap, ChunkBounds, EachChunkAddsText
    <3> QED
      BY <3>1, <3>2, <3>3 DEF Inv
  <2> QED
    BY <2>4, <2>5
<1>3. ASSUME NEW from \in Nat, NEW to \in Nat, chunks' = Append(chunks, Slice(from, to)),
             pc = "loop", text' = text, from = start,
             from < to, to <= from + ChunkSize, to <= Length,
             RoomToAdvance /\ chunks # <<>> => Last.to < to,
             pc' = "done" => to = Length
      PROVE  /\ chunks' \in Seq([from : Nat, to : Nat]) /\ chunks' # <<>>
             /\ NoGap' /\ ChunkBounds' /\ EachChunkAddsText' /\ Last' = Slice(from, to)
  <2>1. /\ chunks \in Seq([from : Nat, to : Nat]) /\ Slice(from, to) \in [from : Nat, to : Nat]
        /\ Len(chunks) \in Nat
    BY DEF Inv, TypeOK, Slice
  <2>2. /\ Len(chunks') = Len(chunks) + 1 /\ chunks' \in Seq([from : Nat, to : Nat])
        /\ chunks'[Len(chunks) + 1] = Slice(from, to)
        /\ \A n \in 1..Len(chunks) : chunks'[n] = chunks[n]
        /\ \A n \in 1..Len(chunks) : chunks[n] \in [from : Nat, to : Nat]
    <3> DEFINE C == [from : Nat, to : Nat]
               e == Slice(from, to)
    <3> HIDE DEF C, e
    <3>1. chunks \in Seq(C) /\ e \in C /\ chunks' = Append(chunks, e)
      BY <1>3, <2>1 DEF C, e
    <3>2. /\ Len(chunks') = Len(chunks) + 1 /\ chunks' \in Seq(C)
          /\ chunks'[Len(chunks) + 1] = e
          /\ \A n \in 1..Len(chunks) : chunks'[n] = chunks[n]
          /\ \A n \in 1..Len(chunks) : chunks[n] \in C
      BY <3>1
    <3> QED
      BY <3>2 DEF C, e
  <2>3. /\ Slice(from, to).from = from /\ Slice(from, to).to = to
        /\ Len(chunks) > 0 => chunks # <<>>
    BY DEF Slice
  <2>4. NoGap'
    <3>1. Length' = Length /\ NoGap
      BY <1>3 DEF Inv, Length
    <3>2. chunks # <<>> => /\ from <= chunks[Len(chunks)].to /\ chunks'[1] = chunks[1]
                           /\ chunks[1].from = 0
      BY <1>3, <2>1, <2>2, <2>3, <3>1 DEF Inv, LoopInv, NoGap, Last
    <3>3. chunks = <<>> => from = 0 /\ chunks'[1] = Slice(from, to)
      BY <1>3, <2>2 DEF Inv, LoopInv
    <3>4. \A n \in 1..(Len(chunks') - 1) : chunks'[n + 1].from <= chunks'[n].to
      <4> SUFFICES ASSUME NEW n \in 1..Len(chunks)
                   PROVE  chunks'[n + 1].from <= chunks'[n].to
        BY <2>1, <2>2
      <4>1. CASE n = Len(chunks)
        <5>1. chunks # <<>> /\ chunks'[n] = chunks[n] /\ chunks'[n + 1] = Slice(from, to)
          BY <4>1, <2>1, <2>2, <2>3
        <5> QED
          BY <4>1, <5>1, <2>3, <3>2
      <4>2. CASE n < Len(chunks)
        <5>1. n \in 1..(Len(chunks) - 1) /\ n + 1 \in 1..Len(chunks)
          BY <4>2, <2>1
        <5>2. chunks'[n] = chunks[n] /\ chunks'[n + 1] = chunks[n + 1]
          BY <5>1, <2>1, <2>2
        <5> QED
          BY <5>1, <5>2, <3>1 DEF NoGap
      <4> QED
        BY <4>1, <4>2, <2>1
    <3>5. chunks'[Len(chunks')].to = to
      BY <2>1, <2>2, <2>3
    <3> QED
      BY <1>3, <2>3, <3>1, <3>2, <3>3, <3>4, <3>5 DEF NoGap
  <2>5. ChunkBounds'
    BY <1>3, <2>1, <2>2, <2>3 DEF Inv, ChunkBounds, Length
  <2>6. EachChunkAddsText'
    <3>1. ASSUME RoomToAdvance, NEW n \in 1..Len(chunks)
          PROVE chunks'[n].to < chunks'[n + 1].to
      <4>1. CASE n = Len(chunks)
        <5>1. chunks # <<>> /\ chunks'[n] = Last
          BY <4>1, <2>1, <2>2, <2>3 DEF Last
        <5>2. chunks'[n + 1] = Slice(from, to)
          BY <4>1, <2>2
        <5> QED
          BY <3>1, <5>1, <5>2, <1>3, <2>3
      <4>2. CASE n < Len(chunks)
        <5>1. n \in 1..(Len(chunks) - 1) /\ n + 1 \in 1..Len(chunks)
          BY <4>2, <2>1
        <5>2. chunks'[n] = chunks[n] /\ chunks'[n + 1] = chunks[n + 1]
          BY <5>1, <2>1, <2>2
        <5> QED
          BY <3>1, <5>1, <5>2 DEF Inv, EachChunkAddsText
      <4> QED
        BY <4>1, <4>2, <2>1
    <3>2. Len(chunks') - 1 = Len(chunks)
      BY <2>1, <2>2
    <3>3. RoomToAdvance' <=> RoomToAdvance
      BY DEF RoomToAdvance
    <3> QED
      BY <3>1, <3>2, <3>3 DEF EachChunkAddsText
  <2> QED
    BY <2>1, <2>2, <2>4, <2>5, <2>6 DEF Last
<1>4. CASE LastChunk
  <2>1. /\ Length \in Nat /\ start \in Nat /\ start < Length /\ pc = "loop" /\ text' = text
        /\ start' = start /\ pc' = "done" /\ Length <= start + ChunkSize
        /\ chunks' = Append(chunks, Slice(start, Length))
    BY <1>4 DEF LastChunk, Inv, LoopInv, TypeOK, Length
  <2>2. chunks # <<>> => Last.to < Length
    BY <2>1 DEF Inv, LoopInv
  <2> QED
    BY <1>3, <2>1, <2>2 DEF Inv, TypeOK, LoopInv
<1>5. CASE NextChunk
  <2>1. /\ Length \in Nat /\ start \in Nat /\ pc = "loop" /\ pc' = "loop" /\ text' = text
        /\ start + ChunkSize < Length
    BY <1>5 DEF NextChunk, Inv, TypeOK, Length
  <2>2. PICK b \in 0..Length :
          /\ FindBoundary(start + ChunkSize, b)
          /\ chunks' = Append(chunks, Slice(start, BoundaryAhead(b)))
          /\ start' = NextStart(BoundaryAhead(b))
    BY <1>5 DEF NextChunk
  <2> DEFINE cut == BoundaryAhead(b)
  <2>3. /\ cut \in Nat /\ start < cut /\ cut <= start + ChunkSize
        /\ RoomToAdvance => start + Overlap < cut
    <3>1. start + ChunkSize \in Nat /\ b \in Int
      BY <2>1
    <3>2. /\ b <= start + ChunkSize /\ 0 <= b
          /\ LookBack = 0 => b = start + ChunkSize
          /\ LookBack > 0 /\ start + ChunkSize > LookBack => b > start + ChunkSize - LookBack
      BY <2>1, <2>2, <3>1, BoundaryInWindow
    <3> QED
      BY <2>1, <3>2 DEF BoundaryAhead, RoomToAdvance
  <2>4. /\ start' \in Nat /\ start < start' /\ start' <= cut
        /\ RoomToAdvance => start' + Overlap = cut
    BY <2>1, <2>2, <2>3 DEF NextStart, RoomToAdvance
  <2>5. RoomToAdvance /\ chunks # <<>> => Last.to < cut
    BY <2>1, <2>3 DEF Inv, LoopInv
  <2> HIDE DEF cut
  <2>6. /\ chunks' \in Seq([from : Nat, to : Nat]) /\ chunks' # <<>>
        /\ NoGap' /\ ChunkBounds' /\ EachChunkAddsText' /\ Last' = Slice(start, cut)
    BY <1>3, <2>1, <2>2, <2>3, <2>5 DEF cut
  <2>7. TypeOK'
    BY <2>1, <2>4, <2>6 DEF Inv, TypeOK
  <2>8. LoopInv'
    <3>1. Last'.from = start /\ Last'.to = cut /\ Length' = Length
      BY <2>1, <2>6 DEF Slice, Length
    <3>2. RoomToAdvance' <=> RoomToAdvance
      BY DEF RoomToAdvance
    <3>3. start' < Length /\ cut < Length
      BY <2>1, <2>3, <2>4
    <3>4. RoomToAdvance' => start' + Overlap = Last'.to
      BY <2>4, <3>1, <3>2
    <3> QED
      BY <2>4, <2>6, <3>1, <3>3, <3>4 DEF LoopInv
  <2> QED
    BY <2>1, <2>6, <2>7, <2>8 DEF Inv
<1>6. CASE UNCHANGED vars
  BY <1>6 DEF vars, Inv, TypeOK, LoopInv, NoGap, ChunkBounds, EachChunkAddsText, RoomToAdvance, Last, Length
<1> QED
  BY <1>1, <1>2, <1>4, <1>5, <1>6 DEF Next, Finished

LEMMA Inductive == Spec => []Inv
  BY InitInv, NextInv, PTL DEF Spec

\* The loop of chunk_text keeps its types: no position ever becomes negative.
THEOREM ChunkTypes == Spec => []TypeOK
<1>1. Inv => TypeOK
  BY DEF Inv
<1> QED
  BY <1>1, Inductive, PTL

\* chunk_text skips no character of the stripped text.
THEOREM ChunksCoverText == Spec => []NoGap
<1>1. Inv => NoGap
  BY DEF Inv
<1> QED
  BY <1>1, Inductive, PTL

\* No chunk is empty or longer than chunk_size.
THEOREM ChunksBounded == Spec => []ChunkBounds
<1>1. Inv => ChunkBounds
  BY DEF Inv
<1> QED
  BY <1>1, Inductive, PTL

\* With chunk_size above the look-back and the overlap together, the loop's
\* guards never act and no chunk only repeats text of the one before.
THEOREM ChunksAddText == Spec => []EachChunkAddsText
<1>1. Inv => EachChunkAddsText
  BY DEF Inv
<1> QED
  BY <1>1, Inductive, PTL

-----------------------------------------------------------------------------
(* What the caller gets *)

\* Every position up to the end of the last chunk is in a chunk; no chunk at the
\* return means that there is nothing to embed.
Covered ==
    /\ chunks # <<>> => \A i \in 0..(Last.to - 1) :
           \E n \in 1..Len(chunks) : chunks[n].from <= i /\ i < chunks[n].to
    /\ pc = "done" /\ chunks = <<>> => Solid = {}

\* A bounded set of positions has a least and a greatest one, which strip()
\* finds from its two ends.
LEMMA LeastAndGreatest ==
  ASSUME NEW n \in Nat, NEW S \in SUBSET (0..n), S # {}
  PROVE  \E lo, hi \in S : \A i \in S : lo <= i /\ i <= hi
<1>1. IsFiniteSet(S)
  <2>1. S \in SUBSET Nat /\ \A s \in S : s <= n
    OBVIOUS
  <2> QED
    BY <2>1, FS_BoundedSetOfNaturals
<1>2. IsWellFoundedOn(StrictSubsetOrdering(S), SUBSET S)
  BY <1>1, FS_StrictSubsetOrderingWellFounded, FS_FiniteSubsetsOfFinite
<1>3. \A i \in S : i \in Int
  OBVIOUS
<1>4. \E lo \in S : \A i \in S : lo <= i
  <2> DEFINE Upto(i) == {k \in S : k <= i}
             T == {Upto(i) : i \in S}
  <2>1. T \subseteq SUBSET S /\ T # {}
    OBVIOUS
  <2>2. PICK x \in T : \A y \in T : ~ (<<y, x>> \in StrictSubsetOrdering(S))
    BY <1>2, <2>1, WFMin
  <2>3. PICK lo \in S : x = Upto(lo)
    OBVIOUS
  <2>4. ASSUME NEW i \in S, i < lo PROVE FALSE
    <3>1. Upto(i) \in T /\ Upto(i) \in SUBSET S /\ x \in SUBSET S
      BY <2>3
    <3>2. lo <= lo /\ ~(lo <= i) /\ \A k \in S : k <= i => k <= lo
      BY <1>3, <2>3, <2>4
    <3>3. Upto(i) \subseteq x /\ lo \in x /\ lo \notin Upto(i)
      BY <2>3, <3>2, Zenon
    <3> QED
      BY <2>2, <3>1, <3>3 DEF StrictSubsetOrdering
  <2> QED
    BY <1>3, <2>4
<1>5. \E hi \in S : \A i \in S : i <= hi
  <2> DEFINE Downto(i) == {k \in S : k >= i}
             T == {Downto(i) : i \in S}
  <2>1. T \subseteq SUBSET S /\ T # {}
    OBVIOUS
  <2>2. PICK x \in T : \A y \in T : ~ (<<y, x>> \in StrictSubsetOrdering(S))
    BY <1>2, <2>1, WFMin
  <2>3. PICK hi \in S : x = Downto(hi)
    OBVIOUS
  <2>4. ASSUME NEW i \in S, i > hi PROVE FALSE
    <3>1. Downto(i) \in T /\ Downto(i) \in SUBSET S /\ x \in SUBSET S
      BY <2>3
    <3>2. hi >= hi /\ ~(hi >= i) /\ \A k \in S : k >= i => k >= hi
      BY <1>3, <2>3, <2>4
    <3>3. Downto(i) \subseteq x /\ hi \in x /\ hi \notin Downto(i)
      BY <2>3, <3>2, Zenon
    <3> QED
      BY <2>2, <3>1, <3>3 DEF StrictSubsetOrdering
  <2> QED
    BY <1>3, <2>4
<1> QED
  BY <1>4, <1>5

\* What one pass of the loop does: it appends a chunk that begins at start, and
\* either returns or moves start ahead, short of the end of the text.
LEMMA LoopStep ==
  ASSUME Inv, LastChunk \/ NextChunk
  PROVE  /\ pc = "loop" /\ text' = text
         /\ \E to \in Nat : chunks' = Append(chunks, Slice(start, to))
         /\ pc' = "done" \/ (start < start' /\ start' < Length)
<1>1. /\ Length \in Nat /\ start \in Nat /\ setting \in Settings
  BY DEF Inv, TypeOK, Length
<1>2. ChunkSize \in Nat \ {0} /\ Overlap \in Nat /\ LookBack \in Nat
  BY <1>1, SettingTypes
<1>3. CASE LastChunk
  BY <1>1, <1>3 DEF LastChunk
<1>4. CASE NextChunk
  <2>1. pc = "loop" /\ text' = text /\ start + ChunkSize < Length /\ start + ChunkSize \in Nat
    BY <1>1, <1>2, <1>4 DEF NextChunk
  <2>2. PICK b \in 0..Length :
          /\ FindBoundary(start + ChunkSize, b)
          /\ chunks' = Append(chunks, Slice(start, BoundaryAhead(b)))
          /\ start' = NextStart(BoundaryAhead(b))
    BY <1>4 DEF NextChunk
  <2>3. b \in Nat /\ b <= start + ChunkSize
    BY <1>1, <1>2, <2>1, <2>2, BoundaryInWindow
  <2>4. BoundaryAhead(b) \in Nat /\ start < BoundaryAhead(b) /\ BoundaryAhead(b) <= start + ChunkSize
    BY <1>1, <1>2, <2>3 DEF BoundaryAhead
  <2>5. start < NextStart(BoundaryAhead(b)) /\ NextStart(BoundaryAhead(b)) < Length
    BY <1>1, <1>2, <2>1, <2>4 DEF NextStart
  <2> QED
    BY <2>1, <2>2, <2>4, <2>5
<1> QED
  BY <1>3, <1>4

LEMMA InitCovered == Init => Covered
  BY DEF Init, Covered

LEMMA NextCovered == Inv /\ Covered /\ [Next]_vars => Covered'
<1> SUFFICES ASSUME Inv, Covered, [Next]_vars PROVE Covered'
  OBVIOUS
<1>1. CASE Blank
  BY <1>1 DEF Blank, Inv, Covered, Solid
<1>2. CASE Strip
  <2>1. PICK i, j \in Solid :
          IF j - i < ChunkSize
            THEN chunks' = <<Slice(0, j - i + 1)>> /\ pc' = "done"
            ELSE chunks' = <<>> /\ pc' = "loop"
    BY <1>2 DEF Strip
  <2>2. i \in Int /\ j \in Int
    BY DEF Solid
  <2>3. CASE j - i < ChunkSize
    <3> DEFINE whole == Slice(0, j - i + 1)
    <3>1. whole.from = 0 /\ whole.to = j - i + 1 /\ chunks' = <<whole>>
      BY <2>1, <2>3 DEF Slice
    <3> HIDE DEF whole
    <3>2. Len(chunks') = 1 /\ chunks'[1] = whole /\ Last' = whole /\ chunks' # <<>>
      BY <3>1 DEF Last
    <3> QED
      BY <2>2, <3>1, <3>2 DEF Covered
  <2>4. CASE ~(j - i < ChunkSize)
    BY <2>1, <2>4 DEF Covered
  <2> QED
    BY <2>3, <2>4
<1>3. CASE LastChunk \/ NextChunk
  <2>1. PICK to \in Nat : chunks' = Append(chunks, Slice(start, to))
    BY <1>3, LoopStep
  <2>2. /\ pc = "loop" /\ start \in Nat
        /\ chunks = <<>> => start = 0
        /\ chunks # <<>> => start <= Last.to
    BY <1>3, LoopStep DEF Inv, TypeOK, LoopInv
  <2> DEFINE C == [from : Nat, to : Nat]
             e == Slice(start, to)
  <2>3. chunks \in Seq(C) /\ e \in C /\ e.from = start /\ e.to = to
    BY <2>2 DEF Inv, TypeOK, Slice
  <2> HIDE DEF C, e
  <2>4. chunks' = Append(chunks, e)
    BY <2>1 DEF e
  <2>5. /\ Len(chunks) \in Nat /\ Len(chunks') = Len(chunks) + 1 /\ chunks' # <<>>
        /\ chunks'[Len(chunks) + 1] = e /\ Last' = e
        /\ \A n \in 1..Len(chunks) : chunks'[n] = chunks[n]
        /\ chunks # <<>> => Last \in C
    BY <2>3, <2>4 DEF Last
  <2>6. chunks # <<>> => Last.to \in Nat
    BY <2>5 DEF C
  <2>7. ASSUME NEW i \in 0..(to - 1)
        PROVE  \E n \in 1..Len(chunks') : chunks'[n].from <= i /\ i < chunks'[n].to
    <3>1. CASE start <= i
      <4>1. Len(chunks) + 1 \in 1..Len(chunks')
        BY <2>5
      <4>2. e.from <= i /\ i < e.to
        BY <2>3, <2>7, <3>1
      <4> QED
        BY <4>1, <4>2, <2>5
    <3>2. CASE ~(start <= i)
      <4>1. chunks # <<>> /\ i \in 0..(Last.to - 1)
        BY <2>2, <2>6, <2>7, <3>2
      <4>2. PICK n \in 1..Len(chunks) : chunks[n].from <= i /\ i < chunks[n].to
        BY <4>1 DEF Covered
      <4>3. n \in 1..Len(chunks') /\ chunks'[n] = chunks[n]
        BY <2>5
      <4> QED
        BY <4>2, <4>3
    <3> QED
      BY <3>1, <3>2
  <2> QED
    BY <2>3, <2>5, <2>7 DEF Covered
<1>4. CASE UNCHANGED vars
  BY <1>4 DEF vars, Covered, Last, Solid
<1> QED
  BY <1>1, <1>2, <1>3, <1>4 DEF Next, Finished

LEMMA CoveredReturned == Inv /\ Covered => SolidTextReturned
<1> SUFFICES ASSUME Inv, Covered, pc = "done", NEW i \in 0..(Length - 1), At(i) \notin White
             PROVE  \E r \in Result : r.from <= i /\ i < r.to
  BY DEF SolidTextReturned
<1>1. Length \in Nat /\ text \in Seq(Kinds) /\ chunks \in Seq([from : Nat, to : Nat])
  BY DEF Inv, TypeOK, Length
<1>2. chunks # <<>>
  <2>1. i + 1 \in Solid
    BY <1>1 DEF Solid, At, Length
  <2> QED
    BY <2>1 DEF Covered
<1>3. Last.to = Length
  BY <1>2 DEF Inv, NoGap, Last
<1>4. PICK n \in 1..Len(chunks) : chunks[n].from <= i /\ i < chunks[n].to
  BY <1>2, <1>3 DEF Covered
<1> DEFINE c == chunks[n]
<1>5. c.from \in Nat /\ c.to \in Nat /\ c.to <= Length
  <2> DEFINE C == [from : Nat, to : Nat]
  <2>1. chunks \in Seq(C)
    BY <1>1
  <2> HIDE DEF C
  <2>2. chunks[n] \in C
    BY <2>1
  <2>3. chunks[n].to <= Length
    BY DEF Inv, ChunkBounds
  <2> QED
    BY <2>2, <2>3 DEF C
<1> HIDE DEF c
<1>6. /\ i \in SolidIn(c) /\ SolidIn(c) \in SUBSET (0..Length)
      /\ \A k \in SolidIn(c) : k < Length
  <2>1. c.from <= i /\ i < c.to /\ i \in Int
    BY <1>1, <1>4 DEF c
  <2>2. \A k \in c.from..(c.to - 1) : k \in 0..Length /\ k < Length
    BY <1>1, <1>5
  <2>3. i \in c.from..(c.to - 1)
    BY <2>1, <1>5
  <2> QED
    BY <2>2, <2>3 DEF SolidIn
<1>7. PICK lo, hi \in SolidIn(c) : \A k \in SolidIn(c) : lo <= k /\ k <= hi
  BY <1>1, <1>6, LeastAndGreatest
<1> DEFINE r == Slice(lo, hi + 1)
<1>8. r.from = lo /\ r.to = hi + 1 /\ r \in [from : 0..Length, to : 0..Length]
  BY <1>1, <1>6, <1>7 DEF Slice
<1> HIDE DEF r
<1>9. \A k \in SolidIn(c) : k \in Int
  BY <1>6
<1>10. IsResult(c, r)
  BY <1>7, <1>8, <1>9 DEF IsResult
<1>11. r \in Result
  BY <1>4, <1>8, <1>10 DEF Result, c
<1> QED
  BY <1>6, <1>7, <1>8, <1>9, <1>11

\* No character of the text that is not white space is lost, to the cuts or to
\* the strips: it is in one of the chunks chunk_text returns.
THEOREM NoTextLost == Spec => []SolidTextReturned
  BY InitInv, InitCovered, NextInv, NextCovered, CoveredReturned, PTL DEF Spec

\* The loop cannot spin: each pass returns or moves start ahead, and start never
\* reaches the end of the text, for any chunk size, overlap and look-back.
THEOREM LoopAdvances ==
  Spec => [][pc = "loop" => pc' = "done" \/ (start < start' /\ start' < Length)]_vars
<1>1. Inv /\ [Next]_vars =>
        [pc = "loop" => pc' = "done" \/ (start < start' /\ start' < Length)]_vars
  BY LoopStep DEF Next, Blank, Strip, Finished
<1> QED
  BY <1>1, Inductive, PTL DEF Spec

=============================================================================
