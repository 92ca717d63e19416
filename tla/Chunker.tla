------------------------------ MODULE Chunker ------------------------------
(***************************************************************************)
(* chunk_text of document-service/app/services/chunker.py: the loop that    *)
(* cuts a document into overlapping chunks at sentence or word boundaries.  *)
(*                                                                          *)
(* A character is one of the kinds the code tells apart.  Positions count   *)
(* from 0 and a chunk is a slice [from |-> i, to |-> j], text[i:j] of the   *)
(* stripped text.                                                           *)
(***************************************************************************)
EXTENDS Integers, Sequences

CONSTANTS
    Texts,      \* the raw texts to be chunked
    Settings    \* the arguments chunk_text may be called with, see Setting

\* One of .!?; a space, newline or tab; other white space, which strip()
\* removes and _find_boundary does not split at; anything else.
Kinds == {"stop", "blank", "return", "word"}

\* chunk_size, overlap, and the 100 characters _find_boundary searches.
Setting == [size : Nat \ {0}, overlap : Nat, lookBack : Nat]

ASSUME ChunkerAssumption ==
    /\ Texts \subseteq Seq(Kinds)
    /\ Settings \subseteq Setting

VARIABLES
    setting,    \* the arguments of this call
    text,       \* the text, stripped once the checks before the loop are over
    start,      \* where the next chunk begins
    chunks,     \* the slices appended so far
    pc          \* "strip", "loop" or "done"

vars == <<setting, text, start, chunks, pc>>

ChunkSize == setting.size
Overlap == setting.overlap
LookBack == setting.lookBack

Slice(i, j) == [from |-> i, to |-> j]
At(i) == text[i + 1]
Length == Len(text)

-----------------------------------------------------------------------------
White == {"blank", "return"}

Solid == {k \in 1..Len(text) : text[k] \notin White}

\* b is what _find_boundary(text, pos) returns: just after the last sentence
\* end of the window, else after its last white space, else pos itself.
WindowStart(pos) == IF pos > LookBack THEN pos - LookBack ELSE 0

Window(pos) == WindowStart(pos)..(pos - 1)

LastOf(kind, pos, i) ==
    /\ i \in Window(pos) /\ At(i) = kind
    /\ \A k \in Window(pos) : k > i => At(k) # kind

FindBoundary(pos, b) ==
    \/ LastOf("stop", pos, b - 1)
    \/ /\ \A k \in Window(pos) : At(k) # "stop"
       /\ LastOf("blank", pos, b - 1)
    \/ /\ \A k \in Window(pos) : At(k) \notin {"stop", "blank"}
       /\ b = pos

-----------------------------------------------------------------------------
Init ==
    /\ setting \in Settings
    /\ text \in Texts
    /\ start = 0
    /\ chunks = <<>>
    /\ pc = "strip"

\* Nothing but white space: no chunk.
Blank ==
    /\ pc = "strip" /\ Solid = {}
    /\ pc' = "done"
    /\ UNCHANGED <<setting, text, start, chunks>>

\* text.strip(); a text that fits is returned whole, any other is cut up.
Strip ==
    /\ pc = "strip"
    /\ \E i, j \in Solid :
         /\ \A k \in Solid : i <= k /\ k <= j
         /\ text' = SubSeq(text, i, j)
         /\ IF j - i < ChunkSize
              THEN chunks' = <<Slice(0, j - i + 1)>> /\ pc' = "done"
              ELSE chunks' = <<>> /\ pc' = "loop"
    /\ UNCHANGED <<setting, start>>

\* Variant: the boundary is taken as found.
BoundaryAsFound(b) == b

\* The loop guards: a boundary at or before start is replaced by end, and the
\* next start is always ahead of this one.
BoundaryAhead(b) == IF b <= start THEN start + ChunkSize ELSE b

\* Variant: the guard steps over the chunk it has just cut.
NextStartSkips(b) == IF b - Overlap <= start THEN b + 1 ELSE b - Overlap

\* Variant: the window is slid by one character.
NextStartByOne(b) == start + 1

NextStart(b) == IF b - Overlap <= start THEN start + 1 ELSE b - Overlap

LastChunk ==
    /\ pc = "loop" /\ start + ChunkSize >= Length
    /\ chunks' = Append(chunks, Slice(start, Length))
    /\ pc' = "done"
    /\ UNCHANGED <<setting, text, start>>

\* Variant: a boundary at or before start is looked for again.
NextChunkSpins ==
    /\ pc = "loop" /\ start + ChunkSize < Length
    /\ \E b \in 0..Length :
         /\ FindBoundary(start + ChunkSize, b)
         /\ IF b <= start
              THEN UNCHANGED <<start, chunks>>
              ELSE chunks' = Append(chunks, Slice(start, b)) /\ start' = NextStart(b)
    /\ UNCHANGED <<setting, text, pc>>

NextChunk ==
    /\ pc = "loop" /\ start + ChunkSize < Length
    /\ \E b \in 0..Length :
         /\ FindBoundary(start + ChunkSize, b)
         /\ chunks' = Append(chunks, Slice(start, BoundaryAhead(b)))
         /\ start' = NextStart(BoundaryAhead(b))
    /\ UNCHANGED <<setting, text, pc>>

Finished == pc = "done" /\ UNCHANGED vars

Next == Blank \/ Strip \/ LastChunk \/ NextChunk \/ Finished

Spec == Init /\ [][Next]_vars

\* The function runs to its return.
FairSpec == Spec /\ WF_vars(Next)

-----------------------------------------------------------------------------
\* What the caller gets: [c.strip() for c in chunks if c.strip()].
SolidIn(c) == {i \in c.from..(c.to - 1) : At(i) \notin White}

IsResult(c, r) ==
    /\ r.from \in SolidIn(c) /\ r.to - 1 \in SolidIn(c)
    /\ \A i \in SolidIn(c) : r.from <= i /\ i < r.to

Result == {r \in [from : 0..Length, to : 0..Length] :
             \E n \in 1..Len(chunks) : IsResult(chunks[n], r)}

-----------------------------------------------------------------------------
(* Properties *)

TypeOK ==
    /\ setting \in Settings
    /\ text \in Seq(Kinds)
    /\ start \in Nat
    /\ chunks \in Seq([from : Nat, to : Nat])
    /\ pc \in {"strip", "loop", "done"}

\* No character is skipped: the chunks begin at 0, each begins within or right
\* after the one before, and the last ends at the end of the text.
NoGap ==
    /\ chunks # <<>> => chunks[1].from = 0
    /\ \A n \in 1..(Len(chunks) - 1) : chunks[n + 1].from <= chunks[n].to
    /\ pc = "done" /\ chunks # <<>> => chunks[Len(chunks)].to = Length

\* No chunk is empty or longer than the embedding call is meant to get, for any
\* size, overlap and position of the boundaries.
ChunkBounds ==
    \A n \in 1..Len(chunks) :
        /\ chunks[n].from < chunks[n].to
        /\ chunks[n].to <= chunks[n].from + ChunkSize
        /\ chunks[n].to <= Length

\* Nothing of the text is lost to the final strip either: every character that
\* is not white space is in a chunk the caller gets.
SolidTextReturned ==
    pc = "done" => \A i \in 0..(Length - 1) :
        At(i) \notin White => \E r \in Result : r.from <= i /\ i < r.to

\* With the service's settings (500 > 100 + 50) every chunk reaches further into
\* the text than the one before: no chunk repeats text already embedded.
RoomToAdvance == ChunkSize > LookBack + Overlap

EachChunkAddsText ==
    RoomToAdvance =>
        \A n \in 1..(Len(chunks) - 1) : chunks[n].to < chunks[n + 1].to

\* chunk_text returns for every text and every setting: the guards of the loop
\* keep it moving.
Terminates == <>(pc = "done")

=============================================================================
