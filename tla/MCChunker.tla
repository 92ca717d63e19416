----------------------------- MODULE MCChunker -----------------------------
(* Chunker for TLC: every text up to a length, under two settings. *)
EXTENDS Chunker

CONSTANT MaxLength

AllTexts == UNION {[1..n -> Kinds] : n \in 0..MaxLength}

\* A look-back and an overlap the chunk size leaves no room for, so that the
\* loop's guards act; and the proportions of the service's own settings.
Tight == [size |-> 3, overlap |-> 2, lookBack |-> 5]
Roomy == [size |-> 4, overlap |-> 1, lookBack |-> 2]

TwoSettings == {Tight, Roomy}

=============================================================================
