-------------------------- MODULE MCDocumentStore --------------------------
(* DocumentStore for TLC, and its refinement of DocumentShelf. *)
EXTENDS DocumentStore, TLC

\* The requests and the users are interchangeable.
Symmetry == Permutations(Requests) \cup Permutations(Users)

=============================================================================
