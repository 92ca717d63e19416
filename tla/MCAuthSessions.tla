--------------------------- MODULE MCAuthSessions ---------------------------
(* AuthSessions for TLC, and its refinement of RefreshLedger. *)
EXTENDS AuthSessions, TLC

\* The requests are interchangeable.
Symmetry == Permutations(Requests)

=============================================================================
