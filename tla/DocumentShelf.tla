---------------------------- MODULE DocumentShelf ----------------------------
(***************************************************************************)
(* What the document service promises its users: a document appears whole,  *)
(* with its final status and every chunk, and disappears whole, for good.   *)
(***************************************************************************)
EXTENDS Naturals

CONSTANTS
    Documents,
    ChunkCounts     \* how many chunks a text may have

VARIABLES
    status,     \* document -> "none", "failed" or "ready"
    chunks,     \* document -> how many of its chunks are stored
    gone        \* documents that were removed

shelf == <<status, chunks, gone>>

Init ==
    /\ status = [d \in Documents |-> "none"]
    /\ chunks = [d \in Documents |-> 0]
    /\ gone = {}

Add(d, s, n) ==
    /\ status[d] = "none" /\ d \notin gone
    /\ status' = [status EXCEPT ![d] = s]
    /\ chunks' = [chunks EXCEPT ![d] = n]
    /\ UNCHANGED gone

Remove(d) ==
    /\ status[d] # "none"
    /\ status' = [status EXCEPT ![d] = "none"]
    /\ chunks' = [chunks EXCEPT ![d] = 0]
    /\ gone' = gone \cup {d}

Next == \E d \in Documents :
    \/ Add(d, "failed", 0)
    \/ \E n \in ChunkCounts : Add(d, "ready", n)
    \/ Remove(d)

Spec == Init /\ [][Next]_shelf

=============================================================================
