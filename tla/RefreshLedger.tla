---------------------------- MODULE RefreshLedger ----------------------------
(***************************************************************************)
(* What the gateway promises about sign-in sessions, with every operation   *)
(* atomic: a login opens a session with one refresh token, a rotation swaps *)
(* the token for a fresh one, a sign-out ends the session.  A token that    *)
(* was swapped or signed out never comes back.                              *)
(***************************************************************************)
CONSTANT Tokens

VARIABLES
    live,   \* the token a session can be continued with
    dead    \* tokens that were swapped or signed out

ledger == <<live, dead>>

Unused == Tokens \ (live \cup dead)

Init == live = {} /\ dead = {}

SignIn(t) ==
    /\ t \in Unused
    /\ live' = live \cup {t}
    /\ UNCHANGED dead

Rotate(t, u) ==
    /\ t \in live /\ u \in Unused
    /\ live' = (live \ {t}) \cup {u}
    /\ dead' = dead \cup {t}

SignOut(t) ==
    /\ t \in live
    /\ live' = live \ {t}
    /\ dead' = dead \cup {t}

Next ==
    \/ \E t \in Tokens : SignIn(t) \/ SignOut(t)
    \/ \E t, u \in Tokens : Rotate(t, u)

Spec == Init /\ [][Next]_ledger

=============================================================================
