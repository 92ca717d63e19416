------------------------------ MODULE AgentDesk ------------------------------
(***************************************************************************)
(* What the ai-service promises whoever asks its document agent, without    *)
(* model, tools, gateway and timers: a query is answered once and for all,  *)
(* a refused one has read nothing, and what the model is shown for a query  *)
(* are documents of the user who asked, while the query is open.            *)
(***************************************************************************)
CONSTANTS
    Queries,
    Tokens,
    Sub,        \* the user of a token
    Scope,      \* the scopes of a token
    Required,   \* the scopes a query needs
    None

VARIABLES
    credential, \* query -> the token it was sent with, None before
    shown,      \* query -> the users whose documents its model has seen
    answer      \* query -> the status of its response, None before

desk == <<credential, shown, answer>>

Open(q)     == credential[q] # None /\ answer[q] = None
Entitled(q) == Required \subseteq Scope[credential[q]]

Init ==
    /\ credential = [q \in Queries |-> None]
    /\ shown = [q \in Queries |-> {}]
    /\ answer = [q \in Queries |-> None]

Ask(q, k) ==
    /\ credential[q] = None
    /\ credential' = [credential EXCEPT ![q] = k]
    /\ UNCHANGED <<shown, answer>>

Show(q) ==
    /\ Open(q) /\ Entitled(q)
    /\ shown' = [shown EXCEPT ![q] = {Sub[credential[q]]}]
    /\ UNCHANGED <<credential, answer>>

Refuse(q, what) ==
    /\ Open(q) /\ shown[q] = {}
    /\ what = "forbidden" => ~Entitled(q)
    /\ answer' = [answer EXCEPT ![q] = what]
    /\ UNCHANGED <<credential, shown>>

Reply(q, what) ==
    /\ Open(q) /\ Entitled(q)
    /\ answer' = [answer EXCEPT ![q] = what]
    /\ UNCHANGED <<credential, shown>>

Next == \E q \in Queries :
    \/ \E k \in Tokens : Ask(q, k)
    \/ Show(q)
    \/ \E what \in {"unauthorized", "forbidden"} : Refuse(q, what)
    \/ \E what \in {"ok", "unavailable"} : Reply(q, what)

Spec == Init /\ [][Next]_desk

=============================================================================
