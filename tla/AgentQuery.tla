----------------------------- MODULE AgentQuery -----------------------------
(***************************************************************************)
(* POST /agent/query of the ai-service: runs of the document agent, several *)
(* at a time on one cached Agent, each a loop of model requests and MCP     *)
(* tool calls under limits and nested timeouts                              *)
(* (ai-service/app/routers/agent.py, app/services/document_agent.py), over  *)
(* the tool calls of module McpGateway, some of which are of other clients.  *)
(***************************************************************************)
EXTENDS McpGateway

CONSTANTS
    ClientCalls,    \* the tool calls of other MCP clients
    Queries,        \* the queries clients send
    AgentTimeout,   \* agent_timeout_seconds, in ticks
    OpenTimeout,    \* init_timeout of the MCP client
    ToolTimeout,    \* timeout of one request of the MCP client
    RequestLimit,   \* request_limit of UsageLimits
    ToolLimit       \* tool_calls_limit of UsageLimits

VARIABLES
    credential, \* the token each query was sent with
    stage,      \* where its run stands
    elapsed,    \* ticks since the run began, 0 once it is over
    requests,   \* model requests made so far
    caller,     \* the query that made each call
    pending,    \* ticks its caller has waited for each call
    batch,      \* the calls of the last model response, not answered yet
    shown,      \* the users whose documents the model was shown
    answer      \* status of the HTTP response

runs == <<credential, stage, elapsed, requests, caller, pending, batch, shown, answer>>
vars == <<calls, life, runs>>

Running == {"open", "think", "call"}
RunStages == {"idle", "admit", "done"} \cup Running
AgentScopes == {"ai:agent", "mcp:invoke", "documents:read", "documents:search"}

ASSUME AgentAssumption ==
    /\ None \notin Queries /\ ClientCalls \subseteq Calls /\ IsFiniteSet(Calls)
    /\ RequestLimit \in Nat \ {0} /\ ToolLimit \in Nat
    /\ AgentTimeout \in Nat /\ OpenTimeout \in Nat /\ ToolTimeout \in Nat

CallsOf(q) == {c \in Calls : caller[c] = q}

-----------------------------------------------------------------------------
Enter(q, s) == stage' = [stage EXCEPT ![q] = s]

\* The response; the calls still out are abandoned, the gateway goes on with them.
Answer(q, what) ==
    /\ Enter(q, "done")
    /\ answer' = [answer EXCEPT ![q] = what]
    /\ batch' = [batch EXCEPT ![q] = {}]
    /\ elapsed' = [elapsed EXCEPT ![q] = 0]
    /\ pending' = [c \in Calls |-> IF c \in batch[q] THEN 0 ELSE pending[c]]
    /\ UNCHANGED <<calls, life, credential, requests, caller, shown>>

\* Any exception of the run.
Fail(q) == Answer(q, "unavailable")

Ask(q, k) ==
    /\ stage[q] = "idle"
    /\ credential' = [credential EXCEPT ![q] = k]
    /\ Enter(q, "admit")
    /\ UNCHANGED <<calls, life, elapsed, requests, caller, pending, batch, shown, answer>>

\* require_scopes of the ai-service.
Admit(q) ==
    /\ stage[q] = "admit"
    /\ IF Expired(credential[q]) THEN Answer(q, "unauthorized")
       ELSE IF ~(AgentScopes \subseteq Scope[credential[q]]) THEN Answer(q, "forbidden")
       ELSE /\ Enter(q, "open")
            /\ UNCHANGED <<calls, life, credential, elapsed, requests, caller,
                           pending, batch, shown, answer>>

\* The run opens its MCP session; the gateway checks the token as for any call.
OpenSession(q) ==
    /\ stage[q] = "open"
    /\ IF Expired(credential[q])
         THEN Fail(q)
         ELSE /\ Enter(q, "think")
              /\ requests' = [requests EXCEPT ![q] = 1]
              /\ UNCHANGED <<calls, life, credential, elapsed, caller, pending,
                             batch, shown, answer>>

OpenFails(q) == stage[q] = "open" /\ Fail(q)

-----------------------------------------------------------------------------
(* The model's response: a text, tool calls, or something the run rejects.  *)

ModelAnswers(q) == stage[q] = "think" /\ Answer(q, "ok")

ModelFails(q) == stage[q] = "think" /\ Fail(q)

\* Variant: one toolset for the cached agent, with the token of some run.
RunTokenShared(q) ==
    CHOOSE k \in Tokens : \E p \in Queries : stage[p] \in Running /\ credential[p] = k

\* UserDeps and the toolset belong to the run.
RunToken(q) == credential[q]

\* Variant: the limit is compared before the new calls are counted.
WithinToolLimitBefore(q, cs) == Cardinality(CallsOf(q)) < ToolLimit

WithinToolLimit(q, cs) == Cardinality(CallsOf(q)) + Cardinality(cs) <= ToolLimit

\* The calls of one response run side by side; too many end the run.
ModelCallsTools(q, cs) ==
    /\ stage[q] = "think" /\ cs # {} /\ \A c \in cs : at[c] = "idle"
    /\ IF ~WithinToolLimit(q, cs)
         THEN Fail(q)
         ELSE /\ bearer' = [c \in Calls |-> IF c \in cs THEN RunToken(q) ELSE bearer[c]]
              /\ \E f \in [cs -> Tools] :
                    tool' = [c \in Calls |-> IF c \in cs THEN f[c] ELSE tool[c]]
              /\ at' = [c \in Calls |-> IF c \in cs THEN "verify" ELSE at[c]]
              /\ caller' = [c \in Calls |-> IF c \in cs THEN q ELSE caller[c]]
              /\ batch' = [batch EXCEPT ![q] = cs]
              /\ Enter(q, "call")
              /\ UNCHANGED <<serving, waited, found, outcome, life, credential, elapsed,
                             requests, pending, shown, answer>>

\* All results are in: the model sees them, unless it was asked often enough.
ResultsIn(q) ==
    /\ stage[q] = "call" /\ \A c \in batch[q] : outcome[c] = "ok"
    /\ IF requests[q] >= RequestLimit
         THEN Fail(q)
         ELSE /\ Enter(q, "think")
              /\ requests' = [requests EXCEPT ![q] = @ + 1]
              /\ shown' = [shown EXCEPT ![q] = @ \cup UNION {found[c] : c \in batch[q]}]
              /\ batch' = [batch EXCEPT ![q] = {}]
              /\ pending' = [c \in Calls |-> IF c \in batch[q] THEN 0 ELSE pending[c]]
              /\ UNCHANGED <<calls, life, credential, elapsed, caller, answer>>

\* Variant: an error is returned to the model instead of ending the run.
CallFailedTolerated(q) ==
    /\ stage[q] = "call"
    /\ \E c \in batch[q] : outcome[c] \notin {None, "ok"}
    /\ Enter(q, "think")
    /\ batch' = [batch EXCEPT ![q] = {}]
    /\ UNCHANGED <<calls, life, credential, elapsed, requests, caller, pending, shown, answer>>

\* tool_error_behavior="error" and retries=0: one failed call ends the run.
CallFailed(q) ==
    /\ stage[q] = "call"
    /\ \E c \in batch[q] : outcome[c] \notin {None, "ok"}
    /\ Fail(q)

-----------------------------------------------------------------------------
(* Timers *)

\* Variant: asyncio.timeout is left out, the timeouts of the client remain.
DueInClientOnly(q) ==
    \/ stage[q] = "open" /\ elapsed[q] >= OpenTimeout
    \/ \E c \in batch[q] : outcome[c] = None /\ pending[c] >= ToolTimeout

Due(q) ==
    \/ elapsed[q] >= AgentTimeout
    \/ stage[q] = "open" /\ elapsed[q] >= OpenTimeout
    \/ \E c \in batch[q] : outcome[c] = None /\ pending[c] >= ToolTimeout

\* Variant: the run as a whole has no deadline.
TimersOfClientOnly(q) ==
    /\ \/ stage[q] = "open" /\ elapsed[q] >= OpenTimeout
       \/ \E c \in batch[q] : outcome[c] = None /\ pending[c] >= ToolTimeout
    /\ Fail(q)

\* Variant: the response is sent and the run is not cancelled.
TimerFiresShielded(q) ==
    /\ stage[q] \in Running /\ Due(q)
    /\ answer' = [answer EXCEPT ![q] = "unavailable"]
    /\ elapsed' = [elapsed EXCEPT ![q] = 0]
    /\ UNCHANGED <<calls, life, credential, stage, requests, caller, pending, batch, shown>>

\* asyncio.timeout around the run, or a timeout of its MCP client.
TimerFires(q) ==
    /\ stage[q] \in Running /\ Due(q)
    /\ Fail(q)

\* The run that made c still waits for its result.
Awaited(c) == outcome[c] = None /\ \E q \in Queries : c \in batch[q]

Tick ==
    /\ \A q \in Queries : stage[q] \in Running => ~Due(q)
    /\ TickCalls
    /\ elapsed' = [q \in Queries |-> IF stage[q] \in Running THEN elapsed[q] + 1 ELSE elapsed[q]]
    /\ pending' = [c \in Calls |->
                     IF Awaited(c) THEN pending[c] + 1 ELSE pending[c]]
    /\ UNCHANGED <<credential, stage, requests, caller, batch, shown, answer>>

-----------------------------------------------------------------------------
Init ==
    /\ InitCalls
    /\ credential = [q \in Queries |-> None]
    /\ stage = [q \in Queries |-> "idle"]
    /\ elapsed = [q \in Queries |-> 0]
    /\ requests = [q \in Queries |-> 0]
    /\ caller = [c \in Calls |-> None]
    /\ pending = [c \in Calls |-> 0]
    /\ batch = [q \in Queries |-> {}]
    /\ shown = [q \in Queries |-> {}]
    /\ answer = [q \in Queries |-> None]

\* What the ai-service's own event loop and timers do to a run.
RunStep(q) == Admit(q) \/ ResultsIn(q) \/ CallFailed(q) \/ TimerFires(q)

\* What the model provider and the network do to it, if they do anything.
ModelStep(q) ==
    \/ OpenSession(q) \/ OpenFails(q)
    \/ ModelAnswers(q) \/ ModelFails(q)
    \/ \E cs \in SUBSET (Calls \ ClientCalls) : ModelCallsTools(q, cs)

Next ==
    \/ \E q \in Queries : (\E k \in Tokens : Ask(q, k)) \/ RunStep(q) \/ ModelStep(q)
    \/ \E c \in Calls : (GatewayStep(c) \/ ServiceStep(c)) /\ UNCHANGED runs
    \/ \E c \in ClientCalls, k \in Tokens, t \in Tools : Send(c, k, t) /\ UNCHANGED runs
    \/ Tick

Spec == Init /\ [][Next]_vars

\* Only what this code controls is fair: its event loops and its timers.  The
\* model provider and the document service may never answer.
FairSpec ==
    /\ Spec
    /\ WF_vars(Tick)
    /\ \A q \in Queries : WF_vars(RunStep(q))
    /\ \A c \in Calls : WF_vars(GatewayStep(c) /\ UNCHANGED runs)

-----------------------------------------------------------------------------
(* Properties *)

TypeOK ==
    /\ CallsTypeOK
    /\ credential \in [Queries -> Tokens \cup {None}]
    /\ stage \in [Queries -> RunStages]
    /\ elapsed \in [Queries -> 0..AgentTimeout]
    /\ requests \in [Queries -> 0..RequestLimit]
    /\ caller \in [Calls -> Queries \cup {None}]
    /\ pending \in [Calls -> 0..ToolTimeout]
    /\ batch \in [Queries -> SUBSET Calls]
    /\ shown \in [Queries -> SUBSET Users]
    /\ answer \in [Queries -> {"ok", "unauthorized", "forbidden", "unavailable", None}]

\* Overlapping runs of the one cached agent never mix: the model of a run is
\* only shown documents of the user who asked.
OwnDocumentsOnly ==
    \A q \in Queries : \A u \in shown[q] : u = Sub[credential[q]]

\* An answer is never built on a read that failed, was refused, came too late
\* or was abandoned: all the calls of its run had succeeded.
AnswerComplete ==
    \A q \in Queries : answer[q] = "ok" => \A c \in CallsOf(q) : outcome[c] = "ok"

\* A run never makes more tool calls than its limit, however the model batches
\* them.
ToolCallsLimited == \A q \in Queries : Cardinality(CallsOf(q)) <= ToolLimit

\* Queries keep the promise of AgentDesk, whatever the steps of other runs, of
\* abandoned calls and of timers come in between: a response is final, and a
\* late result or a late answer of the model changes nothing any more; a refused
\* query has read nothing; and no step concerns two queries.
Desk == INSTANCE AgentDesk WITH Required <- AgentScopes

KeepsDesk == Desk!Spec

\* Every query is answered within its deadline, even if the model and the
\* document service never answer.
EveryQueryEnds == \A q \in Queries : stage[q] # "idle" ~> stage[q] = "done"

=============================================================================
