----------------------------- MODULE McpGateway -----------------------------
(***************************************************************************)
(* A tool call of the MCP gateway, from the HTTP request that carries it to *)
(* the answer of the document service (mcp-gateway/app/auth.py, main.py,    *)
(* documents.py; document-service/app/middleware/auth.py).                  *)
(*                                                                          *)
(* The gateway is stateless: every call carries its own access token, which *)
(* is checked when the call arrives and again, by the document service,     *)
(* when the forwarded request arrives there.  The service reads documents   *)
(* only after it has waited for an embedding or a connection, and does not  *)
(* look at the token again; nor does it stop when the gateway gives up.     *)
(***************************************************************************)
EXTENDS Integers, FiniteSets

CONSTANTS
    Calls,              \* the tool calls clients send
    Users,
    Tokens,             \* the access tokens the api-gateway issued
    Sub,                \* sub claim: token -> user
    Scope,              \* scope claim: token -> set of scopes
    None,
    MaxLife,            \* bound of the model on the life of a token, in ticks
    DownstreamTimeout   \* downstream_timeout_seconds, in ticks

VARIABLES
    life,       \* ticks until each token expires, below zero: since it did
    bearer,     \* the token each call carries
    tool,
    at,         \* where each call stands at the gateway
    serving,    \* where its request stands at the document service
    waited,     \* ticks the gateway has been waiting for the document service
    found,      \* the users whose documents the document service read for it
    outcome     \* the result or the error its client gets

calls == <<bearer, tool, at, serving, waited, found, outcome>>

Tools == {"list_documents", "search_documents"}
Scopes == {"mcp:invoke", "documents:read", "documents:search", "ai:agent"}
CallStages == {"idle", "verify", "invoke", "wait", "done"}

\* No request, or one no one waits for any more; before its token is checked;
\* before its documents are read; or the 200 is on its way.
ServiceStages == {"none", "check", "read", "ok"}

Outcomes == {"ok", "rejected", "unauthorized", "forbidden", "unavailable", "invalid"}

ASSUME GatewayAssumption ==
    /\ Sub \in [Tokens -> Users] /\ Scope \in [Tokens -> SUBSET Scopes]
    /\ None \notin Calls \cup Users \cup Tokens \cup Tools \cup Outcomes
    /\ MaxLife \in Nat \ {0} /\ DownstreamTimeout \in Nat

ToolScope(t) == IF t = "list_documents" THEN "documents:read" ELSE "documents:search"

Expired(k) == life[k] <= 0

-----------------------------------------------------------------------------
Move(c, stage) == at' = [at EXCEPT ![c] = stage]

Serve(c, stage) == serving' = [serving EXCEPT ![c] = stage]

Finish(c, result) ==
    /\ Move(c, "done")
    /\ outcome' = [outcome EXCEPT ![c] = result]
    /\ waited' = [waited EXCEPT ![c] = 0]
    /\ UNCHANGED <<life, bearer, tool, found>>

Send(c, k, t) ==
    /\ at[c] = "idle"
    /\ bearer' = [bearer EXCEPT ![c] = k]
    /\ tool' = [tool EXCEPT ![c] = t]
    /\ Move(c, "verify")
    /\ UNCHANGED <<life, serving, waited, found, outcome>>

\* JWTVerifier and required_scopes: the call is refused before any tool runs.
VerifyToken(c) ==
    /\ at[c] = "verify"
    /\ IF Expired(bearer[c]) \/ "mcp:invoke" \notin Scope[bearer[c]]
         THEN Finish(c, "rejected") /\ UNCHANGED serving
         ELSE /\ Move(c, "invoke")
              /\ UNCHANGED <<life, bearer, tool, serving, waited, found, outcome>>

\* The query and the limit of a search are not within their bounds.
RefuseArguments(c) ==
    /\ at[c] = "invoke" /\ tool[c] = "search_documents"
    /\ Finish(c, "invalid") /\ UNCHANGED serving

\* invoke(): the scope of the tool, then the request to the document service.
Invoke(c) ==
    /\ at[c] = "invoke"
    /\ IF ToolScope(tool[c]) \notin Scope[bearer[c]]
         THEN Finish(c, "forbidden") /\ UNCHANGED serving
         ELSE /\ Move(c, "wait")
              /\ Serve(c, "check")
              /\ UNCHANGED <<life, bearer, tool, waited, found, outcome>>

-----------------------------------------------------------------------------
(* The document service, whether or not the gateway still waits *)

Waiting(c) == at[c] = "wait"

\* Any status but 200 ends the call, if it still waits.
Refuse(c, result) ==
    /\ Serve(c, "none")
    /\ IF Waiting(c)
         THEN Finish(c, result)
         ELSE UNCHANGED <<life, bearer, tool, at, waited, found, outcome>>

\* Variant: the document service trusts the gateway and does not decode the
\* token again.
CheckTokenTrusting(c) ==
    /\ serving[c] = "check"
    /\ Serve(c, "read")
    /\ UNCHANGED <<life, bearer, tool, at, waited, found, outcome>>

\* require_scopes
CheckToken(c) ==
    /\ serving[c] = "check"
    /\ IF Expired(bearer[c]) THEN Refuse(c, "unauthorized")
       ELSE IF ToolScope(tool[c]) \notin Scope[bearer[c]] THEN Refuse(c, "forbidden")
       ELSE /\ Serve(c, "read")
            /\ UNCHANGED <<life, bearer, tool, at, waited, found, outcome>>

\* The query that follows the embeddings call of a search, or the wait of a list
\* for a connection.
ReadDocuments(c) ==
    /\ serving[c] = "read"
    /\ found' = [found EXCEPT ![c] = {Sub[bearer[c]]}]
    /\ Serve(c, IF Waiting(c) THEN "ok" ELSE "none")
    /\ UNCHANGED <<life, bearer, tool, at, waited, outcome>>

\* No embedding, no connection, or any other error.
ServiceFails(c) == serving[c] = "read" /\ Refuse(c, "unavailable")

-----------------------------------------------------------------------------
(* The gateway's wait for it *)

\* The gateway closes the connection; a request under way goes on without it.
GiveUp(c, result) ==
    /\ Waiting(c)
    /\ Finish(c, result)
    /\ Serve(c, IF serving[c] = "ok" THEN "none" ELSE serving[c])

\* The body of a 200 is complete, within a megabyte and as the schema says, or not.
Reply(c) ==
    /\ serving[c] = "ok"
    /\ \E result \in {"ok", "invalid"} : GiveUp(c, result)

\* No connection, or one that breaks off.
ConnectionFails(c) == GiveUp(c, "unavailable")

\* Variant: the timeout covers the response up to its headers only.
TimeOutHeaders(c) ==
    /\ waited[c] >= DownstreamTimeout /\ serving[c] # "ok"
    /\ GiveUp(c, "unavailable")

\* asyncio.timeout around the request and its streamed body.
TimeOut(c) ==
    /\ waited[c] >= DownstreamTimeout
    /\ GiveUp(c, "unavailable")

\* A tick of the clock: timers that are due fire first.  How long ago a token
\* expired is counted up to DownstreamTimeout.
NoTimerDue == \A c \in Calls : Waiting(c) => waited[c] < DownstreamTimeout

TickCalls ==
    /\ NoTimerDue
    /\ waited' = [c \in Calls |-> IF Waiting(c) THEN waited[c] + 1 ELSE waited[c]]
    /\ life' = [k \in Tokens |-> IF life[k] > -DownstreamTimeout THEN life[k] - 1 ELSE life[k]]
    /\ UNCHANGED <<bearer, tool, at, serving, found, outcome>>

InitCalls ==
    /\ life \in [Tokens -> 1..MaxLife]
    /\ bearer = [c \in Calls |-> None]
    /\ tool = [c \in Calls |-> None]
    /\ at = [c \in Calls |-> "idle"]
    /\ serving = [c \in Calls |-> "none"]
    /\ waited = [c \in Calls |-> 0]
    /\ found = [c \in Calls |-> {}]
    /\ outcome = [c \in Calls |-> None]

\* What the gateway's own event loop and timers do to a call.
GatewayStep(c) == VerifyToken(c) \/ RefuseArguments(c) \/ Invoke(c) \/ TimeOut(c)

\* What the document service and the network do to it, if they do anything.
ServiceStep(c) ==
    CheckToken(c) \/ ReadDocuments(c) \/ ServiceFails(c) \/ Reply(c) \/ ConnectionFails(c)

-----------------------------------------------------------------------------
(* Properties *)

CallsTypeOK ==
    /\ life \in [Tokens -> (-DownstreamTimeout)..MaxLife]
    /\ bearer \in [Calls -> Tokens \cup {None}]
    /\ tool \in [Calls -> Tools \cup {None}]
    /\ at \in [Calls -> CallStages]
    /\ serving \in [Calls -> ServiceStages]
    /\ waited \in [Calls -> 0..DownstreamTimeout]
    /\ found \in [Calls -> SUBSET Users]
    /\ outcome \in [Calls -> Outcomes \cup {None}]

\* Documents are read for a call only when its token has the scopes of the
\* transport and of the tool.  The token may have expired since the document
\* service looked at it, and nothing bounds how long ago; but a call succeeds only
\* within DownstreamTimeout of the expiry, however its steps and the clock fall.
ReadsAuthorized ==
    [][\A c \in Calls :
         /\ found'[c] # found[c] => {"mcp:invoke", ToolScope(tool[c])} \subseteq Scope[bearer[c]]
         /\ outcome'[c] # outcome[c] /\ outcome'[c] = "ok"
               => life[bearer[c]] > -DownstreamTimeout]_<<life, calls>>

\* Every call is answered, whether or not the document service ever does,
\* also when the client that sent it has long given up.
EveryCallEnds == \A c \in Calls : at[c] # "idle" ~> at[c] = "done"

=============================================================================
