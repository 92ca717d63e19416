-------------------------- MODULE AgentQueryProofs --------------------------
(***************************************************************************)
(* Theorems about AgentQuery and the tool calls of McpGateway below it, for *)
(* any number of queries, calls, users and tokens and any timeouts and      *)
(* limits.                                                                  *)
(***************************************************************************)
EXTENDS AgentQuery, FiniteSetTheorems, TLAPS

\* What is known of a call wherever it stands.
CallOK(c) ==
    /\ at[c] = "idle" => caller[c] = None /\ found[c] = {}
    /\ at[c] # "idle" => bearer[c] \in Tokens
    /\ found[c] \subseteq {Sub[bearer[c]]}
    /\ outcome[c] # None <=> at[c] = "done"

\* A request reaches the document service with the scope of the transport, and
\* passes its check with that of the tool.
ScopeOK(c) ==
    /\ serving[c] # "none" => at[c] \in {"wait", "done"}
    /\ at[c] \in {"invoke", "wait"} \/ serving[c] # "none" => "mcp:invoke" \in Scope[bearer[c]]
    /\ serving[c] \in {"read", "ok"} => ToolScope(tool[c]) \in Scope[bearer[c]]

\* The token was valid at that check, and the gateway was waiting by then: it has
\* waited for longer than the token has been expired.
FreshOK(c) ==
    at[c] = "wait" /\ serving[c] \in {"read", "ok"} => life[bearer[c]] + waited[c] >= 1

CallInv == \A c \in Calls : CallOK(c) /\ ScopeOK(c) /\ FreshOK(c)

\* The calls of a run carry its token, and those whose results were taken have
\* succeeded.
RunCalls ==
    \A q \in Queries :
        /\ batch[q] \subseteq CallsOf(q)
        /\ batch[q] # {} => stage[q] = "call"
        /\ stage[q] \in {"idle", "admit", "open"} => CallsOf(q) = {} /\ shown[q] = {}
        /\ stage[q] # "idle" => credential[q] \in Tokens
        /\ \A c \in CallsOf(q) : bearer[c] = credential[q]

Succeeded(q) ==
    \A c \in CallsOf(q) : outcome[c] = "ok" \/ (stage[q] = "call" /\ c \in batch[q])

RunResults ==
    \A q \in Queries :
        /\ stage[q] \in {"think", "call"} \/ answer[q] = "ok" => Succeeded(q)
        /\ answer[q] # None => stage[q] = "done"

Inv ==
    /\ TypeOK /\ CallInv /\ RunCalls /\ RunResults
    /\ OwnDocumentsOnly /\ ToolCallsLimited

-----------------------------------------------------------------------------
LEMMA InitInv == Init => Inv
<1> SUFFICES ASSUME Init PROVE Inv
  OBVIOUS
<1>1. CallsTypeOK
  <2>1. life \in [Tokens -> (-DownstreamTimeout)..MaxLife]
    BY GatewayAssumption DEF GatewayAssumption, Init, InitCalls
  <2>2. waited \in [Calls -> 0..DownstreamTimeout]
    BY GatewayAssumption DEF GatewayAssumption, Init, InitCalls
  <2> QED
    BY <2>1, <2>2 DEF Init, InitCalls, CallsTypeOK, CallStages, ServiceStages
<1>2. TypeOK
  <2>1. /\ elapsed \in [Queries -> 0..AgentTimeout] /\ requests \in [Queries -> 0..RequestLimit]
        /\ pending \in [Calls -> 0..ToolTimeout]
    BY AgentAssumption DEF AgentAssumption, Init
  <2> QED
    BY <1>1, <2>1 DEF Init, TypeOK, RunStages
<1>3. \A q \in Queries : CallsOf(q) = {}
  BY AgentAssumption DEF AgentAssumption, Init, CallsOf
<1>4. CallInv
  BY DEF Init, InitCalls, CallInv, CallOK, ScopeOK, FreshOK
<1>5. RunCalls /\ RunResults /\ OwnDocumentsOnly
  BY <1>3, GatewayAssumption
  DEF GatewayAssumption, Outcomes, Init, RunCalls, RunResults, OwnDocumentsOnly
<1>6. ToolCallsLimited
  BY <1>3, FS_EmptySet, AgentAssumption DEF AgentAssumption, ToolCallsLimited
<1> QED
  BY <1>2, <1>4, <1>5, <1>6 DEF Inv

-----------------------------------------------------------------------------
(* Steps of a call: the gateway's and the document service's, for any        *)
(* client.                                                                   *)

CallStep(c) == GatewayStep(c) \/ ServiceStep(c)

\* A call step moves one call that was sent; what it was answered stays.
CallMoved(c) ==
    /\ UNCHANGED <<life, bearer, tool>>
    /\ at' \in [Calls -> CallStages] /\ serving' \in [Calls -> ServiceStages]
    /\ waited' \in [Calls -> 0..DownstreamTimeout] /\ found' \in [Calls -> SUBSET Users]
    /\ outcome' \in [Calls -> Outcomes \cup {None}]
    /\ \A d \in Calls : d # c =>
         /\ at'[d] = at[d] /\ serving'[d] = serving[d] /\ waited'[d] = waited[d]
         /\ found'[d] = found[d] /\ outcome'[d] = outcome[d]
    /\ outcome[c] # None => outcome'[c] = outcome[c]
    /\ at[c] # "idle" /\ at'[c] # "idle"
    /\ CallOK(c)' /\ ScopeOK(c)' /\ FreshOK(c)'

\* A call under way ends; its request goes on at most as it stood.
LEMMA FinishMoves ==
  ASSUME Inv, NEW c \in Calls, at[c] \notin {"idle", "done"}, NEW result \in Outcomes,
         Finish(c, result), NEW s \in {"none", serving[c]},
         serving' = [serving EXCEPT ![c] = s]
  PROVE  CallMoved(c)
<1>0. CallsTypeOK /\ CallOK(c) /\ ScopeOK(c)
  BY DEF Inv, TypeOK, CallInv
<1>1. /\ UNCHANGED <<life, bearer, tool, found>>
      /\ at' = [at EXCEPT ![c] = "done"] /\ outcome' = [outcome EXCEPT ![c] = result]
      /\ waited' = [waited EXCEPT ![c] = 0]
  BY DEF Finish, Move
<1>2. /\ at' \in [Calls -> CallStages] /\ serving' \in [Calls -> ServiceStages]
      /\ waited' \in [Calls -> 0..DownstreamTimeout]
      /\ outcome' \in [Calls -> Outcomes \cup {None}]
  BY <1>0, <1>1, GatewayAssumption
  DEF GatewayAssumption, CallsTypeOK, CallStages, ServiceStages
<1>3. /\ at'[c] = "done" /\ outcome'[c] = result /\ serving'[c] = s
      /\ outcome[c] = None /\ result # None
      /\ \A d \in Calls : d # c =>
           /\ at'[d] = at[d] /\ serving'[d] = serving[d] /\ waited'[d] = waited[d]
           /\ outcome'[d] = outcome[d]
  BY <1>0, <1>1, GatewayAssumption DEF GatewayAssumption, CallsTypeOK, CallOK
<1>4. CallOK(c)'
  BY <1>0, <1>1, <1>3 DEF CallOK
<1>5. ScopeOK(c)' /\ FreshOK(c)'
  BY <1>0, <1>1, <1>3 DEF ScopeOK, FreshOK
<1> QED
  BY <1>0, <1>1, <1>2, <1>3, <1>4, <1>5 DEF CallMoved, CallsTypeOK

\* A call, or its request, goes on to its next stage and is not answered yet.
LEMMA StageMoves ==
  ASSUME Inv, NEW c \in Calls, at[c] # "idle",
         NEW a \in CallStages, NEW s \in ServiceStages,
         at' = [at EXCEPT ![c] = a], serving' = [serving EXCEPT ![c] = s],
         UNCHANGED <<life, bearer, tool, waited, outcome>>,
         found' \in {found, [found EXCEPT ![c] = {Sub[bearer[c]]}]},
         a # "idle", a = "done" <=> at[c] = "done",
         ScopeOK(c)', FreshOK(c)'
  PROVE  CallMoved(c)
<1>0. CallsTypeOK /\ CallOK(c)
  BY DEF Inv, TypeOK, CallInv
<1>1. Sub[bearer[c]] \in Users
  BY <1>0, GatewayAssumption DEF GatewayAssumption, CallOK
<1>2. /\ found' \in [Calls -> SUBSET Users] /\ found'[c] \subseteq {Sub[bearer[c]]}
      /\ \A d \in Calls : d # c => found'[d] = found[d]
  <2>1. CASE found' = found
    BY <1>0, <2>1 DEF CallsTypeOK, CallOK
  <2>2. CASE found' = [found EXCEPT ![c] = {Sub[bearer[c]]}]
    BY <1>0, <1>1, <2>2 DEF CallsTypeOK
  <2> QED
    BY <2>1, <2>2
<1>3. /\ at' \in [Calls -> CallStages] /\ serving' \in [Calls -> ServiceStages] /\ at'[c] = a
      /\ \A d \in Calls : d # c => at'[d] = at[d] /\ serving'[d] = serving[d]
  BY <1>0 DEF CallsTypeOK
<1>4. CallOK(c)'
  BY <1>0, <1>2, <1>3 DEF CallOK
<1> QED
  BY <1>0, <1>2, <1>3, <1>4 DEF CallMoved, CallsTypeOK

LEMMA GatewayMoves ==
  ASSUME Inv, NEW c \in Calls, GatewayStep(c)
  PROVE  CallMoved(c)
<1> USE DEF Outcomes
<1>0. /\ CallsTypeOK /\ CallOK(c) /\ ScopeOK(c)
      /\ serving = [serving EXCEPT ![c] = serving[c]]
      /\ serving[c] \in ServiceStages
  BY DEF Inv, TypeOK, CallInv, CallsTypeOK
<1>1. ASSUME NEW result \in Outcomes, at[c] \in {"verify", "invoke"}, Finish(c, result),
             UNCHANGED serving
      PROVE  CallMoved(c)
  BY <1>0, <1>1, FinishMoves
<1>2. CASE VerifyToken(c)
  <2>1. CASE Move(c, "invoke") /\ UNCHANGED <<life, bearer, tool, serving, waited, found, outcome>>
             /\ at[c] = "verify" /\ "mcp:invoke" \in Scope[bearer[c]]
    <3>1. at' = [at EXCEPT ![c] = "invoke"] /\ at'[c] = "invoke" /\ serving'[c] = "none"
      BY <1>0, <2>1 DEF Move, CallsTypeOK, ScopeOK
    <3>2. ScopeOK(c)' /\ FreshOK(c)'
      BY <2>1, <3>1 DEF ScopeOK, FreshOK
    <3> QED
      BY <1>0, <2>1, <3>1, <3>2, StageMoves DEF CallStages
  <2> QED
    BY <1>1, <1>2, <2>1 DEF VerifyToken
<1>3. CASE RefuseArguments(c)
  BY <1>1, <1>3 DEF RefuseArguments
<1>4. CASE Invoke(c)
  <2>1. CASE Move(c, "wait") /\ Serve(c, "check") /\ at[c] = "invoke"
             /\ UNCHANGED <<life, bearer, tool, waited, found, outcome>>
    <3>1. /\ at' = [at EXCEPT ![c] = "wait"] /\ at'[c] = "wait"
          /\ serving' = [serving EXCEPT ![c] = "check"] /\ serving'[c] = "check"
      BY <1>0, <2>1 DEF Move, Serve, CallsTypeOK
    <3>2. ScopeOK(c)' /\ FreshOK(c)'
      BY <1>0, <2>1, <3>1 DEF ScopeOK, FreshOK
    <3> QED
      BY <2>1, <3>1, <3>2, StageMoves DEF CallStages, ServiceStages
  <2> QED
    BY <1>1, <1>4, <2>1 DEF Invoke
<1>5. CASE TimeOut(c)
  <2>1. /\ at[c] = "wait" /\ Finish(c, "unavailable")
        /\ \E s \in {"none", serving[c]} : serving' = [serving EXCEPT ![c] = s]
    BY <1>5 DEF TimeOut, GiveUp, Waiting, Serve
  <2> QED
    BY <2>1, FinishMoves
<1> QED
  BY <1>2, <1>3, <1>4, <1>5 DEF GatewayStep

LEMMA ServiceMoves ==
  ASSUME Inv, NEW c \in Calls, ServiceStep(c)
  PROVE  CallMoved(c)
<1> USE DEF Outcomes
<1>0. /\ CallsTypeOK /\ CallOK(c) /\ ScopeOK(c) /\ FreshOK(c)
      /\ at = [at EXCEPT ![c] = at[c]] /\ at[c] \in CallStages
  BY DEF Inv, TypeOK, CallInv, CallsTypeOK
<1>1. ASSUME NEW s \in ServiceStages, serving[c] \in {"check", "read"}, Serve(c, s),
             UNCHANGED <<life, bearer, tool, at, waited, outcome>>,
             found' \in {found, [found EXCEPT ![c] = {Sub[bearer[c]]}]},
             s \in {"read", "ok"} =>
               /\ ToolScope(tool[c]) \in Scope[bearer[c]]
               /\ serving[c] = "read" \/ ~Expired(bearer[c])
      PROVE  CallMoved(c)
  <2>1. /\ serving' = [serving EXCEPT ![c] = s] /\ serving'[c] = s
        /\ at' = [at EXCEPT ![c] = at[c]] /\ at[c] \in {"wait", "done"}
    BY <1>0, <1>1 DEF Serve, CallsTypeOK, ScopeOK
  <2>2. ScopeOK(c)'
    BY <1>0, <1>1, <2>1 DEF ScopeOK
  <2>3. /\ bearer[c] \in Tokens /\ life[bearer[c]] \in Int /\ waited[c] \in Nat
    BY <1>0, <2>1, GatewayAssumption DEF GatewayAssumption, CallOK, CallsTypeOK
  <2>4. FreshOK(c)'
    BY <1>0, <1>1, <2>1, <2>3 DEF FreshOK, Expired
  <2> QED
    BY <1>0, <1>1, <2>1, <2>2, <2>4, StageMoves
<1>2. ASSUME NEW result \in Outcomes, serving[c] \in {"check", "read"}, Refuse(c, result)
      PROVE  CallMoved(c)
  <2>1. CASE Waiting(c)
    BY <1>2, <2>1, FinishMoves DEF Refuse, Serve, Waiting
  <2>2. CASE ~Waiting(c)
    BY <1>1, <1>2, <2>2 DEF Refuse, ServiceStages
  <2> QED
    BY <2>1, <2>2
<1>3. ASSUME NEW result \in Outcomes, GiveUp(c, result) PROVE CallMoved(c)
  <2>1. /\ at[c] = "wait" /\ Finish(c, result)
        /\ \E s \in {"none", serving[c]} : serving' = [serving EXCEPT ![c] = s]
    BY <1>3 DEF GiveUp, Waiting, Serve
  <2> QED
    BY <2>1, FinishMoves
<1>4. CASE CheckToken(c)
  BY <1>1, <1>2, <1>4 DEF CheckToken, ServiceStages
<1>5. CASE ReadDocuments(c)
  BY <1>0, <1>1, <1>5 DEF ReadDocuments, ServiceStages, ScopeOK
<1>6. CASE ServiceFails(c)
  BY <1>2, <1>6 DEF ServiceFails
<1>7. CASE Reply(c) \/ ConnectionFails(c)
  BY <1>3, <1>7 DEF Reply, ConnectionFails
<1> QED
  BY <1>4, <1>5, <1>6, <1>7 DEF ServiceStep

LEMMA CallStepInv ==
  ASSUME Inv, NEW c \in Calls, CallStep(c), UNCHANGED runs
  PROVE  Inv'
<1>0. CallMoved(c)
  BY GatewayMoves, ServiceMoves DEF CallStep
<1>1. /\ UNCHANGED <<credential, stage, elapsed, requests, caller, pending, batch, shown, answer>>
      /\ \A q \in Queries : CallsOf(q)' = CallsOf(q)
  BY DEF runs, CallsOf
<1>2. \A d \in Calls : outcome[d] = "ok" => outcome'[d] = "ok"
  BY <1>0, GatewayAssumption DEF GatewayAssumption, Outcomes, CallMoved
<1>3. TypeOK'
  BY <1>0, <1>1 DEF Inv, TypeOK, CallsTypeOK, CallMoved
<1>4. CallInv'
  <2> SUFFICES ASSUME NEW d \in Calls, d # c PROVE (CallOK(d) /\ ScopeOK(d) /\ FreshOK(d))'
    BY <1>0 DEF CallInv, CallMoved
  <2>1. /\ UNCHANGED <<caller, life, bearer, tool>>
        /\ at'[d] = at[d] /\ serving'[d] = serving[d] /\ waited'[d] = waited[d]
        /\ found'[d] = found[d] /\ outcome'[d] = outcome[d]
    BY <1>0, <1>1 DEF CallMoved
  <2> QED
    BY <2>1 DEF Inv, CallInv, CallOK, ScopeOK, FreshOK
<1>5. RunCalls'
  BY <1>0, <1>1 DEF Inv, RunCalls, CallMoved
<1>6. RunResults'
  BY <1>1, <1>2 DEF Inv, RunResults, Succeeded, CallsOf
<1>7. OwnDocumentsOnly' /\ ToolCallsLimited'
  BY <1>1 DEF Inv, OwnDocumentsOnly, ToolCallsLimited
<1> QED
  BY <1>3, <1>4, <1>5, <1>6, <1>7 DEF Inv

\* Another client's call.
LEMMA SendInv ==
  ASSUME Inv, NEW c \in Calls, NEW k \in Tokens, NEW t \in Tools, Send(c, k, t), UNCHANGED runs
  PROVE  Inv'
<1>1. /\ UNCHANGED <<credential, stage, elapsed, requests, caller, pending, batch, shown, answer>>
      /\ UNCHANGED <<life, serving, waited, found, outcome>>
      /\ \A q \in Queries : CallsOf(q)' = CallsOf(q)
  BY DEF runs, CallsOf, Send
<1>2. /\ at[c] = "idle" /\ at'[c] = "verify" /\ bearer'[c] = k
      /\ \A d \in Calls : d # c => /\ at'[d] = at[d] /\ bearer'[d] = bearer[d]
                                   /\ tool'[d] = tool[d]
  BY DEF Inv, TypeOK, CallsTypeOK, Send, Move
<1>3. TypeOK'
  <2>1. /\ at' \in [Calls -> CallStages] /\ bearer' \in [Calls -> Tokens \cup {None}]
        /\ tool' \in [Calls -> Tools \cup {None}]
    BY DEF Inv, TypeOK, CallsTypeOK, Send, Move, CallStages
  <2> QED
    BY <1>1, <2>1 DEF Inv, TypeOK, CallsTypeOK
<1>4. CallInv'
  BY <1>1, <1>2 DEF Inv, CallInv, CallOK, ScopeOK, FreshOK
<1>5. \A q \in Queries : c \notin CallsOf(q)
  BY <1>2, AgentAssumption DEF AgentAssumption, Inv, CallInv, CallOK, CallsOf
<1>6. RunCalls'
  BY <1>1, <1>2, <1>5 DEF Inv, RunCalls, CallsOf
<1>7. RunResults' /\ OwnDocumentsOnly' /\ ToolCallsLimited'
  BY <1>1 DEF Inv, RunResults, Succeeded, OwnDocumentsOnly, ToolCallsLimited
<1> QED
  BY <1>3, <1>4, <1>6, <1>7 DEF Inv

-----------------------------------------------------------------------------
(* Steps of a run *)

\* The end of a run: "ok" only when every call it made had succeeded.
LEMMA AnswerInv ==
  ASSUME Inv, NEW q \in Queries, stage[q] # "idle",
         NEW what \in {"ok", "unauthorized", "forbidden", "unavailable"}, Answer(q, what),
         what = "ok" => stage[q] = "think"
  PROVE  Inv'
<1>1. /\ UNCHANGED <<calls, life, credential, requests, caller, shown>>
      /\ \A p \in Queries : CallsOf(p)' = CallsOf(p)
  BY DEF Answer, CallsOf
<1>2. /\ stage'[q] = "done" /\ batch'[q] = {} /\ answer'[q] = what
      /\ \A p \in Queries : p # q => /\ stage'[p] = stage[p] /\ batch'[p] = batch[p]
                                      /\ answer'[p] = answer[p]
  BY DEF Inv, TypeOK, Answer, Enter
<1>3. TypeOK'
  <2>1. /\ stage' \in [Queries -> RunStages] /\ batch' \in [Queries -> SUBSET Calls]
        /\ answer' \in [Queries -> {"ok", "unauthorized", "forbidden", "unavailable", None}]
    BY DEF Inv, TypeOK, Answer, Enter, RunStages
  <2>2. elapsed' \in [Queries -> 0..AgentTimeout] /\ pending' \in [Calls -> 0..ToolTimeout]
    BY AgentAssumption DEF AgentAssumption, Inv, TypeOK, Answer
  <2> QED
    BY <1>1, <2>1, <2>2 DEF Inv, TypeOK, CallsTypeOK, calls
<1>4. CallInv'
  BY <1>1 DEF Inv, CallInv, CallOK, ScopeOK, FreshOK, calls
<1>5. RunCalls'
  BY <1>1, <1>2 DEF Inv, RunCalls, calls
<1>6. RunResults'
  BY <1>1, <1>2 DEF Inv, RunResults, Succeeded, calls
<1>7. OwnDocumentsOnly' /\ ToolCallsLimited'
  BY <1>1 DEF Inv, OwnDocumentsOnly, ToolCallsLimited
<1> QED
  BY <1>3, <1>4, <1>5, <1>6, <1>7 DEF Inv

\* The steps that bring a run to its first model request.
LEMMA EntryInv ==
  ASSUME Inv, NEW q \in Queries, stage[q] \in {"idle", "admit", "open"},
         NEW s \in RunStages \ {"idle"}, Enter(q, s),
         credential' \in [Queries -> Tokens \cup {None}], credential'[q] \in Tokens,
         \A p \in Queries : p # q => credential'[p] = credential[p],
         requests' \in [Queries -> 0..RequestLimit],
         UNCHANGED <<calls, life, elapsed, caller, pending, batch, shown, answer>>
  PROVE  Inv'
<1>0. CallsOf(q) = {} /\ shown[q] = {} /\ batch[q] = {} /\ answer[q] = None
  BY GatewayAssumption DEF GatewayAssumption, Inv, RunCalls, RunResults
<1>1. /\ stage'[q] = s
      /\ \A p \in Queries : p # q => stage'[p] = stage[p]
      /\ \A p \in Queries : CallsOf(p)' = CallsOf(p)
  BY DEF Inv, TypeOK, Enter, CallsOf
<1>2. TypeOK'
  BY DEF Inv, TypeOK, CallsTypeOK, calls, Enter
<1>3. CallInv'
  BY DEF Inv, CallInv, CallOK, ScopeOK, FreshOK, calls
<1>4. RunCalls'
  BY <1>0, <1>1 DEF Inv, RunCalls, calls
<1>5. RunResults'
  BY <1>0, <1>1, GatewayAssumption DEF GatewayAssumption, Outcomes, Inv, RunResults, Succeeded, calls
<1>6. OwnDocumentsOnly' /\ ToolCallsLimited'
  BY <1>0, <1>1 DEF Inv, OwnDocumentsOnly, ToolCallsLimited
<1> QED
  BY <1>2, <1>3, <1>4, <1>5, <1>6 DEF Inv

LEMMA EnterInv ==
  ASSUME Inv, NEW q \in Queries,
         (\E k \in Tokens : Ask(q, k)) \/ Admit(q) \/ OpenSession(q) \/ OpenFails(q)
  PROVE  Inv'
<1> USE DEF RunStages, Running
<1>1. ASSUME NEW k \in Tokens, Ask(q, k) PROVE Inv'
  <2>1. /\ credential' \in [Queries -> Tokens \cup {None}] /\ credential'[q] \in Tokens
        /\ \A p \in Queries : p # q => credential'[p] = credential[p]
        /\ requests' \in [Queries -> 0..RequestLimit]
    BY <1>1 DEF Ask, Inv, TypeOK
  <2> QED
    BY <1>1, <2>1, EntryInv DEF Ask
<1>2. CASE Admit(q)
  <2>1. CASE Answer(q, "unauthorized") \/ Answer(q, "forbidden")
    BY <1>2, <2>1, AnswerInv DEF Admit
  <2>2. CASE Enter(q, "open") /\ UNCHANGED <<calls, life, credential, elapsed, requests, caller,
                                            pending, batch, shown, answer>>
    <3>1. /\ credential' \in [Queries -> Tokens \cup {None}] /\ credential'[q] \in Tokens
          /\ \A p \in Queries : p # q => credential'[p] = credential[p]
          /\ requests' \in [Queries -> 0..RequestLimit] /\ stage[q] = "admit"
      BY <1>2, <2>2 DEF Admit, Inv, TypeOK, RunCalls
    <3> QED
      BY <2>2, <3>1, EntryInv
  <2> QED
    BY <1>2, <2>1, <2>2 DEF Admit
<1>3. CASE OpenSession(q) /\ ~Expired(credential[q])
  <2>1. /\ credential' \in [Queries -> Tokens \cup {None}] /\ credential'[q] \in Tokens
        /\ \A p \in Queries : p # q => credential'[p] = credential[p]
    BY <1>3 DEF OpenSession, Inv, TypeOK, RunCalls
  <2>2. requests' \in [Queries -> 0..RequestLimit]
    BY <1>3, AgentAssumption DEF AgentAssumption, OpenSession, Inv, TypeOK
  <2> QED
    BY <1>3, <2>1, <2>2, EntryInv DEF OpenSession
<1>4. CASE stage[q] = "open" /\ Fail(q)
  BY <1>4, AnswerInv DEF Fail
<1> QED
  BY <1>1, <1>2, <1>3, <1>4 DEF OpenSession, OpenFails

\* The tool calls of one model response: new calls, with the run's own token.
LEMMA ModelCallsToolsInv ==
  ASSUME Inv, NEW q \in Queries, NEW cs \in SUBSET (Calls \ ClientCalls), ModelCallsTools(q, cs)
  PROVE  Inv'
<1>0. CASE ~WithinToolLimit(q, cs)
  BY <1>0, AnswerInv DEF ModelCallsTools, Fail
<1>1. CASE WithinToolLimit(q, cs)
  <2>1. /\ stage[q] = "think" /\ \A c \in cs : at[c] = "idle" /\ caller[c] = None /\ found[c] = {}
        /\ credential[q] \in Tokens
        /\ UNCHANGED <<serving, waited, found, outcome, life, credential, elapsed, requests,
                       pending, shown, answer>>
    BY <1>1 DEF ModelCallsTools, Inv, CallInv, CallOK, RunCalls
  <2>2. \A c \in Calls :
          IF c \in cs
            THEN at'[c] = "verify" /\ caller'[c] = q /\ bearer'[c] = credential[q]
            ELSE /\ at'[c] = at[c] /\ caller'[c] = caller[c] /\ bearer'[c] = bearer[c]
                 /\ tool'[c] = tool[c]
    BY <1>1 DEF ModelCallsTools, RunToken
  <2>3. /\ stage'[q] = "call" /\ batch'[q] = cs
        /\ \A p \in Queries : p # q => stage'[p] = stage[p] /\ batch'[p] = batch[p]
    BY <1>1 DEF ModelCallsTools, Enter, Inv, TypeOK
  <2>4. /\ CallsOf(q)' = CallsOf(q) \cup cs
        /\ \A p \in Queries : p # q => CallsOf(p)' = CallsOf(p)
        /\ \A p \in Queries : CallsOf(p) \cap cs = {}
    BY <2>1, <2>2, AgentAssumption DEF AgentAssumption, CallsOf
  <2>5. TypeOK'
    <3>1. PICK f \in [cs -> Tools] : tool' = [c \in Calls |-> IF c \in cs THEN f[c] ELSE tool[c]]
      BY <1>1 DEF ModelCallsTools
    <3>2. tool' \in [Calls -> Tools \cup {None}]
      BY <3>1 DEF Inv, TypeOK, CallsTypeOK
    <3>3. /\ bearer' \in [Calls -> Tokens \cup {None}] /\ at' \in [Calls -> CallStages]
          /\ caller' \in [Calls -> Queries \cup {None}]
      BY <1>1, <2>1, SMTT(30) DEF ModelCallsTools, RunToken, Inv, TypeOK, CallsTypeOK, CallStages
    <3>4. batch' \in [Queries -> SUBSET Calls] /\ stage' \in [Queries -> RunStages]
      BY <1>1 DEF ModelCallsTools, Enter, Inv, TypeOK, RunStages, Running
    <3> QED
      BY <2>1, <3>2, <3>3, <3>4 DEF Inv, TypeOK, CallsTypeOK
  <2>6. CallInv'
    BY <2>1, <2>2, GatewayAssumption
    DEF GatewayAssumption, Inv, CallInv, CallOK, ScopeOK, FreshOK
  <2>7. RunCalls'
    BY <2>1, <2>2, <2>3, <2>4 DEF Inv, RunCalls, CallsOf
  <2>8. RunResults'
    BY <2>1, <2>3, <2>4, GatewayAssumption
    DEF GatewayAssumption, Outcomes, Inv, RunResults, Succeeded
  <2>9. ToolCallsLimited'
    <3>1. IsFiniteSet(CallsOf(q)) /\ IsFiniteSet(cs)
      BY FS_Subset, AgentAssumption DEF AgentAssumption, CallsOf
    <3>2. /\ Cardinality(CallsOf(q) \cup cs)
                = Cardinality(CallsOf(q)) + Cardinality(cs) - Cardinality({})
          /\ Cardinality(CallsOf(q)) \in Nat /\ Cardinality(cs) \in Nat
      BY <2>4, <3>1, FS_Union, FS_CardinalityType
    <3>3. Cardinality(CallsOf(q)') <= ToolLimit
      BY <1>1, <2>4, <3>2, FS_EmptySet DEF WithinToolLimit
    <3> QED
      BY <2>4, <3>3 DEF Inv, ToolCallsLimited
  <2> QED
    BY <2>1, <2>5, <2>6, <2>7, <2>8, <2>9 DEF Inv, OwnDocumentsOnly
<1> QED
  BY <1>0, <1>1

\* The results of a response, all of them good, reach the model.
LEMMA ResultsInInv ==
  ASSUME Inv, NEW q \in Queries, ResultsIn(q)
  PROVE  Inv'
<1>1. CASE requests[q] >= RequestLimit
  BY <1>1, AnswerInv DEF ResultsIn, Fail
<1>2. CASE ~(requests[q] >= RequestLimit)
  <2>1. /\ stage[q] = "call" /\ \A c \in batch[q] : outcome[c] = "ok"
        /\ UNCHANGED <<calls, life, elapsed, credential, caller, answer>>
        /\ \A p \in Queries : CallsOf(p)' = CallsOf(p)
    BY <1>2 DEF ResultsIn, CallsOf
  <2>2. /\ stage'[q] = "think" /\ batch'[q] = {}
        /\ shown'[q] = shown[q] \cup UNION {found[c] : c \in batch[q]}
        /\ \A p \in Queries : p # q => /\ stage'[p] = stage[p] /\ batch'[p] = batch[p]
                                        /\ shown'[p] = shown[p]
    BY <1>2 DEF ResultsIn, Enter, Inv, TypeOK
  <2>3. TypeOK'
    <3>1. stage' \in [Queries -> RunStages] /\ batch' \in [Queries -> SUBSET Calls]
      BY <1>2 DEF ResultsIn, Enter, Inv, TypeOK, RunStages, Running
    <3>2. requests' \in [Queries -> 0..RequestLimit]
      BY <1>2, AgentAssumption DEF AgentAssumption, ResultsIn, Inv, TypeOK
    <3>3. pending' \in [Calls -> 0..ToolTimeout]
      BY <1>2, AgentAssumption DEF AgentAssumption, ResultsIn, Inv, TypeOK
    <3>4. \A c \in batch[q] : found[c] \in SUBSET Users
      BY DEF Inv, TypeOK, CallsTypeOK
    <3>5. UNION {found[c] : c \in batch[q]} \in SUBSET Users
      BY <3>4
    <3>6. shown' \in [Queries -> SUBSET Users]
      BY <1>2, <3>5 DEF ResultsIn, Inv, TypeOK
    <3> QED
      BY <2>1, <3>1, <3>2, <3>3, <3>6 DEF Inv, TypeOK, CallsTypeOK, calls
  <2>4. CallInv'
    BY <2>1 DEF Inv, CallInv, CallOK, ScopeOK, FreshOK, calls
  <2>5. RunCalls'
    BY <2>1, <2>2 DEF Inv, RunCalls, calls
  <2>6. RunResults'
    BY <2>1, <2>2 DEF Inv, RunResults, Succeeded, calls
  <2>7. OwnDocumentsOnly'
    <3>1. \A c \in batch[q] : found[c] \subseteq {Sub[credential[q]]}
      BY DEF Inv, TypeOK, CallInv, CallOK, RunCalls
    <3> QED
      BY <2>1, <2>2, <3>1 DEF Inv, OwnDocumentsOnly
  <2> QED
    BY <2>1, <2>3, <2>4, <2>5, <2>6, <2>7 DEF Inv, ToolCallsLimited
<1> QED
  BY <1>1, <1>2

\* A tick: every timer still had time.
LEMMA TickInv ==
  ASSUME Inv, Tick
  PROVE  Inv'
<1>1. /\ UNCHANGED <<credential, stage, requests, caller, batch, shown, answer>>
      /\ UNCHANGED <<bearer, tool, at, serving, found, outcome>>
      /\ \A p \in Queries : CallsOf(p)' = CallsOf(p)
  BY DEF Tick, TickCalls, CallsOf
<1>2. /\ life' \in [Tokens -> (-DownstreamTimeout)..MaxLife]
      /\ \A k \in Tokens : life'[k] >= life[k] - 1
  <2>1. life' = [k \in Tokens |-> IF life[k] > -DownstreamTimeout THEN life[k] - 1 ELSE life[k]]
    BY DEF Tick, TickCalls
  <2>2. /\ \A k \in Tokens : life[k] \in (-DownstreamTimeout)..MaxLife
        /\ MaxLife \in Nat /\ DownstreamTimeout \in Nat
    BY GatewayAssumption DEF GatewayAssumption, Inv, TypeOK, CallsTypeOK
  <2>3. \A k \in Tokens : /\ life'[k] \in (-DownstreamTimeout)..MaxLife
                          /\ life'[k] >= life[k] - 1
    BY <2>1, <2>2
  <2>4. DOMAIN life' = Tokens /\ life' = [k \in Tokens |-> life'[k]]
    BY <2>1
  <2> QED
    BY <2>3, <2>4, Zenon
<1>3. waited' \in [Calls -> 0..DownstreamTimeout]
  BY GatewayAssumption
  DEF GatewayAssumption, Tick, TickCalls, NoTimerDue, Inv, TypeOK, CallsTypeOK
<1>4. elapsed' \in [Queries -> 0..AgentTimeout]
  BY AgentAssumption DEF AgentAssumption, Tick, Due, Inv, TypeOK
<1>5. pending' \in [Calls -> 0..ToolTimeout]
  <2>1. \A c \in Calls : Awaited(c) => pending[c] < ToolTimeout
    BY AgentAssumption
    DEF AgentAssumption, Awaited, Tick, Due, Inv, TypeOK, RunCalls, Running
  <2> QED
    BY <2>1, AgentAssumption DEF AgentAssumption, Tick, Inv, TypeOK
<1>6. TypeOK'
  BY <1>1, <1>2, <1>3, <1>4, <1>5 DEF Inv, TypeOK, CallsTypeOK
<1>7. \A c \in Calls : FreshOK(c)'
  <2> SUFFICES ASSUME NEW c \in Calls, at[c] = "wait", serving[c] \in {"read", "ok"}
               PROVE  life'[bearer[c]] + waited'[c] >= 1
    BY <1>1 DEF FreshOK
  <2>1. /\ bearer[c] \in Tokens /\ life[bearer[c]] + waited[c] >= 1
        /\ life[bearer[c]] \in Int /\ waited[c] \in Int
    BY GatewayAssumption
    DEF GatewayAssumption, Inv, TypeOK, CallsTypeOK, CallInv, CallOK, FreshOK
  <2>2. waited'[c] = waited[c] + 1
    BY DEF Tick, TickCalls, Waiting
  <2>3. life'[bearer[c]] >= life[bearer[c]] - 1 /\ life'[bearer[c]] \in Int
    BY <1>2, <2>1, GatewayAssumption DEF GatewayAssumption
  <2> QED
    BY <2>1, <2>2, <2>3
<1>8. CallInv' /\ RunCalls'
  BY <1>1, <1>7 DEF Inv, CallInv, CallOK, ScopeOK, RunCalls
<1>9. RunResults' /\ OwnDocumentsOnly' /\ ToolCallsLimited'
  BY <1>1 DEF Inv, RunResults, Succeeded, OwnDocumentsOnly, ToolCallsLimited
<1> QED
  BY <1>6, <1>8, <1>9 DEF Inv

LEMMA NextInv == Inv /\ [Next]_vars => Inv'
<1> SUFFICES ASSUME Inv, [Next]_vars PROVE Inv'
  OBVIOUS
<1>1. ASSUME NEW q \in Queries, CallFailed(q) \/ TimerFires(q) \/ ModelFails(q) \/ ModelAnswers(q)
      PROVE  Inv'
  BY <1>1, AnswerInv DEF CallFailed, TimerFires, ModelFails, ModelAnswers, Fail, Running
<1>2. ASSUME NEW q \in Queries, RunStep(q) \/ ModelStep(q) PROVE Inv'
  BY <1>1, <1>2, EnterInv, ResultsInInv, ModelCallsToolsInv DEF RunStep, ModelStep
<1>3. CASE UNCHANGED vars
  <2>1. UNCHANGED <<bearer, tool, at, serving, waited, found, outcome, life, credential, stage,
                   elapsed, requests, caller, pending, batch, shown, answer>>
    BY <1>3 DEF vars, calls, runs
  <2>2. TypeOK' /\ CallInv'
    BY <2>1 DEF Inv, TypeOK, CallsTypeOK, CallInv, CallOK, ScopeOK, FreshOK
  <2>3. RunCalls' /\ RunResults' /\ OwnDocumentsOnly' /\ ToolCallsLimited'
    BY <2>1 DEF Inv, RunCalls, RunResults, Succeeded, OwnDocumentsOnly, ToolCallsLimited, CallsOf
  <2> QED
    BY <2>2, <2>3 DEF Inv
<1>4. ASSUME NEW c \in Calls, (GatewayStep(c) \/ ServiceStep(c)) /\ UNCHANGED runs PROVE Inv'
  BY <1>4, CallStepInv DEF CallStep
<1>5. ASSUME NEW c \in ClientCalls, NEW k \in Tokens, NEW t \in Tools,
             Send(c, k, t) /\ UNCHANGED runs
      PROVE  Inv'
  BY <1>5, SendInv, AgentAssumption DEF AgentAssumption
<1> QED
  BY <1>2, <1>3, <1>4, <1>5, TickInv, EnterInv DEF Next

LEMMA Inductive == Spec => []Inv
  BY InitInv, NextInv, PTL DEF Spec

-----------------------------------------------------------------------------
\* Types and the bounds of every timer and counter.
THEOREM AgentTypes == Spec => []TypeOK
<1>1. Inv => TypeOK
  BY DEF Inv
<1> QED
  BY <1>1, Inductive, PTL

\* Runs that overlap on the cached agent show their models the asker's documents only.
THEOREM RunsKeptApart == Spec => []OwnDocumentsOnly
<1>1. Inv => OwnDocumentsOnly
  BY DEF Inv
<1> QED
  BY <1>1, Inductive, PTL

\* An answer rests on tool calls that all succeeded.
THEOREM AnswersComplete == Spec => []AnswerComplete
<1>1. Inv => AnswerComplete
  <2> SUFFICES ASSUME Inv, NEW q \in Queries, answer[q] = "ok", NEW c \in CallsOf(q)
               PROVE  outcome[c] = "ok"
    BY DEF AnswerComplete
  <2>1. stage[q] = "done" /\ Succeeded(q)
    BY GatewayAssumption DEF GatewayAssumption, Outcomes, Inv, RunResults
  <2> QED
    BY <2>1 DEF Succeeded
<1> QED
  BY <1>1, Inductive, PTL

\* No run crosses its limit of tool calls, not even within one response.
THEOREM ToolLimitKept == Spec => []ToolCallsLimited
<1>1. Inv => ToolCallsLimited
  BY DEF Inv
<1> QED
  BY <1>1, Inductive, PTL

\* What a call step reads and answers, with the scopes and the age of the token.
LEMMA CallStepAuthorized ==
  ASSUME Inv, NEW c \in Calls, CallStep(c)
  PROVE  /\ \A d \in Calls : d # c => found'[d] = found[d] /\ outcome'[d] = outcome[d]
         /\ found'[c] # found[c] => {"mcp:invoke", ToolScope(tool[c])} \subseteq Scope[bearer[c]]
         /\ outcome'[c] # outcome[c] /\ outcome'[c] = "ok"
               => life[bearer[c]] > -DownstreamTimeout
<1>0. CallsTypeOK /\ CallOK(c) /\ ScopeOK(c) /\ FreshOK(c) /\ CallMoved(c)
  BY GatewayMoves, ServiceMoves DEF CallStep, Inv, TypeOK, CallInv
<1>1. found' = found \/ serving[c] = "read"
  BY DEF CallStep, GatewayStep, VerifyToken, RefuseArguments, Invoke, TimeOut, ServiceStep,
         CheckToken, ReadDocuments, ServiceFails, Reply, ConnectionFails, Refuse, GiveUp, Finish
<1>2. \/ outcome' = outcome
      \/ serving[c] = "ok" /\ at[c] = "wait"
      \/ \E result \in Outcomes \ {"ok"} : outcome' = [outcome EXCEPT ![c] = result]
  <2>1. ASSUME NEW result \in Outcomes \ {"ok"}, Refuse(c, result) \/ GiveUp(c, result) \/ Finish(c, result)
        PROVE  outcome' = outcome \/ outcome' = [outcome EXCEPT ![c] = result]
    BY <2>1 DEF Refuse, GiveUp, Finish
  <2>2. CASE GatewayStep(c)
    BY <2>1, <2>2 DEF GatewayStep, VerifyToken, RefuseArguments, Invoke, TimeOut, Outcomes
  <2>3. CASE CheckToken(c) \/ ReadDocuments(c) \/ ServiceFails(c) \/ ConnectionFails(c)
    BY <2>1, <2>3 DEF CheckToken, ReadDocuments, ServiceFails, ConnectionFails, Outcomes
  <2>4. CASE Reply(c)
    BY <2>4 DEF Reply, GiveUp, Waiting
  <2> QED
    BY <2>2, <2>3, <2>4 DEF CallStep, ServiceStep
<1>3. ASSUME found'[c] # found[c]
      PROVE  {"mcp:invoke", ToolScope(tool[c])} \subseteq Scope[bearer[c]]
  BY <1>0, <1>1, <1>3 DEF ScopeOK
<1>4. ASSUME outcome'[c] # outcome[c], outcome'[c] = "ok"
      PROVE  life[bearer[c]] > -DownstreamTimeout
  <2>1. serving[c] = "ok" /\ at[c] = "wait"
    BY <1>0, <1>2, <1>4 DEF CallsTypeOK
  <2>2. life[bearer[c]] + waited[c] >= 1 /\ bearer[c] \in Tokens
    BY <1>0, <2>1 DEF FreshOK, CallOK
  <2>3. waited[c] <= DownstreamTimeout /\ waited[c] \in Int /\ life[bearer[c]] \in Int
    BY <1>0, <2>2, GatewayAssumption DEF GatewayAssumption, CallsTypeOK
  <2> QED
    BY <2>2, <2>3, GatewayAssumption DEF GatewayAssumption
<1> QED
  BY <1>0, <1>3, <1>4 DEF CallMoved

\* The document service reads for a call only under the scopes of the transport
\* and of the tool; and a call succeeds within DownstreamTimeout of the expiry of
\* its token, wherever the steps of the two services and the clock fall.
THEOREM ReadsAreAuthorized == Spec => ReadsAuthorized
<1>1. ASSUME Inv, [Next]_vars
      PROVE  [\A c \in Calls :
                /\ found'[c] # found[c] => {"mcp:invoke", ToolScope(tool[c])} \subseteq Scope[bearer[c]]
                /\ outcome'[c] # outcome[c] /\ outcome'[c] = "ok"
                      => life[bearer[c]] > -DownstreamTimeout]_<<life, calls>>
  <2>1. CASE \E c \in Calls : CallStep(c)
    BY <1>1, <2>1, CallStepAuthorized
  <2>2. CASE UNCHANGED <<found, outcome>>
    BY <2>2
  <2>3. CASE \E q \in Queries : (\E k \in Tokens : Ask(q, k)) \/ RunStep(q) \/ ModelStep(q)
    <3>1. UNCHANGED <<found, outcome>>
      BY <2>3 DEF Ask, RunStep, ModelStep, Admit, ResultsIn, CallFailed, TimerFires, OpenSession,
         OpenFails, ModelAnswers, ModelFails, ModelCallsTools, Fail, Answer, calls
    <3> QED
      BY <2>2, <3>1
  <2>4. CASE UNCHANGED vars \/ Tick \/ \E c \in ClientCalls, k \in Tokens, t \in Tools : Send(c, k, t)
    <3>1. UNCHANGED <<found, outcome>>
      BY <2>4 DEF vars, calls, Tick, TickCalls, Send
    <3> QED
      BY <2>2, <3>1
  <2> QED
    BY <1>1, <2>1, <2>3, <2>4 DEF Next, CallStep
<1> QED
  BY <1>1, Inductive, PTL DEF Spec, ReadsAuthorized

-----------------------------------------------------------------------------
(* AgentQuery implements AgentDesk: taking a query in is Ask, its end Refuse *)
(* or Reply, results that reach the model Show; all else is a stutter.      *)

\* A query is known by its credential from the first step to the last, has its
\* answer exactly when it is over, and runs only with the scopes it needs.
Served ==
    \A q \in Queries :
        /\ stage[q] = "idle" => credential[q] = None
        /\ stage[q] = "done" => answer[q] # None
        /\ stage[q] \in Running => AgentScopes \subseteq Scope[credential[q]]

\* A step of one run that keeps its credential, and ends it only with an answer.
LEMMA ServedStep ==
  ASSUME Inv, Served, NEW q \in Queries, NEW s \in RunStages \ {"idle"}, Enter(q, s),
         credential' = credential, stage[q] # "idle",
         s \in Running => stage[q] \in Running \/ AgentScopes \subseteq Scope[credential[q]],
         IF s = "done" THEN \E what \in Outcomes : answer' = [answer EXCEPT ![q] = what]
                       ELSE answer' = answer
  PROVE  Served'
<1> USE DEF Inv, TypeOK, Served, Enter, RunStages, Running
<1>1. /\ stage'[q] = s
      /\ \A p \in Queries : p # q => stage'[p] = stage[p] /\ answer'[p] = answer[p]
  OBVIOUS
<1>2. s = "done" => answer'[q] # None
  BY GatewayAssumption DEF GatewayAssumption
<1> QED
  BY <1>1, <1>2

\* The end of a run, seen from outside.
LEMMA AnswerDesk ==
  ASSUME Inv, Served, NEW q \in Queries, stage[q] \in {"admit"} \cup Running,
         NEW what \in {"ok", "unauthorized", "forbidden", "unavailable"}, Answer(q, what),
         IF stage[q] = "admit"
           THEN \/ what = "unauthorized"
                \/ what = "forbidden" /\ ~(AgentScopes \subseteq Scope[credential[q]])
           ELSE what \in {"ok", "unavailable"}
  PROVE  Desk!Next /\ Served'
<1>1. /\ UNCHANGED <<credential, shown>> /\ answer' = [answer EXCEPT ![q] = what]
      /\ Enter(q, "done")
  BY DEF Answer
<1>2. Desk!Open(q)
  BY GatewayAssumption DEF GatewayAssumption, Desk!Open, Inv, RunCalls, RunResults, Running
<1>3. ASSUME stage[q] = "admit" PROVE Desk!Next
  <2>1. what \in {"unauthorized", "forbidden"} /\ Desk!Refuse(q, what)
    BY <1>1, <1>2, <1>3 DEF Desk!Refuse, Desk!Entitled, Inv, RunCalls
  <2> QED
    BY <2>1 DEF Desk!Next
<1>4. ASSUME stage[q] \in Running PROVE Desk!Next
  <2>1. what \in {"ok", "unavailable"} /\ Desk!Reply(q, what)
    BY <1>1, <1>2, <1>4 DEF Desk!Reply, Desk!Entitled, Served, Running
  <2> QED
    BY <2>1 DEF Desk!Next
<1>5. Served'
  BY <1>1, ServedStep DEF Running, RunStages, Outcomes
<1> QED
  BY <1>3, <1>4, <1>5

LEMMA InitDesk == Init => Desk!Init /\ Served
  BY DEF Init, Desk!Init, Served, Running

\* A query comes in, is admitted and gets its session.
LEMMA EnterDesk ==
  ASSUME Inv, Served, NEW q \in Queries,
         (\E k \in Tokens : Ask(q, k)) \/ Admit(q) \/ OpenSession(q) \/ OpenFails(q)
  PROVE  [Desk!Next]_(Desk!desk) /\ Served'
<1> USE DEF RunStages, Running
<1>1. ASSUME NEW k \in Tokens, Ask(q, k) PROVE Desk!Next /\ Served'
  <2>1. Desk!Ask(q, k)
    BY <1>1 DEF Ask, Desk!Ask, Served
  <2>2. Served'
    BY <1>1 DEF Ask, Enter, Served, Inv, TypeOK
  <2> QED
    BY <2>1, <2>2 DEF Desk!Next
<1>2. CASE \E s \in {"open", "think"} :
             /\ Enter(q, s) /\ UNCHANGED <<credential, shown, answer>> /\ stage[q] # "idle"
             /\ stage[q] \in Running \/ AgentScopes \subseteq Scope[credential[q]]
  BY <1>2, ServedStep DEF Desk!desk
<1>3. CASE Admit(q)
  BY <1>2, <1>3, AnswerDesk DEF Admit
<1>4. CASE OpenSession(q) \/ OpenFails(q)
  BY <1>2, <1>4, AnswerDesk DEF OpenSession, OpenFails, Fail
<1> QED
  BY <1>1, <1>3, <1>4

\* All results of a response are of the asker's own documents.
LEMMA ResultsDesk ==
  ASSUME Inv, Served, NEW q \in Queries, ResultsIn(q)
  PROVE  [Desk!Next]_(Desk!desk) /\ Served'
<1> USE DEF RunStages, Running
<1>1. CASE requests[q] >= RequestLimit
  BY <1>1, AnswerDesk DEF ResultsIn, Fail
<1>2. CASE ~(requests[q] >= RequestLimit)
  <2>1. /\ stage[q] = "call" /\ Enter(q, "think") /\ UNCHANGED <<credential, answer>>
        /\ shown' = [shown EXCEPT ![q] = @ \cup UNION {found[c] : c \in batch[q]}]
    BY <1>2 DEF ResultsIn
  <2>2. Served'
    BY <2>1, ServedStep
  <2>3. \A c \in batch[q] : found[c] \subseteq {Sub[credential[q]]}
    BY DEF Inv, TypeOK, CallInv, CallOK, RunCalls
  <2>4. shown[q] \subseteq {Sub[credential[q]]} /\ shown \in [Queries -> SUBSET Users]
    BY DEF Inv, TypeOK, OwnDocumentsOnly
  <2>5. CASE shown'[q] = shown[q]
    <3>1. shown' = shown
      BY <2>1, <2>4, <2>5
    <3> QED
      BY <2>1, <2>2, <3>1 DEF Desk!desk
  <2>6. CASE shown'[q] # shown[q]
    <3>1. shown[q] \cup UNION {found[c] : c \in batch[q]} = {Sub[credential[q]]}
      BY <2>1, <2>3, <2>4, <2>6
    <3>2. Desk!Open(q) /\ Desk!Entitled(q)
      BY <2>1, GatewayAssumption
      DEF GatewayAssumption, Desk!Open, Desk!Entitled, Served, Inv, RunCalls, RunResults
    <3>3. Desk!Show(q)
      BY <2>1, <3>1, <3>2 DEF Desk!Show
    <3> QED
      BY <2>2, <3>3 DEF Desk!Next
  <2> QED
    BY <2>5, <2>6
<1> QED
  BY <1>1, <1>2

LEMMA NextDesk == Inv /\ Served /\ [Next]_vars => [Desk!Next]_(Desk!desk) /\ Served'
<1> SUFFICES ASSUME Inv, Served, [Next]_vars PROVE [Desk!Next]_(Desk!desk) /\ Served'
  OBVIOUS
<1>1. ASSUME NEW q \in Queries, CallFailed(q) \/ TimerFires(q) \/ ModelFails(q) \/ ModelAnswers(q)
      PROVE  Desk!Next /\ Served'
  BY <1>1, AnswerDesk DEF CallFailed, TimerFires, ModelFails, ModelAnswers, Fail, Running
<1>2. ASSUME NEW q \in Queries, NEW cs \in SUBSET (Calls \ ClientCalls), ModelCallsTools(q, cs)
      PROVE  [Desk!Next]_(Desk!desk) /\ Served'
  <2>1. CASE Fail(q) /\ stage[q] = "think"
    BY <2>1, AnswerDesk DEF Fail, Running
  <2>2. CASE Enter(q, "call") /\ stage[q] = "think" /\ UNCHANGED <<credential, shown, answer>>
    BY <2>2, ServedStep DEF Desk!desk, Running, RunStages
  <2> QED
    BY <1>2, <2>1, <2>2 DEF ModelCallsTools
<1>3. CASE UNCHANGED <<credential, stage, shown, answer>>
  BY <1>3 DEF Desk!desk, Served
<1>4. ASSUME UNCHANGED runs PROVE [Desk!Next]_(Desk!desk) /\ Served'
  BY <1>3, <1>4 DEF runs
<1>5. CASE UNCHANGED vars \/ Tick
  BY <1>3, <1>5 DEF vars, runs, Tick
<1> QED
  BY <1>1, <1>2, <1>4, <1>5, EnterDesk, ResultsDesk DEF Next, RunStep, ModelStep

\* The ai-service answers every query once, reads nothing for a query it refuses
\* and only the asker's documents for one it serves, however runs, abandoned
\* calls and timers overlap.
THEOREM ImplementsDesk == Spec => KeepsDesk
<1>1. Init => Inv /\ Served /\ Desk!Init
  BY InitInv, InitDesk
<1>2. Inv /\ Served /\ [Next]_vars => Inv' /\ Served' /\ [Desk!Next]_(Desk!desk)
  BY NextInv, NextDesk
<1> QED
  BY <1>1, <1>2, PTL DEF Spec, KeepsDesk, Desk!Spec

=============================================================================
