SPECIFICATION Spec
CONSTANTS
    ada = ada
    bob = bob
    adaToken = adaToken
    bobToken = bobToken
    narrowToken = narrowToken
    barredToken = barredToken
    Calls = {c1, c2, c3}
    ClientCalls = {}
    Users = {ada, bob}
    Tokens = {adaToken, bobToken, narrowToken, barredToken}
    Sub <- TokenSub
    Scope <- TokenScope
    None = None
    MaxLife = 1
    DownstreamTimeout = 1
    Queries = {q1, q2}
    AgentTimeout = 3
    OpenTimeout = 1
    ToolTimeout = 2
    RequestLimit = 2
    ToolLimit = 2
SYMMETRY Symmetry
CHECK_DEADLOCK FALSE
INVARIANTS
    TypeOK
    OwnDocumentsOnly
    AnswerComplete
    ToolCallsLimited
PROPERTY
    KeepsDesk
