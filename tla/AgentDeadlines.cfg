SPECIFICATION FairSpec
CONSTANTS
    ada = ada
    bob = bob
    adaToken = adaToken
    bobToken = bobToken
    narrowToken = narrowToken
    barredToken = barredToken
    Calls = {c1, c3}
    ClientCalls = {c3}
    Users = {ada, bob}
    Tokens = {adaToken, narrowToken, barredToken}
    Sub <- ScarceSub
    Scope <- ScarceScope
    None = None
    MaxLife = 2
    DownstreamTimeout = 2
    Queries = {q1}
    AgentTimeout = 4
    OpenTimeout = 1
    ToolTimeout = 3
    RequestLimit = 3
    ToolLimit = 2
CHECK_DEADLOCK FALSE
PROPERTIES
    ReadsAuthorized
    EveryCallEnds
    EveryQueryEnds
