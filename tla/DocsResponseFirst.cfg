SPECIFICATION FairSpec
CONSTANTS
    Requests = {r1, r2}
    Users = {ada, bob}
    None = None
    ChunkCounts = {1, 2}
    PoolSize = 1
    MaxFaults = 1
    ResponseFirst = TRUE
CHECK_DEADLOCK FALSE
INVARIANT StoreSound
PROPERTY EveryRequestEnds
