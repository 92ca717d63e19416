SPECIFICATION Spec
CONSTANTS
    Requests = {r1, r2}
    Users = {ada}
    None = None
    ChunkCounts = {2}
    PoolSize = 2
    MaxFaults = 0
    ResponseFirst = FALSE
CHECK_DEADLOCK FALSE
INVARIANT FailedUploadRecorded
