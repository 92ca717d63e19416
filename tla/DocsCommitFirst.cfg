SPECIFICATION Spec
CONSTANTS
    Requests = {r1, r2, r3}
    Users = {ada, bob}
    None = None
    ChunkCounts = {2}
    PoolSize = 2
    MaxFaults = 1
    ResponseFirst = FALSE
SYMMETRY Symmetry
CHECK_DEADLOCK FALSE
INVARIANTS
    VisibleComplete
    OwnersOnly
    ConnectionsReturned
    AnswerMatchesCommit
PROPERTIES
    KeepsShelf
    UploadsAreListed
