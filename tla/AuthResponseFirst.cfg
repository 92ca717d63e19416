SPECIFICATION FairSpec
CONSTANTS
    Requests = {r1, r2, r3}
    Emails = {ada}
    None = None
    Forged = Forged
    RefreshLife = 1
    MaxClock = 1
    MaxFaults = 1
    ResponseFirst = TRUE
CHECK_DEADLOCK FALSE
INVARIANTS
    SessionsSound
    WaitsForNoWaiter
PROPERTY EveryRequestEnds
