SPECIFICATION Spec
CONSTANTS
    Requests = {r1, r2}
    Emails = {ada}
    None = None
    Forged = Forged
    RefreshLife = 1
    MaxClock = 1
    MaxFaults = 0
    ResponseFirst = TRUE
CHECK_DEADLOCK FALSE
INVARIANT LogoutFinal
