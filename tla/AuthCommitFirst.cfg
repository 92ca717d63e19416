SPECIFICATION Spec
CONSTANTS
    Requests = {r1, r2, r3, r4}
    Emails = {ada}
    None = None
    Forged = Forged
    RefreshLife = 1
    MaxClock = 2
    MaxFaults = 1
    ResponseFirst = FALSE
SYMMETRY Symmetry
CHECK_DEADLOCK FALSE
INVARIANTS
    SingleSuccessor
    OneLivePerSession
    NoSilentSignOut
    NoLateRotation
    OneRegistrationPerEmail
    AnswerMatchesCommit
    LogoutFinal
PROPERTIES
    RefusalsJustified
    KeepsLedger
