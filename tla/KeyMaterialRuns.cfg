SPECIFICATION Spec
CONSTANTS
    Invocations = {i1, i2, i3}
    Services = {gateway, resource}
    Gateway = gateway
    Logins = {p1}
    None = None
    AccessLife = 1
    RefreshLife = 2
    MaxRemovals = 2
INVARIANTS
    TypeOK
    PairMatches
    TrustFollowsFiles
PROPERTY KeepsKeys
