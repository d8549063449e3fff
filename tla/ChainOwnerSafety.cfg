CONSTANTS
    p1 = p1
    p2 = p2
    k1 = k1
    k2 = k2
    k3 = k3
    k4 = k4
    NoToken = NoToken
    Null = Null
    Process = {p1, p2}
    Token = {k1, k2, k3, k4}
    Values = {0, 1}
    FirstValue = 0
    Delays = {0, 1}
    Lease = 2
    MaxRuns = 2
    Backoff <- MCBackoff
    MaxVersion = 2
    MaxFaults = 2
SYMMETRY Identities
SPECIFICATION Spec
INVARIANTS
    TypeOK
    BelieversOwn
    OwnerIsCurrent
PROPERTIES
    NoLostUpdate
    AlarmNotLost
