SPECIFICATION RedisSpec
CONSTANTS
    k1 = k1
    k2 = k2
    r1 = r1
    r2 = r2
    r3 = r3
    x1 = x1
    Keys = {k1, k2}
    Requests = {r1, r2, r3}
    Count = 2
    Window = 3
    MaxKeys = 1
    IdleTtl = 6
    CleanupInterval = 3
    IdleCap = 8
    MaxLog = 4
    None = None
    Shared = k1
    Remote = {x1}
    Slack = 1
    MaxLatency = 1
    MaxFailures = 1
    MaxMembers = 5
SYMMETRY WindowSymmetry
INVARIANTS
    ReservationsOutliveExpiry
PROPERTIES
    ImmediateWithinCap
