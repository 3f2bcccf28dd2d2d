SPECIFICATION RedisSpec
CONSTANTS
    k1 = k1
    k2 = k2
    r1 = r1
    r2 = r2
    x1 = x1
    Keys = {k1, k2}
    Requests = {r1, r2}
    Cost = 2
    Burst = 3
    MaxKeys = 1
    IdleTtl = 8
    CleanupInterval = 3
    IdleCap = 10
    MaxDebt = 4
    Horizon = 3
    None = None
    Shared = k1
    Remote = {x1}
    Slack = 4
    MaxLatency = 1
    MaxFailures = 1
SYMMETRY LimiterSymmetry
INVARIANTS
    Conforms
    SharedConforms
PROPERTIES
    NoOvertaking
