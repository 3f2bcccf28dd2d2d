SPECIFICATION Spec
CONSTANTS
    i1 = i1
    i2 = i2
    r1 = r1
    r2 = r2
    r3 = r3
    Instances = {i1, i2}
    Requests = {r1, r2, r3}
    Home <- TwoInstances
    Threshold = 2
    Recovery = 2
    HalfOpenProbes = 1
    CacheTtl = 2
    Slack = 1
    MaxDelay = 1
    AgeCap = 6
SYMMETRY FirstInstance
INVARIANTS
    StaleAllowIsBounded
    RejectLagIsBounded
    ProbesAreShared
    RecoveryOutlivesTtl
