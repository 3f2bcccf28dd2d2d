SPECIFICATION LiveSpec
CONSTANTS
    k1 = k1
    k2 = k2
    r1 = r1
    r2 = r2
    Keys = {k1, k2}
    Requests = {r1, r2}
    Threshold = 2
    Recovery = 3
    HalfOpenProbes = 1
    MaxKeys = 1
    IdleTtl = 1
    CleanupInterval = 3
    IdleCap = 2
    None = None
INVARIANTS
    RecoveryIsKept
    FailuresAreConsecutive
PROPERTIES
    NoAdmissionInRecovery
    CircuitRecovers
