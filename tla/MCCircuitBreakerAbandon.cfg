SPECIFICATION LiveSpec
CONSTANTS
    k1 = k1
    k2 = k2
    r1 = r1
    r2 = r2
    Keys = {k1}
    Requests = {r1, r2}
    Threshold = 2
    Recovery = 2
    HalfOpenProbes = 2
    MaxKeys = 1
    IdleTtl = 1
    CleanupInterval = 2
    IdleCap = 2
    None = None
PROPERTIES
    HalfOpenResolves
