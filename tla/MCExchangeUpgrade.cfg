SPECIFICATION ExchangeSpec
CONSTANTS
    Idle = 3
    MaxUnits = 2
    AgeCap = 7
    RequestTimeout = 3
    ConnectTimeout = 2
    BytesPerTick = 1
    Headers <- MCHeaders
    MaxFrame = 2
    MaxFrames = 3
INVARIANTS
    UpgradesAreRelayed
CHECK_DEADLOCK FALSE
