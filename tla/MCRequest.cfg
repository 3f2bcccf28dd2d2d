SPECIFICATION MCSpec
CONSTANTS
    Idle = 3
    MaxUnits = 2
    AgeCap = 7
    RequestTimeout = 3
    ConnectTimeout = 2
    BytesPerTick = 1
    Headers <- MCHeaders
    MaxFrame = 2
    MaxFrames = 3
    c1 = c1
    c2 = c2
    None = None
    Calls = {c1, c2}
    Capacity = 1
    Styles = {TRUE, FALSE}
    r1 = r1
    r2 = r2
    Slots = {r1, r2}
    MaxRetries = 2
    MaxReplay = 1
    RatioNum = 1
    RatioDen = 2
    MinRetries = 1
    BudgetWindow = 2
    MaxChunks = 2
    MaxRequests = 3
    NoReplay = NoReplay
INVARIANTS
    RateIsKept
    FramesInOrder
    AnsweredInTime
    NotBeforeIdle
    ClosedWhenIdle
    OwnAnswer
    ForwardedOnce
    ReplayIsExact
    BudgetHolds
PROPERTIES
    CallsEnd
CHECK_DEADLOCK FALSE
