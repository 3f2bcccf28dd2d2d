SPECIFICATION MCSpec
CONSTANTS
    c1 = c1
    c2 = c2
    c3 = c3
    alice = alice
    bob = bob
    None = None
    Conns = {c1, c2, c3}
    MaxConns = 2
    Forward = TRUE
    Tls = TRUE
    HandshakeTimeout = 1
    DrainTimeout = 1
    Credentials = {alice}
    Openings <- MCOpenings
    l1 = l1
    l2 = l2
    l3 = l3
    cli = cli
    NoError = NoError
    Configured = {l1, l2, l3}
    FromCli = cli
    HealthAddr = TRUE
INVARIANTS
    ExitTellsFailure
    PermitsBalance
    OpenedByFirst
PROPERTIES
    RunsListeners
    AllEndTogether
    ImplementsListener
    ShutdownReturns
    HandshakeEnds
    TunnelsEnd
CHECK_DEADLOCK FALSE
