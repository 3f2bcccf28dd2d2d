SPECIFICATION LiveHandshakeSpec
CONSTANTS
    c1 = c1
    c2 = c2
    c3 = c3
    alice = alice
    bob = bob
    None = None
    Conns = {c1, c2}
    MaxConns = 1
    Forward = FALSE
    Tls = FALSE
    HandshakeTimeout = 1
    DrainTimeout = 1
    Credentials = {alice}
    Openings <- MCOpenings
PROPERTIES
    ShutdownAlwaysReturns
CHECK_DEADLOCK FALSE
