SPECIFICATION PipelineSpec
CONSTANTS
    shared = shared
    tier = tier
    None = None
    Requests <- MCRequests
    Specs <- MCSpecs
    Kinds = {"respond"}
    Redises = {}
    Names = {}
    MaxNodes = 3
    RewriteFrom <- MCRewriteFrom
    RewriteTo <- MCRewriteTo
    HeaderValue = "beta"
    BlockedHosts = {}
    BlockedPaths = {}
    MaxBackends = 2
    MaxPasses = 3
    ServedNodes = 0
CHECK_DEADLOCK FALSE
INVARIANTS
    ListenerWins
