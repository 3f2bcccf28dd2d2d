SPECIFICATION PipelineSpec
CONSTANTS
    shared = shared
    tier = tier
    None = None
    Requests <- MCRequests
    Specs <- MCSpecs
    Kinds = {"upstream"}
    Redises = {}
    Names = {}
    MaxNodes = 3
    RewriteFrom <- MCRewriteFrom
    RewriteTo <- MCRewriteTo
    HeaderValue = "beta"
    BlockedHosts = {}
    BlockedPaths = {}
    MaxBackends = 2
    MaxPasses = 3
    ServedNodes = 3
CHECK_DEADLOCK FALSE
INVARIANTS
    DefaultIsUsed
