SPECIFICATION PipelineSpec
CONSTANTS
    shared = shared
    tier = tier
    None = None
    Requests <- MCRequests
    Specs <- MCSpecs
    Kinds = {"circuit-breaker", "upstream", "rewrite-path", "retry"}
    Redises = {shared}
    Names = {tier}
    MaxNodes = 4
    RewriteFrom <- MCRewriteFrom
    RewriteTo <- MCRewriteTo
    HeaderValue = "beta"
    BlockedHosts = {}
    BlockedPaths = {}
    MaxBackends = 2
    MaxPasses = 3
    ServedNodes = 4
CHECK_DEADLOCK FALSE
INVARIANTS
    InnermostWins
    ScopesAreExact
    UnnamedScopesAreUnique
    NestedMeetOnce
    GlobalsSeeTheClient
    RoutedAsSent
    
