SPECIFICATION FairSpec
CONSTANTS
    a = a
    b = b
    c = c
    r1 = r1
    r2 = r2
    h1 = h1
    Targets = {a, b}
    Shards = {0}
    NoClient = NoClient
    InitialMaxShards = 4
    Requests = {r1}
    Hash <- MCHash
    NoHint = NoHint
    Deadlined = {r1}
    Modes = {"LB_SMART"}
    NCoordinators = 1
    Topologies <- Losing
    NoTopology = NoTopology
    NoTarget = NoTarget
    Redirects <- ToA
    AsyncRefreshers = {h1}
    MaxRounds = 1
    MaxRedirects = 1
INVARIANTS
    FailoverIsBounded
    RepeatsOnlyAfterUnavailable
    NoUndefinedBehaviour
PROPERTIES
    RequestsResolve
    ShutdownReturns
    RefreshEnds
CHECK_DEADLOCK FALSE
