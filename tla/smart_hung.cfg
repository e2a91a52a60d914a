SPECIFICATION FairSpec
CONSTANTS
    a = a
    b = b
    c = c
    r1 = r1
    r2 = r2
    h1 = h1
    Targets = {a, b}
    Shards = {0}
    NoClient = NoClient
    InitialMaxShards = 4
    Requests = {r1, r2}
    Hash <- MCHash
    NoHint = NoHint
    Deadlined = {r1}
    Modes = {}
    NCoordinators = 1
    Topologies <- Moving
    NoTopology = NoTopology
    NoTarget = NoTarget
    Redirects = {}
    AsyncRefreshers = {}
    MaxRounds = 2
    MaxRedirects = 1
PROPERTIES
    TopologyKeepsRefreshing
CHECK_DEADLOCK FALSE
