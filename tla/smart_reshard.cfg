SPECIFICATION Spec
CONSTANTS
    a = a
    b = b
    c = c
    r1 = r1
    r2 = r2
    h1 = h1
    Targets = {a, b, c}
    Shards = {0, 1, 2}
    NoClient = NoClient
    InitialMaxShards = 4
    Requests = {r1}
    Hash <- MCHash
    NoHint = NoHint
    Deadlined = {r1}
    Modes = {}
    NCoordinators = 1
    Topologies <- Resharding
    NoTopology = NoTopology
    NoTarget = NoTarget
    Redirects = {}
    AsyncRefreshers = {h1}
    MaxRounds = 2
    MaxRedirects = 1
INVARIANTS
    RoutedToCorrectShard
CHECK_DEADLOCK FALSE
