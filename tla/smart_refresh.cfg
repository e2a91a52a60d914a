SPECIFICATION Spec
CONSTANTS
    a = a
    b = b
    c = c
    r1 = r1
    r2 = r2
    h1 = h1
    Targets = {a, b}
    Shards = {0}
    NoClient = NoClient
    InitialMaxShards = 4
    Requests = {r2}
    Hash <- MCHash
    NoHint = NoHint
    Deadlined = {r2}
    Modes = {}
    NCoordinators = 2
    Topologies <- Degrading
    NoTopology = NoTopology
    NoTarget = NoTarget
    Redirects <- ToA
    AsyncRefreshers = {h1}
    MaxRounds = 2
    MaxRedirects = 1
INVARIANTS
    TypeOK
    OneUpdateAtATime
    ClientsAccountedFor
    RoutesAreRegistered
    NoLostWakeup
    ReadyMeansTopology
PROPERTIES
    GivesUpOnlyAfterAll
CHECK_DEADLOCK FALSE
