SPECIFICATION FairSpec
CONSTANTS
    f1 = f1
    f2 = f2
    c1 = c1
    c2 = c2
    p1 = p1
    p2 = p2
    Fetches = {f1, f2}
    Target <- MCTarget
    Targets = {c1, c2}
    NoTarget = NoTarget
    Deadlined = {f1}
    Chunks <- MCChunks
    NoInfo = NoInfo
    MaxChunks <- MCMaxChunks
INVARIANTS
    TypeOK
    FetchReachesItsTarget
    ReplyIsWholeTable
PROPERTIES
    ImplementsContract
    FetchesResolve
CHECK_DEADLOCK FALSE
