SPECIFICATION FairSpec
CONSTANTS
    Writes <- AllWrites
    Raw <- MCRaw
    Packed <- MCPacked
    Threshold = 2
    DefaultThreshold = 1
    BaseSize = 1
    CreateBase = 1
    MaxRpcSize = 4
    PairOverhead = 1
    NoValue = NoValue
    Foreign = "f"
    MaxForeign = 1
    MaxRepeats = 1
INVARIANTS
    ChunksAreGreedy
    ChunksFitAsSent
    ChunkingIsInvisible
    ArrivedInOrder
    SuccessIsComplete
    NoDanglingRead
PROPERTIES
    WritesResolve
CHECK_DEADLOCK FALSE
