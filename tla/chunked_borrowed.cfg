SPECIFICATION Spec
CONSTANTS
    Writes <- Removals
    Raw <- MCRaw
    Packed <- MCPacked
    Threshold = 2
    DefaultThreshold = 1
    BaseSize = 1
    CreateBase = 1
    MaxRpcSize = 4
    PairOverhead = 1
    NoValue = NoValue
    Foreign = "f"
    MaxForeign = 1
    MaxRepeats = 1
INVARIANTS
    NoDanglingRead
CHECK_DEADLOCK FALSE
