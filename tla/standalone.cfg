SPECIFICATION FairSpec
CONSTANTS
    u = u
    s = s
    v = v
    Calls = {u, s, v}
    StreamCalls = {s}
    Timeout <- MCTimeout
    DefaultTimeout = 0
    MaxChunks = 2
    Serialised = {s, v}
INVARIANTS
    TypeOK
    TagsAreLive
    StreamValueIsWhole
    DrainedMeansResolved
    OnlyRacesAbort
PROPERTIES
    CallsResolve
    ShutdownReturns
    ImplementsContract
CHECK_DEADLOCK FALSE
