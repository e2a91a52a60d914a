SPECIFICATION Spec
CONSTANTS
    a = a
    b = b
    Bytes = {a, b}
    MaxSize = 3
    Numbers = {0, 7}
    Thresholds <- MCThresholds
    DefaultThreshold = 0
    GzipHeader = GzipHeader
    Null = Null
    Wild = Wild
    GivenHint = GivenHint
    Deltas <- MCDeltas
    Unit = 4
    Ttls <- MCTtls
    DefaultTtls = {0, 4}
    MaxStart = 2
    MaxTime = 9
    Elements <- MCElements
    MapKeys <- MCMapKeys
    MaxLength = 3
    Kinds = {"value", "atomic", "key", "ordered", "map", "list", "ttl", "setTtl"}
INVARIANTS
    ValueRoundTrip
    AtomicOperandAsSent
    KeyRoundTrip
    PairsStayTogether
    OrderedNeverGarbled
    ListRoundTrip
    
CHECK_DEADLOCK FALSE
