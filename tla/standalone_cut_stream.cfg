SPECIFICATION Spec
CONSTANTS
    u = u
    s = s
    v = v
    Calls = {u, s}
    StreamCalls = {s}
    Timeout <- MCTimeout
    DefaultTimeout = 1
    MaxChunks = 2
    Serialised = {u, s}
INVARIANTS
    NoUndefinedBehaviour
CHECK_DEADLOCK FALSE
