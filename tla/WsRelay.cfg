SPECIFICATION Spec
CONSTANTS
    Sessions = {s1, s2}
    Requests = {r1}
    Capacity = 1
    MaxMessages = 2
    Cancels = TRUE
    Enders = {"reader", "heartbeat", "stop"}
    NoSession = NoSession
    NoRequest = NoRequest
CHECK_DEADLOCK FALSE
INVARIANTS
    SuccessorStaysReachable
    TruncatedOnlyWhenFull
    NoCallerStranded
SYMMETRY Symmetry
