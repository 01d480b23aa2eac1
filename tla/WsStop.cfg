SPECIFICATION Spec
CONSTANTS
    Sessions = {s1}
    Requests = {r1}
    Capacity = 8
    MaxMessages = 0
    Cancels = TRUE
    Enders = {"stop"}
    NoSession = NoSession
    NoRequest = NoRequest
CHECK_DEADLOCK FALSE
INVARIANT
    NoSendOnClosedChannel
