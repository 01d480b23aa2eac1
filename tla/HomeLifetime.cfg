CONSTANTS
    d1 = d1
    d2 = d2
    Dispatches <- MCDispatches
    MaxFaults = 2
    Protocols = {TRUE, FALSE}
SPECIFICATION Spec
CHECK_DEADLOCK FALSE
PROPERTIES
    Accounted
    LeasesReturned
    ServesAgain
