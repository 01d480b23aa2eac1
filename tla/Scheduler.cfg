SPECIFICATION Spec
CONSTANTS
    ra = ra
    NumAuths = 4
    ProviderOf <- MCProviderOf
    Requests <- MCRequests
    Profiles <- MCProfiles
    Initial <- MCInitial
    Strategies = {"rr", "weighted", "fill"}
    Changing = {4}
    Reporters = {ra}
    MaxTime = 1
    MaxUpdates = 1
    MaxResults = 1
CHECK_DEADLOCK FALSE
INVARIANTS
    ViewsMatchEntries
    RotationFair
    PickFindsReady
    NoRemovedPicked
    PickIsBest
