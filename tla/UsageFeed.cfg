SPECIFICATION FairSpec
CONSTANTS
    MaxRecords = 3
    Subscribers = {u1}
    Buffer = 2
    Batch = 2
    MaxToggles = 2
    MaxErrors = 1
CHECK_DEADLOCK FALSE
INVARIANTS
    Conserved
    SubscriberSeesNoGap
PROPERTY
    QueuedRecordsAreHandled
