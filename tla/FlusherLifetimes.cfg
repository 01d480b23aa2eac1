SPECIFICATION FairSpec
CONSTANTS
    g1 = g1
    Groups = {g1}
    MaxSeq = 2
    MaxRuns = 2
    Timings <- TwoTimings
INVARIANTS
    TicketMeansAccepted
    NoTicketStranded
    NoSleepOnDirty
    BackoffHolds
    FlushOkMeansAccepted
PROPERTY
    DelayWithinTimings
    TicketEventuallyCompletes
