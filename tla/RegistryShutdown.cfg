SPECIFICATION FairSpec
CONSTANTS
    MaxDispatches = 2
    MaxBarrier = 0
    MaxFreezes = 0
    Groups = {}
    Unaccounted = Unaccounted
    Sinks = {}
    NoSink = NoSink
    Drainers = {d1}
    Closers = {c1, c2}
    Waiters = {}
CHECK_DEADLOCK FALSE
INVARIANTS
    SweepLeavesNothingBound
    CloseReturnsAllClosed
    DrainedStaysEmpty
PROPERTIES
    CloseReturns
    DrainReturns
