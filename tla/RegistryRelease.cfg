SPECIFICATION Spec
CONSTANTS
    MaxDispatches = 2
    MaxBarrier = 1
    MaxFreezes = 2
    Groups = {g1}
    Unaccounted = Unaccounted
    Sinks = {s1, s2}
    NoSink = NoSink
    Drainers = {}
    Closers = {}
    Waiters = {w1}
CHECK_DEADLOCK FALSE
INVARIANTS
    ReleasedExactlyOnce
    ReleaseReachesSinkBeforeRemoval
    NoReleaseLost
    NoOverRelease
    BarrierSnapshotComplete
SYMMETRY Symmetry
