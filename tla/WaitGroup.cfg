\* Three fibers: two may wait while the third counts, and the group is used again
\* while its waiters wake up; no symmetry, for the liveness.
SPECIFICATION FairSpec
CONSTANTS
    f1 = f1
    f2 = f2
    f3 = f3
    Fiber = {f1, f2, f3}
    Delta <- MCDelta
    MaxCount = 2
    MaxStale = 1
INVARIANTS
    TypeOK
    NoLostWakeup
    WaiterInOnePlace
PROPERTIES
    ZeroReleasesAll
