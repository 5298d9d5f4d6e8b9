\* Three fibers: two may queue while one holds the mutex; no symmetry, for the
\* liveness.
SPECIFICATION FairSpec
CONSTANTS
    NoOwner = NoOwner
    f1 = f1
    f2 = f2
    f3 = f3
    Fiber = {f1, f2, f3}
    MaxStale = 1
INVARIANTS
    TypeOK
    MutualExclusion
    NotifiedIsOwner
    NoLostWakeup
    OwnerIsComing
PROPERTIES
    ImplementsFairLock
    LockIsGranted
