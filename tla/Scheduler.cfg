\* FIFO with fiber tasks, and MLFQ with a fiber task, its task for every yield, and
\* callbacks; two workers, one of them the thread of stop(), a pool for one fiber.
SPECIFICATION FairSpec
CONSTANTS
    AnyThread = AnyThread
    None = None
    w1 = w1
    w2 = w2
    f1 = f1
    f2 = f2
    f3 = f3
    Worker = {w1, w2}
    Caller = w1
    Fiber = {f1, f2, f3}
    Policies = {"FIFO", "MLFQ"}
    MaxCachedPerKey = 1
    Budget <- FibersOrMixed
    CallbacksYield = FALSE
INVARIANTS
    TypeOK
    ResumesReadyOnly
    PooledIsFree
    ExitsOnlyWhenDone
PROPERTIES
    StopReturns
    NotifiedRuns
