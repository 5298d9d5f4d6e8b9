\* A callback that reschedules itself, on two workers.
SPECIFICATION Spec
CONSTANTS
    AnyThread = AnyThread
    None = None
    w1 = w1
    w2 = w2
    f1 = f1
    f2 = f2
    f3 = f3
    Worker = {w1, w2}
    Caller = None
    Fiber = {f1, f2, f3}
    Policies = {"FIFO"}
    MaxCachedPerKey = 2
    Budget <- YieldingCallbacks
    CallbacksYield = TRUE
INVARIANTS
    YieldsRunningOrTerm
