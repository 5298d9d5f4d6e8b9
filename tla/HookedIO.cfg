\* Two fibers and a descriptor, which may be closed and opened again.
SPECIFICATION FairSpec
CONSTANTS
    None = None
    f1 = f1
    f2 = f2
    d1 = d1
    t1 = t1
    t2 = t2
    Fiber = {f1, f2}
    Handler = {f1, f2}
    Fd = {d1}
    Timer = {t1, t2}
    Recurring = {}
    Opened <- ReadsTimed
    Budget <- Few
CHECK_DEADLOCK FALSE
INVARIANTS
    TypeOK
    OneWayBack
    TimersBelongToWaits
PROPERTIES
    ReadyWakes
    TimedWaitEnds
