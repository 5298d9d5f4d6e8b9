\* Two timers, one of them armed at the start and the other, recurring, for user code to
\* add, and one event, which epoll reports as a hangup; no symmetry, for the liveness.
SPECIFICATION FairSpec
CONSTANTS
    None = None
    Main = Main
    Callback = Callback
    w1 = w1
    w2 = w2
    f1 = f1
    d1 = d1
    t1 = t1
    t2 = t2
    Worker = {w1, w2}
    Fiber = {f1}
    Handler = {f1, Callback}
    Fd = {d1}
    Timer = {t1, t2}
    Recurring = {t2}
    Preset = {t1}
    MaxMs = 1
    MaxTimeout = 1
    EventsOf <- OnlyRead
    Reports = {"HUP"}
    Budget = 1
PROPERTIES
    ScheduledGetsResumed
    TimersExpire
    StopReturns
