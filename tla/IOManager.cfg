\* Two workers and the main thread, a fiber, a descriptor with both events, and two
\* timers, one of them armed at the start and the other recurring.
SPECIFICATION Spec
CONSTANTS
    None = None
    Main = Main
    Callback = Callback
    w1 = w1
    w2 = w2
    f1 = f1
    d1 = d1
    t1 = t1
    t2 = t2
    Worker = {w1, w2}
    Fiber = {f1}
    Handler = {f1, Callback}
    Fd = {d1}
    Timer = {t1, t2}
    Recurring = {t2}
    Preset = {t1}
    MaxMs = 1
    MaxTimeout = 2
    EventsOf <- BothEvents
    Reports = {"READ"}
    Budget = 2
SYMMETRY Symmetry
INVARIANTS
    TypeOK
    OneWayBack
    PendingIsExact
    RegisteredIsWatched
    FirstTimerWatched
PROPERTIES
    KeepsTimerContract
