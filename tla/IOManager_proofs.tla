-------------------------- MODULE IOManager_proofs --------------------------
(***************************************************************************)
(* Proofs about IOManager for any workers, fibers, descriptors, timers,    *)
(* bounds on time and budgets.                                             *)
(***************************************************************************)
EXTENDS TLAPS, IOManager, FiniteSetTheorems, WellFoundedInduction

-----------------------------------------------------------------------------
(* The descriptor contexts.                                                *)

Registered == {r \in Fd \X Event : r[2] \in events[r[1]]}

\* Events registered, contexts filled, epoll told and count kept, all alike.
FdInv ==
    /\ events \in [Fd -> SUBSET Event]
    /\ ctx \in [Fd -> [Event -> Handler \cup {None}]]
    /\ interest \in [Fd -> SUBSET Event]
    /\ m_pendingEventCount = Cardinality(Registered)
    /\ RegisteredIsWatched
    /\ \A fd \in Fd, ev \in Event : ev \in events[fd] <=> ctx[fd][ev] # None

LEMMA EventFacts == READ # WRITE /\ Event = {READ, WRITE} /\ IsFiniteSet(Event) /\ HUP \notin Event
<1>1. READ # WRITE /\ HUP \notin {READ, WRITE}
  BY DEF READ, WRITE, HUP
<1>2. IsFiniteSet({READ} \cup {WRITE})
  BY FS_Singleton, FS_Union
<1>3. {READ, WRITE} = {READ} \cup {WRITE}
  OBVIOUS
<1> QED
  BY <1>1, <1>2, <1>3 DEF Event

LEMMA RegisteredFinite == IsFiniteSet(Registered) /\ Cardinality(Registered) \in Nat
<1>1. IsFiniteSet(Fd \X Event)
  BY EventFacts, FS_Product, IOManagerAssumption
<1>2. Registered \in SUBSET (Fd \X Event)
  BY DEF Registered
<1> QED
  BY <1>1, <1>2, FS_Subset, FS_CardinalityType

LEMMA HandlerFacts == None \notin Handler /\ Callback \in Handler /\ Fiber \subseteq Handler
BY IOManagerAssumption DEF Task

LEMMA FdInitInv == FdInit => FdInv
<1> SUFFICES ASSUME FdInit PROVE FdInv
  OBVIOUS
<1>1. Registered = {}
  BY DEF Registered, FdInit
<1>2. m_pendingEventCount = Cardinality(Registered)
  BY <1>1, FS_EmptySet DEF FdInit
<1> QED
  BY <1>2 DEF FdInit, FdInv, RegisteredIsWatched

\* addEvent, successful.
LEMMA AddEventInv ==
    ASSUME FdInv, NEW fd \in Fd, NEW ev \in Event, NEW h \in Handler, AddEvent(fd, ev, h, TRUE, {})
    PROVE  FdInv'
<1>0. /\ ev \notin events[fd]
      /\ events' = [events EXCEPT ![fd] = @ \cup {ev}]
      /\ interest' = [interest EXCEPT ![fd] = events[fd] \cup {ev}]
      /\ ctx' = [ctx EXCEPT ![fd][ev] = h]
      /\ m_pendingEventCount' = m_pendingEventCount + 1
  BY DEF AddEvent, Watch
<1>1. Registered' = Registered \cup {<<fd, ev>>} /\ <<fd, ev>> \notin Registered
  BY <1>0 DEF FdInv, Registered
<1>2. Cardinality(Registered') = Cardinality(Registered) + 1
  BY <1>1, RegisteredFinite, FS_AddElement
<1>3. /\ events' \in [Fd -> SUBSET Event] /\ interest' \in [Fd -> SUBSET Event]
      /\ ctx' \in [Fd -> [Event -> Handler \cup {None}]]
  BY <1>0 DEF FdInv
<1>4. RegisteredIsWatched'
  BY <1>0 DEF FdInv, RegisteredIsWatched
<1>5. \A d \in Fd, e \in Event : e \in events'[d] <=> ctx'[d][e] # None
  BY <1>0, HandlerFacts DEF FdInv
<1> QED
  BY <1>0, <1>2, <1>3, <1>4, <1>5 DEF FdInv

\* Whatever ends the registrations evs of fd.
LEMMA UnregisterInv ==
    ASSUME FdInv, NEW fd \in Fd, NEW evs \in SUBSET events[fd],
           Watch(fd, events[fd] \ evs, {}), Unregister(fd, evs)
    PROVE  /\ FdInv'
           /\ \A d \in Fd, e \in Event :
                 ctx'[d][e] = IF d = fd /\ e \in evs THEN None ELSE ctx[d][e]
<1>0. /\ events' = [events EXCEPT ![fd] = @ \ evs]
      /\ interest' = [interest EXCEPT ![fd] = events[fd] \ evs]
      /\ ctx' = [ctx EXCEPT ![fd] = [e \in Event |-> IF e \in evs THEN None ELSE @[e]]]
      /\ m_pendingEventCount' = m_pendingEventCount - Cardinality(evs)
  BY DEF Watch, Unregister
<1>1. Registered' = Registered \ ({fd} \X evs) /\ {fd} \X evs \subseteq Registered
  BY <1>0 DEF FdInv, Registered
<1>2. Cardinality({fd} \X evs) = Cardinality(evs)
  <2>1. IsFiniteSet(evs) /\ IsFiniteSet({fd}) /\ Cardinality({fd}) = 1
    <3>1. evs \in SUBSET Event
      BY DEF FdInv
    <3> QED
      BY <3>1, EventFacts, FS_Subset, FS_Singleton
  <2>2. Cardinality(evs) \in Nat /\ Cardinality({fd} \X evs) = 1 * Cardinality(evs)
    BY <2>1, FS_Product, FS_CardinalityType
  <2> QED
    BY <2>2
<1>3. Cardinality(Registered') = Cardinality(Registered) - Cardinality(evs)
  <2>1. Registered \cap ({fd} \X evs) = {fd} \X evs
    BY <1>1
  <2>2. Cardinality(Registered \ ({fd} \X evs))
            = Cardinality(Registered) - Cardinality(Registered \cap ({fd} \X evs))
    BY RegisteredFinite, FS_Difference
  <2> QED
    BY <1>1, <1>2, <2>1, <2>2
<1>4. \A d \in Fd, e \in Event :
         ctx'[d][e] = IF d = fd /\ e \in evs THEN None ELSE ctx[d][e]
  BY <1>0 DEF FdInv
<1>5. /\ events' \in [Fd -> SUBSET Event] /\ interest' \in [Fd -> SUBSET Event]
      /\ ctx' \in [Fd -> [Event -> Handler \cup {None}]]
  BY <1>0 DEF FdInv
<1>6. RegisteredIsWatched'
  BY <1>0 DEF FdInv, RegisteredIsWatched
<1>7. \A d \in Fd, e \in Event : e \in events'[d] <=> ctx'[d][e] # None
  BY <1>0, <1>4 DEF FdInv
<1> QED
  BY <1>0, <1>3, <1>4, <1>5, <1>6, <1>7 DEF FdInv

LEMMA RemoveInv ==
    ASSUME FdInv, NEW fd \in Fd
    PROVE  /\ \A ev \in Event : RemoveEvent(fd, ev, TRUE, {}) => FdInv'
           /\ RemoveAll(fd, TRUE) => FdInv'
           /\ \A reported : Dispatch(fd, reported, TRUE, {}) => FdInv'
<1>1. ASSUME NEW ev \in Event, RemoveEvent(fd, ev, TRUE, {}) PROVE FdInv'
  BY <1>1, UnregisterInv DEF RemoveEvent
<1>2. ASSUME RemoveAll(fd, TRUE) PROVE FdInv'
  <2>1. events[fd] \ events[fd] = {}
    OBVIOUS
  <2> QED
    BY <1>2, <2>1, UnregisterInv DEF RemoveAll
<1>3. ASSUME NEW reported, Dispatch(fd, reported, TRUE, {}) PROVE FdInv'
  BY <1>3, UnregisterInv DEF Dispatch
<1> QED
  BY <1>1, <1>2, <1>3

\* All other steps leave the contexts alone.
LEMMA NextFd == FdInv /\ [Next]_vars => FdInv'
<1> SUFFICES ASSUME FdInv, [Next]_vars PROVE FdInv'
  OBVIOUS
<1>1. ASSUME UNCHANGED <<events, ctx, interest, m_pendingEventCount>> PROVE FdInv'
  BY <1>1 DEF FdInv, Registered, RegisteredIsWatched
<1>2. ASSUME NEW a \in Actor, UserNext(a) PROVE FdInv'
  <2>1. ASSUME NEW fd \in Fd, NEW ev \in Event, AddEventForFiber(a, fd, ev) PROVE FdInv'
    BY <2>1, AddEventInv, HandlerFacts DEF AddEventForFiber
  <2>2. ASSUME NEW fd \in Fd, NEW ev \in Event, AddEventForCallback(a, fd, ev) PROVE FdInv'
    BY <2>2, AddEventInv, HandlerFacts DEF AddEventForCallback
  <2>3. ASSUME NEW fd \in Fd, NEW ev \in Event, DelEvent(a, fd, ev) \/ CancelEvent(a, fd, ev)
        PROVE  FdInv'
    BY <2>3, RemoveInv DEF DelEvent, CancelEvent
  <2>4. ASSUME NEW fd \in Fd, CancelAll(a, fd) PROVE FdInv'
    BY <2>4, RemoveInv DEF CancelAll
  <2>5. ASSUME NEW t \in Timer,
               \/ UserCancelTimer(a, t) \/ UserRefreshTimer(a, t)
               \/ \E ms \in Period :
                     \/ UserAddTimer(a, t, ms)
                     \/ \E fromNow \in BOOLEAN : UserResetTimer(a, t, ms, fromNow)
        PROVE  FdInv'
    BY <1>1, <2>5 DEF UserCancelTimer, UserRefreshTimer, UserAddTimer, UserResetTimer, timersOnly,
                      fdVars
  <2> QED
    BY <1>2, <2>1, <2>2, <2>3, <2>4, <2>5 DEF UserNext
<1>3. ASSUME NEW a \in Actor, CallNext(a) PROVE FdInv'
  BY <1>1, <1>3 DEF CallNext, Tickle, UserResetEnds, timersOnly, fdVars
<1>4. ASSUME MainNext PROVE FdInv'
  BY <1>1, <1>4 DEF MainNext, StopAsks, Stop, StopTickles, Join, Submit, fdVars
<1>5. ASSUME NEW w \in Worker, RunNext(w) PROVE FdInv'
  BY <1>1, <1>5 DEF RunNext, Pick, PickNone, ResumeTask, LeaveTask, EnterIdle, runOnly, fdVars
<1>6. ASSUME NEW w \in Worker, IdleNext(w) PROVE FdInv'
  <2>1. ASSUME NEW fd \in Fd, HandleReport(w, fd) PROVE FdInv'
    BY <1>1, <2>1, RemoveInv DEF HandleReport, fdVars
  <2> QED
    BY <1>1, <1>6, <2>1
       DEF IdleNext, StoppingReadsTimers, StoppingReadsPending, StoppingReadsBase, Arm,
           EpollReturns, Expire, PostExpired, Drain, IdleYields, fdVars
<1>7. ASSUME NEW fd \in Fd, NEW e \in Reports, EpollFinds(fd, e) PROVE FdInv'
  BY <1>1, <1>7 DEF EpollFinds, BecomesReady
<1>8. CASE Tick \/ UNCHANGED vars
  BY <1>1, <1>8 DEF Tick, vars, fdVars
<1> QED
  BY <1>2, <1>3, <1>4, <1>5, <1>6, <1>7, <1>8 DEF Next

LEMMA FdInvariant == Spec => []FdInv
<1>1. Init => FdInv
  BY FdInitInv DEF Init
<1> QED
  BY <1>1, NextFd, PTL DEF Spec

\* The counter that stopping() trusts is the number of registered events, whichever of
\* addEvent, delEvent, cancelEvent, cancelAll and idle() changed them last.
THEOREM CountIsExact == Spec => []PendingIsExact
<1>1. FdInv => PendingIsExact
  BY DEF FdInv, PendingIsExact, Registered
<1> QED
  BY <1>1, FdInvariant, PTL

\* epoll watches exactly what is registered: what a report, a cancellation or a new
\* registration leaves is watched on.
THEOREM WatchedIsRegistered == Spec => []RegisteredIsWatched
<1>1. FdInv => RegisteredIsWatched
  BY DEF FdInv
<1> QED
  BY <1>1, FdInvariant, PTL

-----------------------------------------------------------------------------
(* The timers, and the arguments of a reset() in its gap.                  *)

ResetArgs == [timer : Timer, ms : Period, fromNow : BOOLEAN]

\* Where a worker is: in a task, in its idle fiber, or in between; and the main thread.
InTask == {"picked", "resume", "user", "yield", "tickle", "reset"}
InIdle == {"askTimers", "askPending", "askBase", "arm", "epoll", "expire", "post", "events"}
Between == {"pick", "enterIdle", "exited"}
OfMain == {"user", "tickle", "reset", "stopping", "stop", "join", "stopped"}

Labels == InTask \cup InIdle \cup Between \cup OfMain

TimersInv ==
    /\ TimerTypeOK
    /\ \A t \in Timer : m_next[t] <= m_ms[t]
    /\ pc \in [Actor -> Labels]
    /\ resetting \in [Actor -> ResetArgs \cup {None}]
    /\ \A a \in Actor : pc[a] = "reset" => resetting[a] \in ResetArgs

LEMMA InitTimers == Init => TimersInv
<1> SUFFICES ASSUME Init PROVE TimersInv
  OBVIOUS
<1>1. TimerTypeOK /\ \A t \in Timer : m_next[t] <= m_ms[t]
  <2>1. m_ms \in [Timer -> Period] /\ m_next = m_ms /\ MaxMs \in Nat /\ Preset \subseteq Timer
    BY IOManagerAssumption DEF Init, TimerInit
  <2>2. /\ m_timers = Preset /\ m_cb = [t \in Timer |-> t \in Preset] /\ m_tickled \in BOOLEAN
        /\ phase = [t \in Timer |-> IF t \in Preset THEN "armed" ELSE "free"]
    BY DEF Init, TimerInit
  <2>3. \A t \in Timer : m_next[t] <= m_ms[t]
    BY <2>1 DEF Period
  <2> QED
    BY <2>1, <2>2, <2>3 DEF TimerTypeOK, Period
<1> QED
  BY <1>1 DEF Init, TimersInv, Labels, InTask, InIdle, Between, OfMain, Actor

\* The operations of TimerManager.
LEMMA TimerSteps ==
    ASSUME TimerTypeOK, \A t \in Timer : m_next[t] <= m_ms[t],
           \/ \E t \in Timer, ms \in Period, atFront \in BOOLEAN : AddTimer(t, ms, atFront)
           \/ \E t \in Timer : CancelTimer(t) \/ RefreshTimer(t)
           \/ \E t \in Timer, ms \in Period, fromNow \in BOOLEAN : ResetTakesOut(t, ms, fromNow)
           \/ \E t \in Timer, ms \in Period, fromNow, atFront \in BOOLEAN :
                 ResetPutsBack(t, ms, fromNow, atFront)
           \/ QueryNextTimer \/ ListExpired
           \/ TimersAge /\ UNCHANGED <<m_timers, m_ms, m_cb, m_tickled, phase>>
           \/ UNCHANGED timerVars
    PROVE  TimerTypeOK' /\ \A t \in Timer : m_next'[t] <= m_ms'[t]
<1> USE IOManagerAssumption
<1>1. CASE \E t \in Timer, ms \in Period, atFront \in BOOLEAN : AddTimer(t, ms, atFront)
  BY <1>1 DEF AddTimer, Insert, TimerTypeOK, Period
<1>2. ASSUME NEW t \in Timer, CancelTimer(t) \/ RefreshTimer(t)
      PROVE  TimerTypeOK' /\ \A u \in Timer : m_next'[u] <= m_ms'[u]
  <2>1. CASE CancelTimer(t)
    BY <2>1 DEF CancelTimer, TimerTypeOK
  <2>2. CASE RefreshTimer(t)
    BY <2>2 DEF RefreshTimer, TimerTypeOK
  <2> QED
    BY <1>2, <2>1, <2>2
<1>3. CASE \E t \in Timer, ms \in Period, fromNow \in BOOLEAN : ResetTakesOut(t, ms, fromNow)
  BY <1>3 DEF ResetTakesOut, TimerTypeOK
<1>4. ASSUME NEW t \in Timer, NEW ms \in Period, NEW fromNow \in BOOLEAN,
             NEW atFront \in BOOLEAN, ResetPutsBack(t, ms, fromNow, atFront)
      PROVE  TimerTypeOK' /\ \A u \in Timer : m_next'[u] <= m_ms'[u]
  <2>1. PICK next \in 0 .. MaxMs :
           /\ next <= ms
           /\ Insert(t, next, atFront)
           /\ m_next' = [m_next EXCEPT ![t] = next]
           /\ m_ms' = [m_ms EXCEPT ![t] = ms]
           /\ UNCHANGED <<m_cb, phase>>
    <3>1. m_next[t] \in Nat /\ m_ms[t] \in Nat /\ m_next[t] <= m_ms[t] /\ ms \in 0 .. MaxMs
      BY DEF TimerTypeOK, Period
    <3>2. PICK next : /\ next = IF fromNow THEN ms
                                 ELSE IF m_next[t] - m_ms[t] + ms > 0
                                      THEN m_next[t] - m_ms[t] + ms ELSE 0
                      /\ Insert(t, next, atFront)
                      /\ m_next' = [m_next EXCEPT ![t] = next]
      BY <1>4 DEF ResetPutsBack
    <3>3. next \in 0 .. MaxMs /\ next <= ms
      BY <3>1, <3>2
    <3> QED
      BY <1>4, <3>2, <3>3 DEF ResetPutsBack
  <2> QED
    BY <2>1 DEF Insert, TimerTypeOK, Period
<1>5. CASE QueryNextTimer
  BY <1>5 DEF QueryNextTimer, TimerTypeOK
<1>6. CASE ListExpired
  BY <1>6 DEF ListExpired, Expired, ExpiredCallbacks, TimerTypeOK
<1>7. CASE TimersAge /\ UNCHANGED <<m_timers, m_ms, m_cb, m_tickled, phase>>
  BY <1>7 DEF TimersAge, TimerTypeOK
<1>8. CASE UNCHANGED timerVars
  BY <1>8 DEF timerVars, TimerTypeOK
<1> QED
  BY <1>1, <1>2, <1>3, <1>4, <1>5, <1>6, <1>7, <1>8

LEMMA LabelFacts ==
    /\ Labels = InTask \cup InIdle \cup Between \cup OfMain
    /\ InTask = {"picked", "resume", "user", "yield", "tickle", "reset"}
    /\ InIdle = {"askTimers", "askPending", "askBase", "arm", "epoll", "expire", "post", "events"}
    /\ Between = {"pick", "enterIdle", "exited"}
    /\ OfMain = {"user", "tickle", "reset", "stopping", "stop", "join", "stopped"}
BY DEF Labels, InTask, InIdle, Between, OfMain

\* A step that is in no reset() keeps the arguments of the others.
LEMMA ResetKept ==
    ASSUME TimersInv, TimerTypeOK', \A t \in Timer : m_next'[t] <= m_ms'[t],
           UNCHANGED resetting,
           pc' = pc \/ \E a \in Actor, label \in Labels \ {"reset"} : Goto(a, label)
    PROVE  TimersInv'
<1>1. pc' \in [Actor -> Labels] /\ \A a \in Actor : pc'[a] = "reset" => pc[a] = "reset"
  BY DEF TimersInv, Goto
<1> QED
  BY <1>1 DEF TimersInv

LEMMA UserTimers ==
    ASSUME TimersInv, NEW a \in Actor, UserNext(a) \/ CallNext(a)
    PROVE  TimersInv'
<1>0. /\ TimerTypeOK /\ \A t \in Timer : m_next[t] <= m_ms[t]
      /\ {"user", "tickle", "yield", "resume"} \subseteq Labels \ {"reset"}
  BY LabelFacts DEF TimersInv
<1>1. ASSUME UNCHANGED <<timerVars, resetting>>,
             pc' = pc \/ \E label \in Labels \ {"reset"} : Goto(a, label)
      PROVE  TimersInv'
  BY <1>0, <1>1, TimerSteps, ResetKept
<1>2. ASSUME NEW fd \in Fd, NEW ev \in Event,
             \/ AddEventForFiber(a, fd, ev) \/ AddEventForCallback(a, fd, ev)
             \/ DelEvent(a, fd, ev) \/ CancelEvent(a, fd, ev)
      PROVE  TimersInv'
  BY <1>0, <1>1, <1>2
     DEF AddEventForFiber, AddEventForCallback, DelEvent, CancelEvent, ThenTickle
<1>8. ASSUME NEW fd \in Fd, CancelAll(a, fd) PROVE TimersInv'
  BY <1>0, <1>1, <1>8 DEF CancelAll, ThenTickle
<1>3. ASSUME NEW t \in Timer, UserCancelTimer(a, t) \/ UserRefreshTimer(a, t)
      PROVE  TimersInv'
  BY <1>0, <1>3, TimerSteps, ResetKept DEF UserCancelTimer, UserRefreshTimer
<1>4. ASSUME NEW t \in Timer, NEW ms \in Period, UserAddTimer(a, t, ms) PROVE TimersInv'
  <2>1. PICK atFront \in BOOLEAN : AddTimer(t, ms, atFront) /\ ThenTickle(a, atFront)
    BY <1>4 DEF UserAddTimer
  <2>2. TimerTypeOK' /\ \A u \in Timer : m_next'[u] <= m_ms'[u]
    BY <1>0, <2>1, TimerSteps
  <2> QED
    BY <1>0, <1>4, <2>1, <2>2, ResetKept DEF UserAddTimer, ThenTickle
<1>5. ASSUME NEW t \in Timer, NEW ms \in Period, NEW fromNow \in BOOLEAN,
             UserResetTimer(a, t, ms, fromNow)
      PROVE  TimersInv'
  <2>1. TimerTypeOK' /\ \A u \in Timer : m_next'[u] <= m_ms'[u]
    BY <1>0, <1>5, TimerSteps DEF UserResetTimer
  <2>2. [timer |-> t, ms |-> ms, fromNow |-> fromNow] \in ResetArgs
    BY DEF ResetArgs
  <2>3. /\ pc' = [pc EXCEPT ![a] = "reset"]
        /\ resetting' = [resetting EXCEPT ![a] = [timer |-> t, ms |-> ms, fromNow |-> fromNow]]
    BY <1>5 DEF UserResetTimer, Goto
  <2>4. pc' \in [Actor -> Labels]
    BY <2>3, LabelFacts DEF TimersInv
  <2> QED
    BY <2>1, <2>2, <2>3, <2>4 DEF TimersInv
<1>6. ASSUME UserResetEnds(a) PROVE TimersInv'
  <2>1. resetting[a] \in ResetArgs
    BY <1>6 DEF UserResetEnds, TimersInv
  <2>2. PICK atFront \in BOOLEAN :
           /\ ResetPutsBack(resetting[a].timer, resetting[a].ms, resetting[a].fromNow, atFront)
           /\ ThenTickle(a, atFront)
    BY <1>6 DEF UserResetEnds
  <2>3. TimerTypeOK' /\ \A u \in Timer : m_next'[u] <= m_ms'[u]
    BY <1>0, <2>1, <2>2, TimerSteps DEF ResetArgs
  <2>4. pc' \in [Actor -> Labels] /\ pc'[a] # "reset" /\ \A b \in Actor \ {a} : pc'[b] = pc[b]
    BY <2>2, LabelFacts DEF ThenTickle, Goto, TimersInv
  <2>5. resetting' = [resetting EXCEPT ![a] = None]
    BY <1>6 DEF UserResetEnds
  <2> QED
    BY <2>3, <2>4, <2>5 DEF TimersInv
<1>7. ASSUME Tickle(a) PROVE TimersInv'
  BY <1>0, <1>1, <1>7 DEF Tickle
<1> QED
  BY <1>2, <1>3, <1>4, <1>5, <1>6, <1>7, <1>8 DEF UserNext, CallNext

LEMMA NextTimers == TimersInv /\ [Next]_vars => TimersInv'
<1> SUFFICES ASSUME TimersInv, [Next]_vars PROVE TimersInv'
  OBVIOUS
<1>0. TimerTypeOK /\ \A t \in Timer : m_next[t] <= m_ms[t]
  BY DEF TimersInv
<1>1. Main \in Actor /\ Worker \subseteq Actor
  BY DEF Actor
<1>2. ASSUME MainNext PROVE TimersInv'
  <2>1. /\ QueryNextTimer \/ UNCHANGED timerVars
        /\ UNCHANGED resetting
    BY <1>2 DEF MainNext, StopAsks, Stop, StopTickles, Join, Submit
  <2>2. TimerTypeOK' /\ \A t \in Timer : m_next'[t] <= m_ms'[t]
    BY <1>0, <2>1, TimerSteps
  <2>3. \E label \in Labels \ {"reset"} : Goto(Main, label)
    BY <1>2, LabelFacts DEF MainNext, StopAsks, Stop, StopTickles, Join, Submit, ThenTickle
  <2> QED
    BY <1>1, <2>1, <2>2, <2>3, ResetKept
<1>3. ASSUME NEW w \in Worker, RunNext(w) PROVE TimersInv'
  <2>1. UNCHANGED timerVars /\ UNCHANGED resetting
    BY <1>3 DEF RunNext, Pick, PickNone, ResumeTask, LeaveTask, EnterIdle, runOnly
  <2>2. TimerTypeOK' /\ \A t \in Timer : m_next'[t] <= m_ms'[t]
    BY <1>0, <2>1, TimerSteps
  <2>3. \E label \in Labels \ {"reset"} : Goto(w, label)
    BY <1>3, LabelFacts DEF RunNext, Pick, PickNone, ResumeTask, LeaveTask, EnterIdle
  <2> QED
    BY <1>1, <2>1, <2>2, <2>3, ResetKept
<1>4. ASSUME NEW w \in Worker, IdleNext(w) PROVE TimersInv'
  <2>1. /\ QueryNextTimer \/ ListExpired \/ UNCHANGED timerVars
        /\ UNCHANGED resetting
    BY <1>4
       DEF IdleNext, StoppingReadsTimers, StoppingReadsPending, StoppingReadsBase, Arm,
           EpollReturns, Expire, PostExpired, Drain, HandleReport, IdleYields, idleOnly, eventsOnly
  <2>2. TimerTypeOK' /\ \A t \in Timer : m_next'[t] <= m_ms'[t]
    BY <1>0, <2>1, TimerSteps
  <2>3. pc' = pc \/ \E label \in Labels \ {"reset"} : Goto(w, label)
    BY <1>4, LabelFacts
       DEF IdleNext, StoppingReadsTimers, StoppingReadsPending, StoppingReadsBase, Arm,
           EpollReturns, Expire, PostExpired, Drain, HandleReport, IdleYields, eventsOnly
  <2> QED
    BY <1>1, <2>1, <2>2, <2>3, ResetKept
<1>5. ASSUME UNCHANGED timerVars, resetting' = resetting, pc' = pc PROVE TimersInv'
  BY <1>0, <1>5, TimerSteps, ResetKept
<1>6. ASSUME NEW fd \in Fd, NEW e \in Reports, EpollFinds(fd, e) PROVE TimersInv'
  BY <1>5, <1>6 DEF EpollFinds
<1>7. CASE Tick
  <2>1. /\ TimersAge /\ UNCHANGED <<m_timers, m_ms, m_cb, m_tickled, phase>>
        /\ resetting' = resetting /\ pc' = pc
    BY <1>7 DEF Tick
  <2>2. TimerTypeOK' /\ \A t \in Timer : m_next'[t] <= m_ms'[t]
    BY <1>0, <2>1, TimerSteps
  <2> QED
    BY <2>1, <2>2, ResetKept
<1>8. CASE UNCHANGED vars
  BY <1>5, <1>8 DEF vars
<1> QED
  BY <1>2, <1>3, <1>4, <1>6, <1>7, <1>8, UserTimers DEF Next

-----------------------------------------------------------------------------
(* The queue, the tasks in hand and the two counters.                      *)

Busy == {w \in Worker : task[w] # None}
Idle == {w \in Worker : pc[w] \in InIdle}

WorkInv ==
    /\ m_tasks \in Seq(Task)
    /\ task \in [Worker -> Task \cup {None}]
    /\ m_state \in [Fiber -> {"NONE", "READY", "RUNNING", "TERM"}]
    /\ cbs \in [Worker -> SUBSET Timer]
    /\ \A w \in Worker :
          /\ pc[w] \in InTask \cup InIdle \cup Between
          /\ task[w] # None <=> pc[w] \in InTask
          /\ pc[w] = "yield" => task[w] \in Fiber

CountInv ==
    /\ m_activeThreadCount = Cardinality(Busy)
    /\ m_idleThreadCount = Cardinality(Idle)

LEMMA ActorFacts == Main \in Actor /\ Worker \subseteq Actor /\ Main \notin Worker
BY IOManagerAssumption DEF Actor

LEMMA TaskFacts ==
    /\ Fiber \subseteq Task /\ Timer \subseteq Task /\ Handler \subseteq Task /\ None \notin Task
    /\ Fiber \cap Timer = {} /\ Callback \notin Fiber /\ Callback \notin Timer
BY IOManagerAssumption DEF Task

LEMMA LabelsDisjoint == InTask \cap (InIdle \cup Between) = {} /\ InIdle \cap Between = {}
BY DEF InTask, InIdle, Between

\* What an operation triggers is handlers.
LEMMA HandlersAreTasks ==
    ASSUME FdInv, NEW fd \in Fd, NEW evs \in SUBSET events[fd]
    PROVE  /\ Handlers(fd, evs) \in Seq(Handler)
           /\ Handlers(fd, evs) \in Seq(Task)
<1> DEFINE part(e) == IF e \in evs THEN <<ctx[fd][e]>> ELSE <<>>
<1>1. ASSUME NEW e \in Event PROVE part(e) \in Seq(Handler)
  <2>1. CASE e \in evs
    <3>1. ctx[fd][e] \in Handler
      BY <2>1 DEF FdInv
    <3> QED
      BY <2>1, <3>1
  <2>2. CASE e \notin evs
    BY <2>2
  <2> QED
    BY <2>1, <2>2
<1>2. part(READ) \in Seq(Handler) /\ part(WRITE) \in Seq(Handler)
  BY <1>1, EventFacts
<1>3. Handlers(fd, evs) = part(READ) \o part(WRITE)
  BY DEF Handlers
<1> HIDE DEF part
<1>4. Handlers(fd, evs) \in Seq(Handler)
  BY <1>2, <1>3
<1> QED
  BY <1>4, TaskFacts

LEMMA ScheduleFacts ==
    ASSUME m_tasks \in Seq(Task), NEW s \in Seq(Task), Schedule(s)
    PROVE  m_tasks' \in Seq(Task)
BY DEF Schedule

\* A step in which no worker takes or leaves a task, or becomes or ceases to be idle.
LEMMA WorkKept ==
    ASSUME TimersInv, WorkInv, CountInv,
           UNCHANGED <<task, m_activeThreadCount, m_idleThreadCount>>,
           m_tasks' \in Seq(Task), m_state' \in [Fiber -> {"NONE", "READY", "RUNNING", "TERM"}],
           cbs' \in [Worker -> SUBSET Timer],
           \/ pc' = pc
           \/ \E a \in Actor, label \in Labels :
                 /\ Goto(a, label)
                 /\ a \in Worker => /\ label \in InTask \cup InIdle \cup Between
                                    /\ label \in InTask <=> pc[a] \in InTask
                                    /\ label \in InIdle <=> pc[a] \in InIdle
                                    /\ label = "yield" => task[a] \in Fiber
    PROVE  WorkInv' /\ CountInv'
<1>1. \A w \in Worker :
         /\ pc'[w] \in InTask \cup InIdle \cup Between
         /\ pc'[w] \in InTask <=> pc[w] \in InTask
         /\ pc'[w] \in InIdle <=> pc[w] \in InIdle
         /\ pc'[w] = "yield" => task[w] \in Fiber
  <2>1. CASE pc' = pc
    BY <2>1 DEF WorkInv
  <2>2. ASSUME NEW a \in Actor, NEW label \in Labels, Goto(a, label),
               a \in Worker => /\ label \in InTask \cup InIdle \cup Between
                               /\ label \in InTask <=> pc[a] \in InTask
                               /\ label \in InIdle <=> pc[a] \in InIdle
                               /\ label = "yield" => task[a] \in Fiber,
               NEW w \in Worker
        PROVE  /\ pc'[w] \in InTask \cup InIdle \cup Between
               /\ pc'[w] \in InTask <=> pc[w] \in InTask
               /\ pc'[w] \in InIdle <=> pc[w] \in InIdle
               /\ pc'[w] = "yield" => task[w] \in Fiber
    BY <2>2, ActorFacts DEF Goto, WorkInv, TimersInv
  <2> QED
    BY <2>1, <2>2
<1>2. WorkInv'
  BY <1>1 DEF WorkInv
<1>3. Busy' = Busy /\ Idle' = Idle
  BY <1>1 DEF Busy, Idle
<1> QED
  BY <1>2, <1>3 DEF CountInv

LEMMA InitWork == Init => WorkInv /\ CountInv
<1> SUFFICES ASSUME Init PROVE WorkInv /\ CountInv
  OBVIOUS
<1>1. WorkInv
  BY ActorFacts, LabelFacts DEF Init, WorkInv
<1>2. Busy = {} /\ Idle = {}
  BY ActorFacts, LabelFacts DEF Init, Busy, Idle
<1> QED
  BY <1>1, <1>2, FS_EmptySet DEF Init, CountInv

LEMMA UserWork ==
    ASSUME FdInv, TimersInv, WorkInv, CountInv, NEW a \in Actor, UserNext(a) \/ CallNext(a)
    PROVE  WorkInv' /\ CountInv'
<1>0. /\ m_tasks \in Seq(Task)
      /\ m_state \in [Fiber -> {"NONE", "READY", "RUNNING", "TERM"}]
      /\ cbs \in [Worker -> SUBSET Timer]
  BY DEF WorkInv
<1>1. {"picked", "user", "tickle", "yield", "resume", "reset"} \subseteq InTask
      /\ InTask \subseteq Labels
      /\ InTask \cap InIdle = {}
  BY LabelFacts, LabelsDisjoint
\* All of them leave a worker in its task.
<1>2. ASSUME UNCHANGED <<task, m_activeThreadCount, m_idleThreadCount, m_state, cbs>>,
             m_tasks' \in Seq(Task), pc[a] \in InTask,
             \/ pc' = pc
             \/ \E label \in InTask \ {"yield"} : Goto(a, label)
             \/ Goto(a, "yield") /\ task[a] \in Fiber
      PROVE  WorkInv' /\ CountInv'
  <2>1. \/ pc' = pc
        \/ \E label \in Labels : 
              /\ Goto(a, label)
              /\ a \in Worker => /\ label \in InTask \cup InIdle \cup Between
                                 /\ label \in InTask <=> pc[a] \in InTask
                                 /\ label \in InIdle <=> pc[a] \in InIdle
                                 /\ label = "yield" => task[a] \in Fiber
    BY <1>1, <1>2
  <2> QED
    BY <1>0, <1>2, <2>1, WorkKept
<1>3. ASSUME NEW fd \in Fd, NEW ev \in Event,
             AddEventForFiber(a, fd, ev) \/ AddEventForCallback(a, fd, ev) \/ DelEvent(a, fd, ev)
      PROVE  WorkInv' /\ CountInv'
  BY <1>0, <1>1, <1>2, <1>3
     DEF AddEventForFiber, AddEventForCallback, DelEvent, UserCall, queueVars, epollVars
<1>4. ASSUME NEW fd \in Fd, NEW ev \in Event, CancelEvent(a, fd, ev)
      PROVE  WorkInv' /\ CountInv'
  <2>1. {ev} \in SUBSET events[fd]
    BY <1>4 DEF CancelEvent, RemoveEvent
  <2>2. m_tasks' \in Seq(Task)
    BY <1>0, <1>4, <2>1, HandlersAreTasks, ScheduleFacts DEF CancelEvent
  <2> QED
    BY <1>1, <1>2, <1>4, <2>2 DEF CancelEvent, UserCall, ThenTickle, epollVars
<1>5. ASSUME NEW fd \in Fd, CancelAll(a, fd) PROVE WorkInv' /\ CountInv'
  <2>1. m_tasks' \in Seq(Task)
    BY <1>0, <1>5, HandlersAreTasks, ScheduleFacts DEF CancelAll
  <2> QED
    BY <1>1, <1>2, <1>5, <2>1 DEF CancelAll, UserCall, ThenTickle, epollVars
<1>6. ASSUME NEW t \in Timer,
             \/ UserCancelTimer(a, t) \/ UserRefreshTimer(a, t)
             \/ \E ms \in Period :
                   \/ UserAddTimer(a, t, ms)
                   \/ \E fromNow \in BOOLEAN : UserResetTimer(a, t, ms, fromNow)
      PROVE  WorkInv' /\ CountInv'
  BY <1>0, <1>1, <1>2, <1>6
     DEF UserCancelTimer, UserRefreshTimer, UserAddTimer, UserResetTimer, UserCall, ThenTickle,
         timersOnly, queueVars, epollVars
<1>7. ASSUME CallNext(a) PROVE WorkInv' /\ CountInv'
  BY <1>0, <1>1, <1>2, <1>7
     DEF CallNext, Tickle, UserResetEnds, ThenTickle, timersOnly, queueVars, epollVars
<1> QED
  BY <1>3, <1>4, <1>5, <1>6, <1>7 DEF UserNext

LEMMA MainWork ==
    ASSUME TimersInv, WorkInv, CountInv, MainNext
    PROVE  WorkInv' /\ CountInv'
<1>1. /\ UNCHANGED <<task, m_activeThreadCount, m_idleThreadCount, cbs>>
      /\ \E label \in Labels : Goto(Main, label)
  BY LabelFacts
     DEF MainNext, StopAsks, Stop, StopTickles, Join, Submit, ThenTickle, queueVars, epollVars
<1>2. /\ m_tasks' \in Seq(Task)
      /\ m_state' \in [Fiber -> {"NONE", "READY", "RUNNING", "TERM"}]
  <2>1. CASE UNCHANGED <<m_tasks, m_state>>
    BY <2>1 DEF WorkInv
  <2>2. ASSUME NEW f \in Fiber, Submit(f)
        PROVE  /\ m_tasks' \in Seq(Task)
               /\ m_state' \in [Fiber -> {"NONE", "READY", "RUNNING", "TERM"}]
    <3>1. <<f>> \in Seq(Task) /\ m_tasks \in Seq(Task)
      BY TaskFacts DEF WorkInv
    <3> QED
      BY <2>2, <3>1, ScheduleFacts DEF Submit, WorkInv
  <2> QED
    BY <2>1, <2>2 DEF MainNext, StopAsks, Stop, StopTickles, Join, queueVars
<1>3. cbs' \in [Worker -> SUBSET Timer]
  BY <1>1 DEF WorkInv
<1> QED
  BY <1>1, <1>2, <1>3, ActorFacts, WorkKept

LEMMA CountsFinite == IsFiniteSet(Busy) /\ IsFiniteSet(Idle)
<1>1. Busy \in SUBSET Worker /\ Idle \in SUBSET Worker
  BY DEF Busy, Idle
<1> QED
  BY <1>1, FS_Subset, IOManagerAssumption

LEMMA RunWork ==
    ASSUME TimersInv, WorkInv, CountInv, NEW w \in Worker, RunNext(w)
    PROVE  WorkInv' /\ CountInv'
<1>0. /\ m_tasks \in Seq(Task) /\ task \in [Worker -> Task \cup {None}]
      /\ m_state \in [Fiber -> {"NONE", "READY", "RUNNING", "TERM"}]
      /\ cbs \in [Worker -> SUBSET Timer] /\ cbs' = cbs
      /\ pc \in [Actor -> Labels] /\ w \in Actor
  BY ActorFacts
     DEF WorkInv, TimersInv, RunNext, Pick, PickNone, ResumeTask, LeaveTask, EnterIdle, runOnly,
         epollVars
<1>1. CASE Pick(w)
  <2>1. /\ pc[w] = "pick" /\ m_tasks # <<>>
        /\ task' = [task EXCEPT ![w] = Head(m_tasks)] /\ m_tasks' = Tail(m_tasks)
        /\ \E label \in {"resume", "picked"} : pc' = [pc EXCEPT ![w] = label]
        /\ m_activeThreadCount' = m_activeThreadCount + 1
        /\ UNCHANGED <<m_idleThreadCount, m_state>>
    BY <1>1 DEF Pick, Goto
  <2>2. Head(m_tasks) \in Task /\ Tail(m_tasks) \in Seq(Task) /\ Head(m_tasks) # None
    BY <1>0, <2>1, TaskFacts
  <2>3. WorkInv'
    BY <1>0, <2>1, <2>2, LabelFacts DEF WorkInv
  <2>4. Busy' = Busy \cup {w} /\ w \notin Busy /\ Idle' = Idle
    BY <1>0, <2>1, <2>2, LabelFacts DEF Busy, Idle, WorkInv
  <2>5. Cardinality(Busy') = Cardinality(Busy) + 1
    BY <2>4, CountsFinite, FS_AddElement
  <2> QED
    BY <2>1, <2>3, <2>4, <2>5 DEF CountInv
<1>2. CASE PickNone(w)
  BY <1>0, <1>2, WorkKept, LabelFacts DEF PickNone, runOnly
<1>3. CASE ResumeTask(w)
  <2>1. m_state' \in [Fiber -> {"NONE", "READY", "RUNNING", "TERM"}]
    BY <1>0, <1>3 DEF ResumeTask
  <2> QED
    BY <1>0, <1>3, <2>1, WorkKept, LabelFacts DEF ResumeTask, runOnly
<1>4. CASE LeaveTask(w)
  <2>1. /\ pc[w] \in {"yield", "user"}
        /\ task' = [task EXCEPT ![w] = None] /\ pc' = [pc EXCEPT ![w] = "pick"]
        /\ m_activeThreadCount' = m_activeThreadCount - 1
        /\ UNCHANGED <<m_idleThreadCount, m_tasks>>
    BY <1>4 DEF LeaveTask, Goto
  <2>2. m_state' \in [Fiber -> {"NONE", "READY", "RUNNING", "TERM"}]
    BY <1>0, <1>4 DEF LeaveTask
  <2>3. WorkInv'
    BY <1>0, <2>1, <2>2, LabelFacts DEF WorkInv
  <2>4. Busy' = Busy \ {w} /\ w \in Busy /\ Idle' = Idle
    BY <1>0, <2>1, LabelFacts DEF Busy, Idle, WorkInv
  <2>5. Cardinality(Busy') = Cardinality(Busy) - 1
    BY <2>4, CountsFinite, FS_RemoveElement
  <2> QED
    BY <2>1, <2>3, <2>4, <2>5 DEF CountInv
<1>5. CASE EnterIdle(w)
  <2>1. /\ pc[w] = "enterIdle" /\ pc' = [pc EXCEPT ![w] = "askTimers"]
        /\ m_idleThreadCount' = m_idleThreadCount + 1
        /\ UNCHANGED <<m_tasks, m_activeThreadCount, m_state, task>>
    BY <1>5 DEF EnterIdle, Goto
  <2>2. WorkInv'
    BY <1>0, <2>1, LabelFacts DEF WorkInv
  <2>3. Idle' = Idle \cup {w} /\ w \notin Idle /\ Busy' = Busy
    BY <1>0, <2>1, LabelFacts DEF Busy, Idle
  <2>4. Cardinality(Idle') = Cardinality(Idle) + 1
    BY <2>3, CountsFinite, FS_AddElement
  <2> QED
    BY <2>1, <2>2, <2>3, <2>4 DEF CountInv
<1> QED
  BY <1>1, <1>2, <1>3, <1>4, <1>5 DEF RunNext

\* The idle fiber leaves its loop, for good or to let the worker look for a task.
LEMMA LeavesIdle ==
    ASSUME TimersInv, WorkInv, CountInv, NEW w \in Worker, pc[w] \in InIdle, Goto(w, "pick"),
           m_idleThreadCount' = m_idleThreadCount - 1,
           UNCHANGED <<m_tasks, m_activeThreadCount, m_state, task, cbs>>
    PROVE  WorkInv' /\ CountInv'
<1>1. pc' = [pc EXCEPT ![w] = "pick"] /\ pc \in [Actor -> Labels] /\ w \in Actor
  BY ActorFacts DEF Goto, TimersInv
<1>2. WorkInv'
  BY <1>1, LabelFacts DEF WorkInv
<1>3. Idle' = Idle \ {w} /\ w \in Idle /\ Busy' = Busy
  BY <1>1, LabelFacts DEF Busy, Idle
<1>4. Cardinality(Idle') = Cardinality(Idle) - 1
  BY <1>3, CountsFinite, FS_RemoveElement
<1> QED
  BY <1>2, <1>3, <1>4 DEF CountInv

LEMMA IdleWork ==
    ASSUME FdInv, TimersInv, WorkInv, CountInv,
           NEW w \in Worker, IdleNext(w)
    PROVE  WorkInv' /\ CountInv'
<1>0. /\ m_tasks \in Seq(Task) /\ cbs \in [Worker -> SUBSET Timer]
      /\ m_state \in [Fiber -> {"NONE", "READY", "RUNNING", "TERM"}]
      /\ UNCHANGED <<m_activeThreadCount, m_state, task>> /\ w \in Actor
      /\ InIdle \subseteq Labels /\ InTask \cap InIdle = {}
  BY ActorFacts, LabelFacts, LabelsDisjoint
     DEF WorkInv, IdleNext, StoppingReadsTimers, StoppingReadsPending, StoppingReadsBase, Arm,
         EpollReturns, Expire, PostExpired, Drain, HandleReport, IdleYields, idleOnly, eventsOnly
\* Most steps stay in the idle loop.
<1>1. ASSUME m_idleThreadCount' = m_idleThreadCount, m_tasks' \in Seq(Task),
             cbs' \in [Worker -> SUBSET Timer], pc[w] \in InIdle,
             pc' = pc \/ \E label \in InIdle : Goto(w, label)
      PROVE  WorkInv' /\ CountInv'
  <2>1. CASE pc' = pc
    BY <1>0, <1>1, <2>1, WorkKept
  <2>2. ASSUME NEW label \in InIdle, Goto(w, label) PROVE WorkInv' /\ CountInv'
    <3>1. label \notin InTask /\ pc[w] \notin InTask /\ label \in Labels /\ label # "yield"
      BY <1>0, <1>1, LabelFacts
    <3> QED
      BY <1>0, <1>1, <2>2, <3>1, WorkKept
  <2> QED
    BY <1>1, <2>1, <2>2
<1>2. CASE \/ StoppingReadsTimers(w) \/ StoppingReadsPending(w) \/ Arm(w)
           \/ EpollReturns(w) \/ Drain(w)
  BY <1>0, <1>1, <1>2, LabelFacts
     DEF StoppingReadsTimers, StoppingReadsPending, Arm, EpollReturns, Drain, epollVars, eventsOnly
<1>3. CASE StoppingReadsBase(w)
  <2>1. CASE BaseStopping
    BY <1>0, <1>3, <2>1, LeavesIdle, LabelFacts DEF StoppingReadsBase
  <2>2. CASE ~BaseStopping
    BY <1>0, <1>1, <1>3, <2>2, LabelFacts DEF StoppingReadsBase
  <2> QED
    BY <2>1, <2>2
<1>4. CASE Expire(w)
  <2>1. ExpiredCallbacks \in SUBSET Timer
    BY DEF ExpiredCallbacks, Expired, TimersInv, TimerTypeOK
  <2>2. cbs' \in [Worker -> SUBSET Timer]
    BY <1>0, <1>4, <2>1 DEF Expire
  <2> QED
    BY <1>0, <1>1, <1>4, <2>2, LabelFacts DEF Expire
<1>5. ASSUME NEW t \in Timer, PostExpired(w, t) PROVE WorkInv' /\ CountInv'
  <2>1. <<t>> \in Seq(Task) /\ Schedule(<<t>>)
    BY <1>5, TaskFacts DEF PostExpired, IdleSchedules
  <2>2. m_tasks' \in Seq(Task)
    BY <1>0, <2>1, ScheduleFacts
  <2>3. cbs' \in [Worker -> SUBSET Timer]
    BY <1>0, <1>5 DEF PostExpired
  <2>4. PICK label \in {"events", "post"} : Goto(w, label)
    BY <1>5 DEF PostExpired
  <2>5. m_idleThreadCount' = m_idleThreadCount /\ pc[w] \in InIdle /\ label \in InIdle
    BY <1>5, LabelFacts DEF PostExpired
  <2> QED
    BY <1>1, <2>2, <2>3, <2>4, <2>5
<1>6. ASSUME NEW fd \in Fd, HandleReport(w, fd) PROVE WorkInv' /\ CountInv'
  <2>1. m_tasks' \in Seq(Task)
    <3>1. CASE UNCHANGED m_tasks
      BY <1>0, <3>1
    <3>2. CASE /\ Dispatch(fd, batch[w][fd], TRUE, {})
               /\ IdleSchedules(Handlers(fd, RealEvents(fd, batch[w][fd])))
      <4>1. RealEvents(fd, batch[w][fd]) \in SUBSET events[fd]
        BY <3>2 DEF Dispatch
      <4> QED
        BY <1>0, <3>2, <4>1, HandlersAreTasks, ScheduleFacts DEF IdleSchedules
    <3> QED
      BY <1>6, <3>1, <3>2 DEF HandleReport
  <2> QED
    BY <1>0, <1>1, <1>6, <2>1, LabelFacts DEF HandleReport, eventsOnly
<1>7. CASE IdleYields(w)
  BY <1>0, <1>7, LeavesIdle, LabelFacts DEF IdleYields, epollVars
<1> QED
  BY <1>2, <1>3, <1>4, <1>5, <1>6, <1>7 DEF IdleNext

LEMMA NextWork == FdInv /\ TimersInv /\ WorkInv /\ CountInv /\ [Next]_vars => WorkInv' /\ CountInv'
<1> SUFFICES ASSUME FdInv, TimersInv, WorkInv, CountInv, [Next]_vars PROVE WorkInv' /\ CountInv'
  OBVIOUS
<1>0. /\ m_tasks \in Seq(Task) /\ cbs \in [Worker -> SUBSET Timer]
      /\ m_state \in [Fiber -> {"NONE", "READY", "RUNNING", "TERM"}]
  BY DEF WorkInv
<1>1. ASSUME UNCHANGED <<m_tasks, m_activeThreadCount, m_idleThreadCount, m_state, task, cbs, pc>>
      PROVE  WorkInv' /\ CountInv'
  BY <1>0, <1>1, WorkKept
<1>2. ASSUME NEW fd \in Fd, NEW e \in Reports, EpollFinds(fd, e) PROVE WorkInv' /\ CountInv'
  BY <1>1, <1>2 DEF EpollFinds, queueVars, epollVars
<1>3. CASE Tick
  BY <1>1, <1>3 DEF Tick, queueVars
<1>4. CASE UNCHANGED vars
  BY <1>1, <1>4 DEF vars, queueVars, epollVars
<1> QED
  BY <1>2, <1>3, <1>4, UserWork, MainWork, RunWork, IdleWork DEF Next

-----------------------------------------------------------------------------
(* What epoll reports, and how long it waits.                              *)

EpollInv ==
    /\ edge \in [Fd -> SUBSET (Event \cup {HUP})]
    /\ batch \in [Worker -> [Fd -> SUBSET (Event \cup {HUP})]]
    /\ timeout \in [Worker -> 0 .. MaxTimeout]
    /\ tickled \in BOOLEAN /\ m_stopping \in BOOLEAN

\* A set of naturals has a least one.
LEMMA LeastOf ==
    ASSUME NEW S \in SUBSET Nat, S # {}
    PROVE  \E n \in S : \A m \in S : n <= m
<1>1. \E n \in S : \A m \in S : ~(<<m, n>> \in OpToRel(<, Nat))
  BY WFMin, NatLessThanWellFounded
<1>2. PICK n \in S : \A m \in S : ~(<<m, n>> \in OpToRel(<, Nat))
  BY <1>1
<1>3. ASSUME NEW m \in S PROVE n <= m
  <2>1. m \in Nat /\ n \in Nat
    BY <1>2
  <2>2. ~(m < n)
    BY <1>2, <2>1 DEF OpToRel
  <2> QED
    BY <2>1, <2>2
<1> QED
  BY <1>3

\* getNextTimer() never waits longer than its limit, nor past the first deadline.
LEMMA EarliestFacts ==
    ASSUME TimerTypeOK, NEW limit \in Nat
    PROVE  /\ Earliest(limit) \in 0 .. limit
           /\ \A t \in m_timers : Earliest(limit) <= m_next[t]
<1> DEFINE S == {m_next[t] : t \in m_timers}
           Least(n) == /\ \E t \in m_timers : m_next[t] = n
                       /\ \A t \in m_timers : n <= m_next[t]
<1>0. MaxMs \in Nat /\ \A t \in m_timers : m_next[t] \in 0 .. MaxMs
  BY IOManagerAssumption DEF TimerTypeOK
<1>1. CASE \E t \in m_timers : m_next[t] < limit
  <2>1. S # {} /\ S \in SUBSET Nat
    BY <1>0, <1>1
  <2>2. PICK n \in S : \A m \in S : n <= m
    BY <2>1, LeastOf
  <2>3. n \in 0 .. MaxMs /\ Least(n)
    BY <1>0, <2>2
  <2>4. Earliest(limit) = CHOOSE k \in 0 .. MaxMs : Least(k)
    BY <1>1 DEF Earliest
  <2> HIDE DEF Least
  <2>5. Earliest(limit) \in 0 .. MaxMs /\ Least(Earliest(limit))
    BY <2>3, <2>4
  <2> QED
    BY <1>0, <1>1, <2>5 DEF Least
<1>2. CASE \A t \in m_timers : ~(m_next[t] < limit)
  <2>1. Earliest(limit) = limit
    BY <1>2 DEF Earliest
  <2> QED
    BY <1>0, <1>2, <2>1
<1> QED
  BY <1>1, <1>2

LEMMA NoReportTyped == NoReport \in [Fd -> SUBSET (Event \cup {HUP})]
BY DEF NoReport

LEMMA InitEpoll == Init => EpollInv
<1> SUFFICES ASSUME Init PROVE EpollInv
  OBVIOUS
<1>1. edge = NoReport /\ batch = [w \in Worker |-> NoReport]
  BY DEF Init, FdInit, NoReport
<1>2. timeout = [w \in Worker |-> 0] /\ tickled = FALSE /\ m_stopping = FALSE /\ MaxTimeout \in Nat
  BY IOManagerAssumption DEF Init
<1>3. timeout \in [Worker -> 0 .. MaxTimeout]
  BY <1>2
<1>4. batch \in [Worker -> [Fd -> SUBSET (Event \cup {HUP})]]
  BY <1>1, NoReportTyped, Zenon
<1> QED
  BY <1>1, <1>2, <1>3, <1>4, NoReportTyped, Zenon DEF EpollInv

LEMMA NextEpoll ==
    FdInv /\ TimersInv /\ EpollInv /\ [Next]_vars => EpollInv'
<1> SUFFICES ASSUME FdInv, TimersInv, EpollInv, [Next]_vars PROVE EpollInv'
  OBVIOUS
<1>0. MaxTimeout \in Nat /\ Reports \subseteq Event \cup {HUP} /\ TimerTypeOK
  BY IOManagerAssumption DEF TimersInv
<1>1. ASSUME edge' \in [Fd -> SUBSET (Event \cup {HUP})], tickled' \in BOOLEAN,
             m_stopping' \in BOOLEAN, UNCHANGED <<batch, timeout>>
      PROVE  EpollInv'
  BY <1>1 DEF EpollInv
<1>2. ASSUME NEW fd \in Fd, NEW evs, Watch(fd, evs, {})
      PROVE  edge' \in [Fd -> SUBSET (Event \cup {HUP})]
  BY <1>2 DEF Watch, EpollInv
<1>3. ASSUME NEW a \in Actor, UserNext(a) PROVE EpollInv'
  <2>1. ASSUME edge' = edge \/ \E fd \in Fd : \E evs : Watch(fd, evs, {}),
               UNCHANGED <<tickled, m_stopping, epollVars>>
        PROVE  EpollInv'
    <3>1. edge' \in [Fd -> SUBSET (Event \cup {HUP})]
      BY <1>2, <2>1 DEF EpollInv
    <3> QED
      BY <1>1, <2>1, <3>1 DEF EpollInv, epollVars
  <2>2. ASSUME NEW fd \in Fd, NEW ev \in Event,
               AddEventForFiber(a, fd, ev) \/ AddEventForCallback(a, fd, ev)
        PROVE  EpollInv'
    <3>1. Watch(fd, events[fd] \cup {ev}, {}) /\ UNCHANGED <<tickled, m_stopping, epollVars>>
      BY <2>2 DEF AddEventForFiber, AddEventForCallback, AddEvent, queueVars
    <3> QED
      BY <2>1, <3>1
  <2>3. ASSUME NEW fd \in Fd, NEW ev \in Event, DelEvent(a, fd, ev) \/ CancelEvent(a, fd, ev)
        PROVE  EpollInv'
    <3>1. Watch(fd, events[fd] \ {ev}, {}) /\ UNCHANGED <<tickled, m_stopping, epollVars>>
      BY <2>3 DEF DelEvent, CancelEvent, RemoveEvent, queueVars
    <3> QED
      BY <2>1, <3>1
  <2>4. ASSUME NEW fd \in Fd, CancelAll(a, fd) PROVE EpollInv'
    <3>1. Watch(fd, {}, {}) /\ UNCHANGED <<tickled, m_stopping, epollVars>>
      BY <2>4 DEF CancelAll, RemoveAll
    <3> QED
      BY <2>1, <3>1
  <2>5. ASSUME NEW t \in Timer,
               \/ UserCancelTimer(a, t) \/ UserRefreshTimer(a, t)
               \/ \E ms \in Period :
                     \/ UserAddTimer(a, t, ms)
                     \/ \E fromNow \in BOOLEAN : UserResetTimer(a, t, ms, fromNow)
        PROVE  EpollInv'
    BY <2>1, <2>5
       DEF UserCancelTimer, UserRefreshTimer, UserAddTimer, UserResetTimer, timersOnly, fdVars,
           queueVars
  <2> QED
    BY <1>3, <2>2, <2>3, <2>4, <2>5 DEF UserNext
<1>4. ASSUME NEW a \in Actor, CallNext(a) PROVE EpollInv'
  BY <1>1, <1>4
     DEF CallNext, Tickle, UserResetEnds, timersOnly, fdVars, queueVars, epollVars, EpollInv
<1>5. ASSUME MainNext PROVE EpollInv'
  BY <1>1, <1>5
     DEF MainNext, StopAsks, Stop, StopTickles, Join, Submit, fdVars, queueVars, epollVars, EpollInv
<1>6. ASSUME NEW w \in Worker, RunNext(w) PROVE EpollInv'
  BY <1>1, <1>6
     DEF RunNext, Pick, PickNone, ResumeTask, LeaveTask, EnterIdle, runOnly, fdVars, epollVars,
         EpollInv
<1>7. ASSUME NEW w \in Worker, IdleNext(w) PROVE EpollInv'
  <2>1. CASE StoppingReadsTimers(w) \/ StoppingReadsPending(w) \/ StoppingReadsBase(w) \/ Expire(w)
    BY <1>1, <2>1
       DEF StoppingReadsTimers, StoppingReadsPending, StoppingReadsBase, Expire, fdVars, epollVars,
           idleOnly, EpollInv
  <2>2. CASE Arm(w)
    <3>1. Earliest(MaxTimeout) \in 0 .. MaxTimeout
      BY <1>0, EarliestFacts
    <3> QED
      BY <2>2, <3>1 DEF Arm, fdVars, idleOnly, EpollInv
  <2>3. CASE EpollReturns(w)
    <3>1. /\ batch' = [batch EXCEPT ![w] = edge] /\ edge' = NoReport /\ tickled' = FALSE
          /\ timeout' = [timeout EXCEPT ![w] = 0] /\ m_stopping' = m_stopping
      BY <2>3 DEF EpollReturns, idleOnly
    <3>2. timeout' \in [Worker -> 0 .. MaxTimeout]
      BY <1>0, <3>1 DEF EpollInv
    <3>3. batch' \in [Worker -> [Fd -> SUBSET (Event \cup {HUP})]]
      BY <3>1 DEF EpollInv
    <3> QED
      BY <3>1, <3>2, <3>3, NoReportTyped, Zenon DEF EpollInv
  <2>4. CASE (\E t \in Timer : PostExpired(w, t)) \/ IdleYields(w)
    BY <1>1, <2>4
       DEF PostExpired, IdleSchedules, NeedTickle, IdleYields, fdVars, epollVars, idleOnly, EpollInv
  <2>5. CASE Drain(w)
    BY <1>1, <2>5 DEF Drain, fdVars, idleOnly, eventsOnly, EpollInv
  <2>6. ASSUME NEW fd \in Fd, HandleReport(w, fd) PROVE EpollInv'
    <3>1. /\ batch' = [batch EXCEPT ![w][fd] = {}]
          /\ UNCHANGED <<timeout, m_stopping>>
          /\ edge' = edge \/ \E evs : Watch(fd, evs, {})
      BY <2>6 DEF HandleReport, Dispatch, fdVars, idleOnly, eventsOnly
    <3>2. tickled' \in BOOLEAN
      BY <2>6 DEF HandleReport, IdleSchedules, NeedTickle, EpollInv
    <3>3. edge' \in [Fd -> SUBSET (Event \cup {HUP})]
      BY <1>2, <3>1 DEF EpollInv
    <3> QED
      BY <3>1, <3>2, <3>3 DEF EpollInv
  <2> QED
    BY <1>7, <2>1, <2>2, <2>3, <2>4, <2>5, <2>6 DEF IdleNext
<1>8. ASSUME NEW fd \in Fd, NEW e \in Reports, EpollFinds(fd, e) PROVE EpollInv'
  BY <1>0, <1>1, <1>8 DEF EpollFinds, BecomesReady, queueVars, epollVars, EpollInv
<1>9. CASE Tick
  BY <1>0, <1>9 DEF Tick, fdVars, queueVars, EpollInv
<1>10. CASE UNCHANGED vars
  BY <1>1, <1>10 DEF vars, fdVars, queueVars, epollVars, EpollInv
<1> QED
  BY <1>3, <1>4, <1>5, <1>6, <1>7, <1>8, <1>9, <1>10 DEF Next

-----------------------------------------------------------------------------
TypeInv == FdInv /\ TimersInv /\ WorkInv /\ CountInv /\ EpollInv

LEMMA InitType == Init => TypeInv
BY FdInitInv, InitTimers, InitWork, InitEpoll DEF TypeInv, Init

LEMMA NextType == TypeInv /\ [Next]_vars => TypeInv'
BY NextFd, NextTimers, NextWork, NextEpoll DEF TypeInv

LEMMA TypeInvariant == Spec => []TypeInv
BY InitType, NextType, PTL DEF Spec

LEMMA TypeFollows == TypeInv => TypeOK
<1> SUFFICES ASSUME TypeInv PROVE TypeOK
  OBVIOUS
<1> USE DEF TypeInv
<1>1. FdTypeOK /\ TimerTypeOK
  BY RegisteredFinite DEF FdInv, EpollInv, TimersInv, FdTypeOK
<1>2. /\ m_activeThreadCount \in 0 .. Cardinality(Worker)
      /\ m_idleThreadCount \in 0 .. Cardinality(Worker)
  <2>1. Busy \in SUBSET Worker /\ Idle \in SUBSET Worker
    BY DEF Busy, Idle
  <2>2. Cardinality(Busy) <= Cardinality(Worker) /\ Cardinality(Idle) <= Cardinality(Worker)
    BY <2>1, FS_Subset, IOManagerAssumption
  <2>3. /\ Cardinality(Busy) \in Nat /\ Cardinality(Idle) \in Nat
        /\ Cardinality(Worker) \in Nat
    BY CountsFinite, FS_CardinalityType, IOManagerAssumption
  <2> QED
    BY <2>2, <2>3 DEF CountInv
<1> QED
  BY <1>1, <1>2 DEF WorkInv, EpollInv, TypeOK

\* Every variable has its type: the two counters of Scheduler stay between zero and the
\* number of workers, and epoll_wait is never given more than MAX_TIMEOUT.
THEOREM TypeCorrect == Spec => []TypeOK
BY TypeInvariant, TypeFollows, PTL

-----------------------------------------------------------------------------
(* Stopping, and who will ask for the first timer.                         *)

\* What every call of user code leaves alone.
LEMMA UserEffect ==
    ASSUME NEW a \in Actor, UserNext(a) \/ CallNext(a)
    PROVE  /\ pc[a] \in {"user", "tickle", "picked", "reset"}
           /\ UNCHANGED <<m_activeThreadCount, m_idleThreadCount, m_stopping, m_state, task>>
           /\ UNCHANGED <<timeout, batch, rung, cbs, idleTerm>>
           /\ pc' = pc \/ \E label \in InTask : Goto(a, label)
<1> DEFINE Effect == /\ pc[a] \in {"user", "tickle", "picked", "reset"}
                     /\ UNCHANGED <<m_activeThreadCount, m_idleThreadCount, m_stopping>>
                     /\ UNCHANGED <<m_state, task>>
                     /\ UNCHANGED <<timeout, batch, rung, cbs, idleTerm>>
                     /\ pc' = pc \/ \E label \in InTask : Goto(a, label)
<1>0. {"picked", "resume", "user", "yield", "tickle", "reset"} = InTask
  BY LabelFacts
<1>1. ASSUME NEW fd \in Fd, NEW ev \in Event,
             AddEventForFiber(a, fd, ev) \/ AddEventForCallback(a, fd, ev) \/ DelEvent(a, fd, ev)
      PROVE  Effect
  BY <1>0, <1>1
     DEF AddEventForFiber, AddEventForCallback, DelEvent, UserCall, queueVars, epollVars
<1>2. ASSUME NEW fd \in Fd, NEW ev \in Event, CancelEvent(a, fd, ev) PROVE Effect
  BY <1>0, <1>2 DEF CancelEvent, UserCall, ThenTickle, epollVars
<1>3. ASSUME NEW fd \in Fd, CancelAll(a, fd) PROVE Effect
  BY <1>0, <1>3 DEF CancelAll, UserCall, ThenTickle, epollVars
<1>4. ASSUME NEW t \in Timer,
             \/ UserCancelTimer(a, t) \/ UserRefreshTimer(a, t)
             \/ \E ms \in Period :
                   \/ UserAddTimer(a, t, ms)
                   \/ \E fromNow \in BOOLEAN : UserResetTimer(a, t, ms, fromNow)
      PROVE  Effect
  BY <1>0, <1>4
     DEF UserCancelTimer, UserRefreshTimer, UserAddTimer, UserResetTimer, UserCall, ThenTickle,
         timersOnly, queueVars, epollVars
<1>5. ASSUME CallNext(a) PROVE Effect
  BY <1>0, <1>5 DEF CallNext, Tickle, UserResetEnds, ThenTickle, timersOnly, queueVars, epollVars
<1>6. Effect
  BY <1>1, <1>2, <1>3, <1>4, <1>5 DEF UserNext
<1> QED
  BY <1>6

\* A worker whose idle fiber has ended may still take a task, but once the idle fibers
\* of all have there is none left, in the queue or in hand.
StopInv ==
    /\ idleTerm \in [Worker -> BOOLEAN]
    /\ m_stopping => pc[Main] \in {"stop", "join", "stopped"}
    /\ \A w \in Worker :
          /\ idleTerm[w] => m_stopping /\ pc[w] \in InTask \cup {"pick", "exited"}
          /\ pc[w] = "exited" => idleTerm[w]
    /\ (\A w \in Worker : idleTerm[w]) => m_tasks = <<>> /\ Busy = {}

LEMMA InitStop == Init => StopInv
BY LabelFacts, ActorFacts DEF Init, StopInv, Busy

LEMMA PlaceFacts ==
    ASSUME TypeInv
    PROVE  /\ pc \in [Actor -> Labels] /\ task \in [Worker -> Task \cup {None}]
           /\ Main \in Actor /\ Worker \subseteq Actor /\ Main \notin Worker
           /\ Actor = Worker \cup {Main} /\ Worker # {}
           /\ InTask \cap (InIdle \cup {"pick", "enterIdle", "exited"}) = {}
           /\ InTask = {"picked", "resume", "user", "yield", "tickle", "reset"}
           /\ InIdle \cap {"pick", "enterIdle", "exited"} = {}
           /\ \A w \in Worker : task[w] # None <=> pc[w] \in InTask
BY ActorFacts, LabelFacts, IOManagerAssumption DEF TypeInv, TimersInv, WorkInv, Actor

\* A step of the idle fiber moves its own worker, within the idle loop or out of it.
LEMMA IdleMoves ==
    ASSUME TypeInv, NEW w \in Worker, IdleNext(w)
    PROVE  /\ pc[w] \in InIdle /\ pc'[w] \in InIdle \cup {"pick"}
           /\ pc'[Main] = pc[Main] /\ \A v \in Worker \ {w} : pc'[v] = pc[v]
           /\ m_stopping' = m_stopping /\ task' = task /\ m_state' = m_state
<1>0. /\ pc \in [Actor -> Labels] /\ Main \in Actor /\ Worker \subseteq Actor /\ w # Main
      /\ InIdle = {"askTimers", "askPending", "askBase", "arm", "epoll", "expire", "post",
                   "events"}
  BY PlaceFacts, LabelFacts
<1>1. /\ pc[w] \in InIdle /\ m_stopping' = m_stopping /\ task' = task /\ m_state' = m_state
      /\ pc' = pc \/ \E label \in InIdle \cup {"pick"} : pc' = [pc EXCEPT ![w] = label]
  <2>1. CASE \/ StoppingReadsTimers(w) \/ StoppingReadsPending(w) \/ StoppingReadsBase(w)
             \/ Arm(w)
    BY <1>0, <2>1 DEF StoppingReadsTimers, StoppingReadsPending, StoppingReadsBase, Arm, Goto,
                      idleOnly
  <2>2. CASE EpollReturns(w) \/ Expire(w) \/ (\E t \in Timer : PostExpired(w, t)) \/ IdleYields(w)
    BY <1>0, <2>2 DEF EpollReturns, Expire, PostExpired, IdleYields, Goto, idleOnly
  <2>3. CASE Drain(w) \/ \E fd \in Fd : HandleReport(w, fd)
    BY <1>0, <2>3 DEF Drain, HandleReport, eventsOnly, idleOnly
  <2> QED
    BY <2>1, <2>2, <2>3 DEF IdleNext
<1>2. \A v \in Actor \ {w} : pc'[v] = pc[v]
  BY <1>0, <1>1
<1>3. pc'[w] \in InIdle \cup {"pick"}
  BY <1>0, <1>1
<1> QED
  BY <1>0, <1>1, <1>2, <1>3

LEMMA UserStop ==
    ASSUME TypeInv, StopInv, NEW a \in Actor, UserNext(a) \/ CallNext(a)
    PROVE  StopInv'
<1>0. /\ pc[a] \in {"user", "tickle", "picked", "reset"}
      /\ idleTerm' = idleTerm /\ m_stopping' = m_stopping /\ task' = task
      /\ pc' = pc \/ \E label \in InTask : Goto(a, label)
  BY UserEffect
<1>1. CASE a = Main
  <2>1. ~m_stopping /\ \A w \in Worker : ~idleTerm[w]
    BY <1>0, <1>1 DEF StopInv
  <2>2. \A w \in Worker : pc'[w] = pc[w]
    BY <1>0, <1>1, PlaceFacts DEF Goto
  <2> QED
    BY <1>0, <2>1, <2>2, PlaceFacts DEF StopInv
\* Its worker is busy, so not all idle fibers have ended.
<1>2. CASE a \in Worker
  <2>1. task[a] # None /\ a \in Busy
    BY <1>0, <1>2, PlaceFacts DEF Busy
  <2>2. \E w \in Worker : ~idleTerm[w]
    BY <2>1 DEF StopInv
  <2>3. /\ pc'[Main] = pc[Main] /\ pc'[a] \in InTask
        /\ \A w \in Worker \ {a} : pc'[w] = pc[w]
    BY <1>0, <1>2, PlaceFacts DEF Goto
  <2>4. "exited" \notin InTask
    BY PlaceFacts
  <2> QED
    BY <1>0, <1>2, <2>2, <2>3, <2>4, PlaceFacts DEF StopInv
<1> QED
  BY <1>1, <1>2, PlaceFacts

LEMMA MainStop == ASSUME TypeInv, StopInv, MainNext PROVE StopInv'
<1>0. /\ idleTerm' = idleTerm /\ task' = task
      /\ \A w \in Worker : pc'[w] = pc[w]
  BY PlaceFacts
     DEF MainNext, StopAsks, Stop, StopTickles, Join, Submit, ThenTickle, Goto, epollVars
<1>1. CASE StopAsks \/ Stop \/ StopTickles \/ Join
  <2>1. /\ m_tasks' = m_tasks
        /\ m_stopping' => pc'[Main] \in {"stop", "join", "stopped"}
        /\ m_stopping => m_stopping'
    BY <1>1, PlaceFacts DEF StopAsks, Stop, StopTickles, Join, Goto, queueVars, StopInv
  <2> QED
    BY <1>0, <2>1 DEF StopInv, Busy
<1>2. ASSUME NEW f \in Fiber, Submit(f) PROVE StopInv'
  <2>1. ~m_stopping' /\ \A w \in Worker : ~idleTerm[w]
    BY <1>2 DEF Submit, StopInv
  <2> QED
    BY <1>0, <2>1, PlaceFacts DEF StopInv
<1> QED
  BY <1>1, <1>2 DEF MainNext

LEMMA RunStop == ASSUME TypeInv, StopInv, NEW w \in Worker, RunNext(w) PROVE StopInv'
<1>0. idleTerm' = idleTerm /\ m_stopping' = m_stopping
  BY DEF RunNext, Pick, PickNone, ResumeTask, LeaveTask, EnterIdle, runOnly, epollVars
<1>1. /\ pc'[Main] = pc[Main]
      /\ \A v \in Worker \ {w} : pc'[v] = pc[v]
      /\ idleTerm[w] => pc'[w] \in InTask \cup {"pick", "exited"}
      /\ pc'[w] = "exited" => idleTerm[w]
  BY PlaceFacts DEF RunNext, Pick, PickNone, ResumeTask, LeaveTask, EnterIdle, Goto, StopInv
<1>2. ASSUME \A v \in Worker : idleTerm[v] PROVE m_tasks' = <<>> /\ Busy' = {}
  <2>1. m_tasks = <<>> /\ \A v \in Worker : task[v] = None
    BY <1>2 DEF StopInv, Busy
  <2>2. m_tasks' = m_tasks /\ (task' = task \/ task' = [v \in Worker |-> None])
    BY <2>1, PlaceFacts DEF RunNext, Pick, PickNone, ResumeTask, LeaveTask, EnterIdle
  <2> QED
    BY <2>1, <2>2 DEF Busy
<1> QED
  BY <1>0, <1>1, <1>2 DEF StopInv

LEMMA IdleStop == ASSUME TypeInv, StopInv, NEW w \in Worker, IdleNext(w) PROVE StopInv'
<1>0. /\ pc[w] \in InIdle /\ m_stopping' = m_stopping /\ task' = task
      /\ pc'[Main] = pc[Main] /\ \A v \in Worker \ {w} : pc'[v] = pc[v]
      /\ pc'[w] \in InIdle \cup {"pick"}
  BY IdleMoves
<1>1. ~idleTerm[w] /\ pc'[w] # "exited"
  BY <1>0, PlaceFacts DEF StopInv
\* The idle fiber ends when there are no tasks: everything else is as it was.
<1>2. CASE StoppingReadsBase(w) /\ BaseStopping
  <2>1. /\ m_stopping /\ m_tasks' = <<>> /\ Cardinality(Busy) = 0
        /\ idleTerm' = [idleTerm EXCEPT ![w] = TRUE] /\ pc'[w] = "pick"
    BY <1>2, PlaceFacts DEF StoppingReadsBase, BaseStopping, TypeInv, CountInv, Goto
  <2>2. Busy' = {}
    BY <1>0, <2>1, CountsFinite, FS_EmptySet DEF Busy
  <2> QED
    BY <1>0, <1>1, <2>1, <2>2 DEF StopInv
<1>3. CASE idleTerm' = idleTerm
  BY <1>0, <1>1, <1>3 DEF StopInv
<1> QED
  BY <1>2, <1>3
     DEF IdleNext, StoppingReadsTimers, StoppingReadsPending, StoppingReadsBase, Arm,
         EpollReturns, Expire, PostExpired, Drain, HandleReport, IdleYields, epollVars, eventsOnly

LEMMA NextStop == TypeInv /\ StopInv /\ [Next]_vars => StopInv'
<1> SUFFICES ASSUME TypeInv, StopInv, [Next]_vars PROVE StopInv'
  OBVIOUS
<1>1. ASSUME UNCHANGED <<idleTerm, m_stopping, pc, m_tasks, task>> PROVE StopInv'
  BY <1>1 DEF StopInv, Busy
<1>2. ASSUME NEW fd \in Fd, NEW e \in Reports, EpollFinds(fd, e) PROVE StopInv'
  BY <1>1, <1>2 DEF EpollFinds, queueVars, epollVars
<1>3. CASE Tick
  BY <1>1, <1>3 DEF Tick, queueVars
<1>4. CASE UNCHANGED vars
  BY <1>1, <1>4 DEF vars, queueVars, epollVars
<1> QED
  BY <1>2, <1>3, <1>4, UserStop, MainStop, RunStop, IdleStop DEF Next

\* A worker that will still ask for the first timer, or waits no longer than for it.
WillAsk(w) ==
    /\ ~idleTerm[w]
    /\ \/ pc[w] \in InTask \cup {"pick", "enterIdle", "askTimers", "arm", "expire", "post", "events"}
       \/ pc[w] = "epoll" /\ ~m_tickled /\ \A t \in m_timers : timeout[w] <= m_next[t]

\* m_tickled, which makes the next addTimer save its tickle, stands for one of these, too.
WatchInv ==
    m_timers # {} \/ m_tickled =>
        \/ tickled \/ \E a \in Actor : pc[a] = "tickle"
        \/ \E w \in Worker : WillAsk(w)

LEMMA InitWatch == Init => WatchInv
<1> SUFFICES ASSUME Init PROVE WatchInv
  OBVIOUS
<1>1. PICK w \in Worker : TRUE
  BY IOManagerAssumption
<1>2. WillAsk(w)
  BY ActorFacts DEF Init, WillAsk
<1> QED
  BY <1>2 DEF WatchInv

\* A step of a that takes nobody's waking away.
LEMMA WatchKept ==
    ASSUME TypeInv, WatchInv, idleTerm' = idleTerm, timeout' = timeout, tickled => tickled',
           m_timers' # {} \/ m_tickled' => m_timers # {} \/ m_tickled,
           m_tickled' => m_tickled,
           \A w \in Worker :
              /\ ~m_tickled
              /\ \A t \in m_timers : timeout[w] <= m_next[t]
              => \A t \in m_timers' : timeout[w] <= m_next'[t],
           \/ pc' = pc
           \/ \E a \in Actor : /\ pc[a] \notin {"tickle", "epoll"}
                               /\ \A b \in Actor \ {a} : pc'[b] = pc[b]
                               /\ a \in Worker /\ WillAsk(a) => WillAsk(a)'
    PROVE  WatchInv'
<1> SUFFICES ASSUME m_timers # {} \/ m_tickled, ~tickled
             PROVE  (\E a \in Actor : pc'[a] = "tickle") \/ \E w \in Worker : WillAsk(w)'
  BY DEF WatchInv
<1>1. CASE \E b \in Actor : pc[b] = "tickle"
  BY <1>1
<1>2. ASSUME NEW w \in Worker, WillAsk(w) PROVE \E v \in Worker : WillAsk(v)'
  BY <1>2, PlaceFacts DEF WillAsk
<1> QED
  BY <1>1, <1>2 DEF WatchInv

\* addTimer(shared_ptr), from addTimer or reset: it tickles, or somebody is on the way.
LEMMA InsertWatch ==
    ASSUME TypeInv, StopInv, WatchInv, NEW a \in Actor, pc[a] \in {"user", "reset"},
           NEW t \in Timer, NEW next \in 0 .. MaxMs, NEW atFront \in BOOLEAN,
           Insert(t, next, atFront), m_next' = [m_next EXCEPT ![t] = next],
           ThenTickle(a, atFront), idleTerm' = idleTerm, timeout' = timeout, tickled' = tickled
    PROVE  WatchInv'
<1>0. pc' = [pc EXCEPT ![a] = IF atFront THEN "tickle" ELSE "user"]
  BY DEF ThenTickle, Goto
<1>1. CASE atFront
  <2>1. pc'[a] = "tickle"
    BY <1>0, <1>1, PlaceFacts
  <2> QED
    BY <2>1 DEF WatchInv
<1>2. CASE ~atFront
  <2>1. /\ NotFirst(t, next) \/ m_tickled
        /\ m_timers' = m_timers \cup {t} /\ m_tickled' = m_tickled
    BY <1>2 DEF Insert, TypeInv, TimersInv, TimerTypeOK
  <2>2. m_timers # {} \/ m_tickled
    BY <2>1 DEF NotFirst
  <2>3. ASSUME NEW w \in Worker, ~m_tickled, \A u \in m_timers : timeout[w] <= m_next[u]
        PROVE  \A u \in m_timers' : timeout[w] <= m_next'[u]
    <3>1. PICK u \in m_timers \ {t} : m_next[u] <= next
      BY <2>1, <2>3 DEF NotFirst
    <3>2. timeout[w] <= m_next[u] /\ timeout[w] \in Int /\ m_next[u] \in Int /\ next \in Int
      BY <2>3, <3>1 DEF TypeInv, EpollInv, TimersInv, TimerTypeOK
    <3>3. timeout[w] <= next
      BY <3>1, <3>2
    <3> QED
      BY <2>1, <2>3, <3>3 DEF TypeInv, TimersInv, TimerTypeOK
  <2>4. /\ pc[a] \notin {"tickle", "epoll"} /\ \A b \in Actor \ {a} : pc'[b] = pc[b]
        /\ pc'[a] \in InTask
    BY <1>0, <1>2, PlaceFacts
  <2>5. a \in Worker /\ WillAsk(a) => WillAsk(a)'
    BY <2>4 DEF WillAsk
  <2> QED
    BY <2>1, <2>2, <2>3, <2>4, <2>5, WatchKept
<1> QED
  BY <1>1, <1>2

\* tickle() writes to the eventfd unless nobody is idle, and then somebody will ask.
LEMMA TickleWatch ==
    ASSUME TypeInv, StopInv, NEW a \in Actor, Tickle(a)
    PROVE  WatchInv'
<1>0. /\ pc[a] \in {"tickle", "picked"} /\ tickled' = (tickled \/ m_idleThreadCount > 0)
      /\ pc' = [pc EXCEPT ![a] = IF pc[a] = "tickle" THEN "user" ELSE "resume"]
      /\ idleTerm' = idleTerm
  BY DEF Tickle, Goto, epollVars
<1>1. CASE m_idleThreadCount > 0
  BY <1>0, <1>1 DEF WatchInv
<1>2. CASE ~(m_idleThreadCount > 0)
  <2>1. Idle = {}
    <3>1. Cardinality(Idle) = 0
      BY <1>2, CountsFinite, FS_CardinalityType DEF TypeInv, CountInv
    <3> QED
      BY <3>1, CountsFinite, FS_EmptySet
  <2>2. \E w \in Worker : ~idleTerm[w]
    <3>1. CASE a \in Worker
      <4>1. a \in Busy
        BY <1>0, <3>1, PlaceFacts DEF Busy
      <4> QED
        BY <4>1 DEF StopInv
    <3>2. CASE a = Main
      BY <1>0, <3>2, PlaceFacts DEF StopInv
    <3> QED
      BY <3>1, <3>2, PlaceFacts
  <2>3. PICK w \in Worker : ~idleTerm[w]
    BY <2>2
  <2>4. pc[w] \notin InIdle /\ pc[w] # "exited" /\ pc[w] \in InTask \cup InIdle \cup Between
    BY <2>1, <2>3 DEF Idle, StopInv, TypeInv, WorkInv
  <2>5. pc'[w] \in InTask \cup {"pick", "enterIdle"}
    BY <1>0, <2>4, PlaceFacts, LabelFacts
  <2>6. WillAsk(w)'
    BY <1>0, <2>3, <2>5 DEF WillAsk
  <2> QED
    BY <2>6 DEF WatchInv
<1> QED
  BY <1>1, <1>2

LEMMA UserWatch ==
    ASSUME TypeInv, StopInv, WatchInv, NEW a \in Actor, UserNext(a) \/ CallNext(a)
    PROVE  WatchInv'
<1>0. /\ idleTerm' = idleTerm /\ timeout' = timeout
      /\ pc' = pc \/ \E label \in InTask : Goto(a, label)
  BY UserEffect
<1>1. ASSUME pc[a] = "user", tickled' = tickled, m_timers' \subseteq m_timers, m_tickled' = m_tickled,
             \A t \in m_timers' : m_next'[t] \in Int /\ m_next'[t] >= m_next[t]
      PROVE  WatchInv'
  <2>1. ASSUME NEW w \in Worker, \A t \in m_timers : timeout[w] <= m_next[t]
        PROVE  \A t \in m_timers' : timeout[w] <= m_next'[t]
    <3>1. \A t \in m_timers' : m_next[t] \in Int /\ timeout[w] \in Int
      BY <1>1 DEF TypeInv, TimersInv, TimerTypeOK, EpollInv
    <3> QED
      BY <1>1, <2>1, <3>1
  <2>2. \/ pc' = pc
        \/ \E b \in Actor : /\ pc[b] \notin {"tickle", "epoll"}
                            /\ \A c \in Actor \ {b} : pc'[c] = pc[c]
                            /\ b \in Worker /\ WillAsk(b) => WillAsk(b)'
    <3>1. ASSUME NEW label \in InTask, Goto(a, label)
          PROVE  /\ \A c \in Actor \ {a} : pc'[c] = pc[c]
                 /\ a \in Worker /\ WillAsk(a) => WillAsk(a)'
      BY <1>0, <3>1, PlaceFacts DEF Goto, WillAsk
    <3>2. pc[a] \notin {"tickle", "epoll"}
      BY <1>1
    <3> QED
      BY <1>0, <3>1, <3>2
  <2> QED
    BY <1>0, <1>1, <2>1, <2>2, WatchKept
<1>2. ASSUME UNCHANGED timerVars, tickled' = tickled, pc[a] = "user" PROVE WatchInv'
  <2>1. \A t \in m_timers : m_next[t] \in Int
    BY DEF TypeInv, TimersInv, TimerTypeOK
  <2> QED
    BY <1>1, <1>2, <2>1 DEF timerVars
<1>3. ASSUME NEW fd \in Fd, NEW ev \in Event,
             \/ AddEventForFiber(a, fd, ev) \/ AddEventForCallback(a, fd, ev)
             \/ DelEvent(a, fd, ev) \/ CancelEvent(a, fd, ev)
      PROVE  WatchInv'
  BY <1>2, <1>3
     DEF AddEventForFiber, AddEventForCallback, DelEvent, CancelEvent, UserCall, queueVars
<1>4. ASSUME NEW fd \in Fd, CancelAll(a, fd) PROVE WatchInv'
  BY <1>2, <1>4 DEF CancelAll, UserCall
<1>5. ASSUME NEW t \in Timer,
             \/ UserCancelTimer(a, t) \/ UserRefreshTimer(a, t)
             \/ \E ms \in Period, fromNow \in BOOLEAN : UserResetTimer(a, t, ms, fromNow)
      PROVE  WatchInv'
  <2>1. /\ pc[a] = "user" /\ tickled' = tickled /\ m_tickled' = m_tickled
        /\ m_timers' \subseteq m_timers
        /\ m_next' = m_next \/ m_next' = [m_next EXCEPT ![t] = m_ms[t]]
    BY <1>5
       DEF UserCancelTimer, UserRefreshTimer, UserResetTimer, UserCall, CancelTimer, RefreshTimer,
           ResetTakesOut, timersOnly
  <2>2. \A u \in m_timers' : m_next'[u] \in Int /\ m_next'[u] >= m_next[u]
    BY <2>1 DEF TypeInv, TimersInv, TimerTypeOK
  <2> QED
    BY <1>1, <2>1, <2>2
<1>6. ASSUME NEW t \in Timer, NEW ms \in Period, UserAddTimer(a, t, ms) PROVE WatchInv'
  <2>1. PICK atFront \in BOOLEAN : AddTimer(t, ms, atFront) /\ ThenTickle(a, atFront)
    BY <1>6 DEF UserAddTimer
  <2>2. ms \in 0 .. MaxMs
    BY IOManagerAssumption DEF Period
  <2>3. pc[a] = "user" /\ tickled' = tickled
    BY <1>6 DEF UserAddTimer, UserCall, timersOnly
  <2>4. Insert(t, ms, atFront) /\ m_next' = [m_next EXCEPT ![t] = ms]
    BY <2>1 DEF AddTimer
  <2> QED
    BY <1>0, <2>1, <2>2, <2>3, <2>4, InsertWatch
<1>7. CASE UserResetEnds(a)
  <2>1. resetting[a] \in ResetArgs /\ pc[a] = "reset" /\ tickled' = tickled
    BY <1>7 DEF UserResetEnds, TypeInv, TimersInv, timersOnly
  <2>2. PICK t \in Timer, ms \in Period, fromNow \in BOOLEAN, atFront \in BOOLEAN :
           ResetPutsBack(t, ms, fromNow, atFront) /\ ThenTickle(a, atFront)
    BY <1>7, <2>1 DEF UserResetEnds, ResetArgs
  <2>3. m_next[t] \in 0 .. MaxMs /\ m_ms[t] \in 0 .. MaxMs /\ m_next[t] <= m_ms[t] /\ MaxMs \in Nat
    BY IOManagerAssumption DEF TypeInv, TimersInv, TimerTypeOK
  <2>4. PICK next : /\ next = IF fromNow THEN ms
                               ELSE IF m_next[t] - m_ms[t] + ms > 0
                                    THEN m_next[t] - m_ms[t] + ms ELSE 0
                    /\ Insert(t, next, atFront)
                    /\ m_next' = [m_next EXCEPT ![t] = next]
    BY <2>2 DEF ResetPutsBack
  <2>5. next \in 0 .. MaxMs
    BY <2>3, <2>4 DEF Period
  <2> QED
    BY <1>0, <2>1, <2>2, <2>4, <2>5, InsertWatch
<1> QED
  BY <1>3, <1>4, <1>5, <1>6, <1>7, TickleWatch DEF UserNext, CallNext

LEMMA MainWatch == ASSUME TypeInv, WatchInv, MainNext PROVE WatchInv'
<1>1. /\ idleTerm' = idleTerm /\ timeout' = timeout
      /\ m_timers' = m_timers /\ m_next' = m_next
      /\ pc[Main] \notin {"tickle", "epoll"}
  BY DEF MainNext, StopAsks, Stop, StopTickles, Join, Submit, QueryNextTimer, epollVars, timerVars
<1>2. tickled => tickled'
  BY DEF MainNext, StopAsks, Stop, StopTickles, Join, Submit
<1>3. m_tickled' => m_tickled
  BY DEF MainNext, StopAsks, Stop, StopTickles, Join, Submit, QueryNextTimer, timerVars
<1>4. \A b \in Actor \ {Main} : pc'[b] = pc[b]
  BY PlaceFacts DEF MainNext, StopAsks, Stop, StopTickles, Join, Submit, ThenTickle, Goto
<1>5. ASSUME NEW w \in Worker, \A t \in m_timers : timeout[w] <= m_next[t]
      PROVE  \A t \in m_timers' : timeout[w] <= m_next'[t]
  BY <1>1, <1>5
<1> QED
  BY <1>1, <1>2, <1>3, <1>4, <1>5, PlaceFacts, WatchKept

LEMMA RunWatch ==
    ASSUME TypeInv, WatchInv, NEW w \in Worker, RunNext(w)
    PROVE  WatchInv'
<1>1. /\ idleTerm' = idleTerm /\ timeout' = timeout /\ tickled' = tickled
      /\ m_timers' = m_timers /\ m_next' = m_next /\ m_tickled' = m_tickled
  BY DEF RunNext, Pick, PickNone, ResumeTask, LeaveTask, EnterIdle, runOnly, epollVars, timerVars
<1>2. /\ pc[w] \notin {"tickle", "epoll"}
      /\ \A b \in Actor \ {w} : pc'[b] = pc[b]
      /\ ~idleTerm[w] => pc'[w] \in InTask \cup {"pick", "enterIdle", "askTimers"}
  BY PlaceFacts DEF RunNext, Pick, PickNone, ResumeTask, LeaveTask, EnterIdle, Goto
<1>3. WillAsk(w) => WillAsk(w)'
  BY <1>1, <1>2 DEF WillAsk
<1> QED
  BY <1>1, <1>2, <1>3, PlaceFacts, WatchKept

LEMMA IdleWatch ==
    ASSUME TypeInv, StopInv, WatchInv, NEW w \in Worker, IdleNext(w)
    PROVE  WatchInv'
<1>0. pc[w] \in InIdle /\ ~idleTerm[w]
  <2>1. pc[w] \in InIdle
    BY LabelFacts
       DEF IdleNext, StoppingReadsTimers, StoppingReadsPending, StoppingReadsBase, Arm,
           EpollReturns, Expire, PostExpired, Drain, HandleReport, IdleYields
  <2> QED
    BY <2>1, PlaceFacts DEF StopInv
\* Wherever w will ask again, nobody else needs to.
<1>1. ASSUME idleTerm' = idleTerm,
             pc'[w] \in {"pick", "arm", "expire", "post", "events"}
      PROVE  WatchInv'
  <2>1. WillAsk(w)'
    BY <1>0, <1>1 DEF WillAsk
  <2> QED
    BY <2>1 DEF WatchInv
<1>2. CASE StoppingReadsTimers(w)
  <2>1. CASE m_timers = {}
    BY <1>2, <2>1 DEF StoppingReadsTimers, QueryNextTimer, WatchInv
  <2>2. CASE m_timers # {}
    BY <1>1, <1>2, <2>2, PlaceFacts DEF StoppingReadsTimers, Goto, epollVars
  <2> QED
    BY <2>1, <2>2
\* A worker that goes on to end its idle fiber found no timer; it is not the one who asks.
<1>3. CASE StoppingReadsPending(w)
  <2>1. /\ idleTerm' = idleTerm /\ timeout' = timeout /\ tickled' = tickled
        /\ m_timers' = m_timers /\ m_next' = m_next /\ m_tickled' = m_tickled
        /\ pc[w] = "askPending" /\ \A b \in Actor \ {w} : pc'[b] = pc[b]
    BY <1>3, PlaceFacts DEF StoppingReadsPending, Goto, epollVars, timerVars
  <2>2. ~WillAsk(w)
    BY <2>1, PlaceFacts DEF WillAsk
  <2> QED
    BY <2>1, <2>2, PlaceFacts, WatchKept
<1>4. CASE StoppingReadsBase(w)
  <2>1. /\ timeout' = timeout /\ tickled' = tickled
        /\ m_timers' = m_timers /\ m_next' = m_next /\ m_tickled' = m_tickled
        /\ pc[w] = "askBase" /\ \A b \in Actor \ {w} : pc'[b] = pc[b]
        /\ \A v \in Worker \ {w} : idleTerm'[v] = idleTerm[v]
    BY <1>4, PlaceFacts DEF StoppingReadsBase, Goto, timerVars, StopInv
  <2>2. ASSUME NEW v \in Worker, WillAsk(v) PROVE WillAsk(v)'
    <3>1. v # w
      BY <2>1, <2>2, PlaceFacts DEF WillAsk
    <3> QED
      BY <2>1, <2>2, <3>1, PlaceFacts DEF WillAsk
  <2>3. ASSUME NEW b \in Actor, pc[b] = "tickle" PROVE pc'[b] = "tickle"
    BY <2>1, <2>3
  <2> QED
    BY <2>1, <2>2, <2>3 DEF WatchInv
<1>5. CASE Arm(w)
  <2>1. /\ m_timers' = m_timers /\ m_next' = m_next /\ ~m_tickled' /\ idleTerm' = idleTerm
        /\ pc'[w] = "epoll" /\ timeout'[w] = Earliest(MaxTimeout)
    BY <1>5, PlaceFacts DEF Arm, QueryNextTimer, Goto, TypeInv, EpollInv
  <2>2. \A t \in m_timers : Earliest(MaxTimeout) <= m_next[t]
    <3>1. MaxTimeout \in Nat
      BY IOManagerAssumption
    <3> QED
      BY <3>1, EarliestFacts DEF TypeInv, TimersInv
  <2>3. WillAsk(w)'
    BY <1>0, <2>1, <2>2 DEF WillAsk
  <2> QED
    BY <2>3 DEF WatchInv
<1>6. CASE EpollReturns(w) \/ Expire(w) \/ (\E t \in Timer : PostExpired(w, t)) \/ IdleYields(w)
  BY <1>1, <1>6, PlaceFacts DEF EpollReturns, Expire, PostExpired, IdleYields, Goto, epollVars
<1>7. CASE Drain(w) \/ \E fd \in Fd : HandleReport(w, fd)
  BY <1>1, <1>7 DEF Drain, HandleReport, eventsOnly
<1> QED
  BY <1>2, <1>3, <1>4, <1>5, <1>6, <1>7 DEF IdleNext

LEMMA NextWatch == TypeInv /\ StopInv /\ WatchInv /\ [Next]_vars => WatchInv'
<1> SUFFICES ASSUME TypeInv, StopInv, WatchInv, [Next]_vars PROVE WatchInv'
  OBVIOUS
<1>1. ASSUME UNCHANGED timerVars, UNCHANGED <<tickled, pc, timeout, idleTerm>> PROVE WatchInv'
  <2>1. \A w \in Worker : WillAsk(w)' <=> WillAsk(w)
    BY <1>1 DEF WillAsk, timerVars
  <2> QED
    BY <1>1, <2>1 DEF WatchInv, timerVars
<1>2. ASSUME NEW fd \in Fd, NEW e \in Reports, EpollFinds(fd, e) PROVE WatchInv'
  BY <1>1, <1>2 DEF EpollFinds, epollVars
\* A tick counts down what is left of the waits and of the timers alike.
<1>3. CASE Tick
  <2>1. /\ m_timers' = m_timers /\ m_tickled' = m_tickled /\ tickled' = tickled /\ pc' = pc
        /\ idleTerm' = idleTerm
        /\ timeout' = [w \in Worker |-> IF timeout[w] > 0 THEN timeout[w] - 1 ELSE timeout[w]]
        /\ m_next' = [t \in Timer |-> IF m_next[t] > 0 THEN m_next[t] - 1 ELSE 0]
    BY <1>3 DEF Tick, TimersAge
  <2>2. ASSUME NEW w \in Worker, NEW t \in m_timers, timeout[w] <= m_next[t]
        PROVE  timeout'[w] <= m_next'[t]
    <3>1. timeout[w] \in Nat /\ m_next[t] \in Nat /\ t \in Timer
      BY DEF TypeInv, EpollInv, TimersInv, TimerTypeOK
    <3> QED
      BY <2>1, <2>2, <3>1
  <2>3. \A w \in Worker : WillAsk(w) => WillAsk(w)'
    BY <2>1, <2>2 DEF WillAsk
  <2> QED
    BY <2>1, <2>3 DEF WatchInv
<1>4. CASE UNCHANGED vars
  BY <1>1, <1>4 DEF vars, epollVars
<1> QED
  BY <1>2, <1>3, <1>4, UserWatch, MainWatch, RunWatch, IdleWatch DEF Next

LEMMA WatchInvariant == Spec => [](TypeInv /\ StopInv /\ WatchInv)
<1>1. Init => TypeInv /\ StopInv /\ WatchInv
  BY InitType, InitStop, InitWatch
<1>2. TypeInv /\ StopInv /\ WatchInv /\ [Next]_vars => (TypeInv /\ StopInv /\ WatchInv)'
  BY NextType, NextStop, NextWatch
<1> QED
  BY <1>1, <1>2, PTL DEF Spec

\* The first timer is not slept over, although addTimer saves its tickle when another was
\* sent before and although a tickle is dropped while nobody counts as idle: while there
\* is a timer, a worker will still ask for it, waits no longer than for it, or is woken.
THEOREM FirstTimerIsWatched == Spec => []FirstTimerWatched
<1>1. TypeInv /\ WatchInv => FirstTimerWatched
  <2> SUFFICES ASSUME TypeInv, WatchInv, m_timers # {}, ~tickled, ~\E a \in Actor : pc[a] = "tickle"
               PROVE  \E w \in Worker :
                         \/ pc[w] \notin {"epoll", "exited"}
                         \/ pc[w] = "epoll" /\ \A t \in m_timers : timeout[w] <= m_next[t]
    BY DEF FirstTimerWatched
  <2>1. PICK w \in Worker : WillAsk(w)
    BY DEF WatchInv
  <2> QED
    BY <2>1, PlaceFacts, LabelFacts DEF WillAsk
<1> QED
  BY <1>1, WatchInvariant, PTL

-----------------------------------------------------------------------------
(* The promise of timer.h.                                                 *)

Occurs(x, s) == \E i \in DOMAIN s : s[i] = x

LEMMA ConcatOccurs ==
    ASSUME NEW S, NEW s \in Seq(S), NEW r \in Seq(S), NEW x
    PROVE  Occurs(x, s \o r) <=> Occurs(x, s) \/ Occurs(x, r)
<1>0. /\ Len(s) \in Nat /\ Len(r) \in Nat /\ Len(s \o r) = Len(s) + Len(r)
      /\ DOMAIN s = 1 .. Len(s) /\ DOMAIN r = 1 .. Len(r) /\ DOMAIN (s \o r) = 1 .. Len(s) + Len(r)
  OBVIOUS
<1>1. \A i \in 1 .. Len(s) : (s \o r)[i] = s[i]
  BY <1>0
<1>2. \A i \in 1 .. Len(r) : (s \o r)[Len(s) + i] = r[i]
  BY <1>0
<1>3. ASSUME Occurs(x, s) PROVE Occurs(x, s \o r)
  <2>1. PICK i \in 1 .. Len(s) : s[i] = x
    BY <1>0, <1>3 DEF Occurs
  <2>2. i \in DOMAIN (s \o r) /\ (s \o r)[i] = x
    BY <1>0, <1>1, <2>1
  <2> QED
    BY <2>2 DEF Occurs
<1>4. ASSUME Occurs(x, r) PROVE Occurs(x, s \o r)
  <2>1. PICK i \in 1 .. Len(r) : r[i] = x
    BY <1>0, <1>4 DEF Occurs
  <2>2. Len(s) + i \in DOMAIN (s \o r) /\ (s \o r)[Len(s) + i] = x
    BY <1>0, <1>2, <2>1
  <2> QED
    BY <2>2 DEF Occurs
<1>5. ASSUME Occurs(x, s \o r) PROVE Occurs(x, s) \/ Occurs(x, r)
  <2>1. PICK k \in 1 .. Len(s) + Len(r) : (s \o r)[k] = x
    BY <1>0, <1>5 DEF Occurs
  <2>2. CASE k <= Len(s)
    <3>1. k \in DOMAIN s /\ s[k] = x
      BY <1>0, <1>1, <2>1, <2>2
    <3> QED
      BY <3>1 DEF Occurs
  <2>3. CASE k > Len(s)
    <3>1. k - Len(s) \in 1 .. Len(r) /\ Len(s) + (k - Len(s)) = k
      BY <1>0, <2>1, <2>3
    <3>2. k - Len(s) \in DOMAIN r /\ r[k - Len(s)] = x
      BY <1>0, <1>2, <2>1, <3>1
    <3> QED
      BY <3>2 DEF Occurs
  <2> QED
    BY <1>0, <2>1, <2>2, <2>3
<1> QED
  BY <1>3, <1>4, <1>5

LEMMA HeadOccurs ==
    ASSUME NEW S, NEW s \in Seq(S), s # <<>>, NEW x
    PROVE  Occurs(x, s) <=> Head(s) = x \/ Occurs(x, Tail(s))
<1>0. /\ Len(s) \in Nat \ {0} /\ DOMAIN s = 1 .. Len(s) /\ Head(s) = s[1]
      /\ DOMAIN Tail(s) = 1 .. Len(s) - 1
      /\ \A i \in 1 .. Len(s) - 1 : Tail(s)[i] = s[i + 1]
  OBVIOUS
<1>1. ASSUME Head(s) = x \/ Occurs(x, Tail(s)) PROVE Occurs(x, s)
  BY <1>0, <1>1 DEF Occurs
<1>2. ASSUME Occurs(x, s) PROVE Head(s) = x \/ Occurs(x, Tail(s))
  <2>1. PICK i \in 1 .. Len(s) : s[i] = x
    BY <1>0, <1>2 DEF Occurs
  <2>2. CASE i = 1
    BY <1>0, <2>1, <2>2
  <2>3. CASE i # 1
    <3>1. i - 1 \in 1 .. Len(s) - 1 /\ (i - 1) + 1 = i
      BY <1>0, <2>1, <2>3
    <3>2. Tail(s)[i - 1] = x
      BY <1>0, <2>1, <3>1
    <3> QED
      BY <1>0, <3>1, <3>2 DEF Occurs
  <2> QED
    BY <2>2, <2>3
<1> QED
  BY <1>1, <1>2

LEMMA HandlersOccur ==
    ASSUME NEW r \in Seq(Handler), NEW t \in Timer
    PROVE  ~Occurs(t, r)
<1>1. \A i \in DOMAIN r : r[i] \in Handler
  OBVIOUS
<1> QED
  BY <1>1, IOManagerAssumption DEF Occurs

\* Calls of user code put handlers into the queue, if anything, and take none out.
LEMMA UserQueues ==
    ASSUME TypeInv, NEW a \in Actor, UserNext(a) \/ CallNext(a)
    PROVE  /\ \E r \in Seq(Handler) : m_tasks' = m_tasks \o r
           /\ \A w \in Worker :
                 pc'[w] \in {"picked", "resume"} <=> pc[w] \in {"picked", "resume"}
<1>0. m_tasks \in Seq(Task) /\ pc \in [Actor -> Labels] /\ FdInv
  BY DEF TypeInv, WorkInv, TimersInv
<1>1. UNCHANGED m_tasks => \E r \in Seq(Handler) : m_tasks' = m_tasks \o r
  <2>1. m_tasks \o <<>> = m_tasks /\ <<>> \in Seq(Handler)
    BY <1>0
  <2> QED
    BY <2>1
<1>2. ASSUME UNCHANGED m_tasks,
             \/ pc' = pc
             \/ /\ pc[a] \in {"user", "tickle", "reset"}
                /\ \E label \in {"user", "yield", "tickle", "reset"} : Goto(a, label)
             \/ pc[a] = "picked" /\ Goto(a, "resume")
      PROVE  /\ \E r \in Seq(Handler) : m_tasks' = m_tasks \o r
             /\ \A w \in Worker :
                   pc'[w] \in {"picked", "resume"} <=> pc[w] \in {"picked", "resume"}
  BY <1>0, <1>1, <1>2, PlaceFacts DEF Goto
<1>3. ASSUME NEW fd \in Fd, NEW evs \in SUBSET events[fd], pc[a] = "user",
             Schedule(Handlers(fd, evs)), NEW need \in BOOLEAN, ThenTickle(a, need)
      PROVE  /\ \E r \in Seq(Handler) : m_tasks' = m_tasks \o r
             /\ \A w \in Worker :
                   pc'[w] \in {"picked", "resume"} <=> pc[w] \in {"picked", "resume"}
  <2>1. Handlers(fd, evs) \in Seq(Handler)
    BY <1>0, HandlersAreTasks
  <2>2. \E label \in {"user", "tickle"} : Goto(a, label)
    BY <1>3 DEF ThenTickle
  <2> QED
    BY <1>0, <1>3, <2>1, <2>2, PlaceFacts DEF Schedule, Goto
<1>4. ASSUME NEW fd \in Fd, NEW ev \in Event,
             AddEventForFiber(a, fd, ev) \/ AddEventForCallback(a, fd, ev) \/ DelEvent(a, fd, ev)
      PROVE  /\ UNCHANGED m_tasks
             /\ pc' = pc \/ (pc[a] = "user" /\ Goto(a, "yield"))
  <2>1. CASE AddEventForFiber(a, fd, ev)
    BY <2>1 DEF AddEventForFiber, UserCall, queueVars
  <2>2. CASE AddEventForCallback(a, fd, ev) \/ DelEvent(a, fd, ev)
    BY <2>2 DEF AddEventForCallback, DelEvent, queueVars
  <2> QED
    BY <1>4, <2>1, <2>2
<1>5. ASSUME NEW fd \in Fd, NEW ev \in Event, CancelEvent(a, fd, ev)
      PROVE  /\ \E r \in Seq(Handler) : m_tasks' = m_tasks \o r
             /\ \A w \in Worker :
                   pc'[w] \in {"picked", "resume"} <=> pc[w] \in {"picked", "resume"}
  <2>1. {ev} \in SUBSET events[fd] /\ pc[a] = "user" /\ Schedule(Handlers(fd, {ev}))
        /\ ThenTickle(a, m_tasks = <<>>)
    BY <1>5 DEF CancelEvent, RemoveEvent, UserCall
  <2> QED
    BY <1>3, <2>1
<1>6. ASSUME NEW fd \in Fd, CancelAll(a, fd)
      PROVE  /\ \E r \in Seq(Handler) : m_tasks' = m_tasks \o r
             /\ \A w \in Worker :
                   pc'[w] \in {"picked", "resume"} <=> pc[w] \in {"picked", "resume"}
  <2>1. pc[a] = "user" /\ Schedule(Handlers(fd, events[fd])) /\ ThenTickle(a, m_tasks = <<>>)
    BY <1>6 DEF CancelAll, UserCall
  <2> QED
    BY <1>3, <2>1
<1>7. ASSUME NEW t \in Timer,
             \/ UserCancelTimer(a, t) \/ UserRefreshTimer(a, t)
             \/ \E ms \in Period :
                   \/ UserAddTimer(a, t, ms)
                   \/ \E fromNow \in BOOLEAN : UserResetTimer(a, t, ms, fromNow)
      PROVE  /\ UNCHANGED m_tasks
             /\ \/ pc' = pc
                \/ pc[a] = "user" /\ \E label \in {"user", "tickle", "reset"} : Goto(a, label)
  BY <1>7 DEF UserCancelTimer, UserRefreshTimer, UserAddTimer, UserResetTimer, UserCall, ThenTickle,
              timersOnly, queueVars
<1>8. ASSUME CallNext(a)
      PROVE  /\ UNCHANGED m_tasks
             /\ \/ /\ pc[a] \in {"tickle", "reset"}
                   /\ \E label \in {"user", "tickle"} : Goto(a, label)
                \/ pc[a] = "picked" /\ Goto(a, "resume")
  BY <1>8 DEF CallNext, Tickle, UserResetEnds, ThenTickle, timersOnly, queueVars
<1> QED
  BY <1>2, <1>4, <1>5, <1>6, <1>7, <1>8 DEF UserNext

\* Only an armed timer has a callback to hand out; what is handed out was once armed; and
\* idle() holds callbacks only between listExpiredCb and scheduleLock.
ContractInv ==
    /\ \A t \in Timer : m_cb[t] => phase[t] = "armed"
    /\ \A t \in HandedOut : phase[t] # "free"
    /\ \A w \in Worker : cbs[w] # {} => pc[w] = "post"

InHand(t) == \E w \in Worker : task[w] = t /\ pc[w] \in {"picked", "resume"}

LEMMA HandedOutIs ==
    \A t : t \in HandedOut <=> /\ t \in Timer
                               /\ Occurs(t, m_tasks) \/ (\E w \in Worker : t \in cbs[w]) \/ InHand(t)
BY DEF HandedOut, Occurs, InHand

LEMMA InitContract == Init => ContractInv /\ Contract!ContractInit
<1> SUFFICES ASSUME Init PROVE ContractInv /\ Contract!ContractInit
  OBVIOUS
<1>1. \A t \in Timer : t \notin HandedOut
  <2>1. ASSUME NEW t \in Timer PROVE ~Occurs(t, m_tasks)
    BY DEF Init, Occurs
  <2>2. ASSUME NEW t \in Timer PROVE ~InHand(t)
    BY ActorFacts DEF Init, InHand
  <2>3. ASSUME NEW t \in Timer PROVE ~\E w \in Worker : t \in cbs[w]
    BY DEF Init
  <2> QED
    BY <2>1, <2>2, <2>3, HandedOutIs
<1>2. HandedOut = {}
  BY <1>1 DEF HandedOut
<1>3. phase \in [Timer -> {"free", "armed"}] /\ \A t \in Timer : m_cb[t] => phase[t] = "armed"
  BY DEF Init, TimerInit
<1>4. \A w \in Worker : cbs[w] = {}
  BY DEF Init
<1> QED
  BY <1>2, <1>3, <1>4 DEF ContractInv, Contract!ContractInit


LEMMA StepContract ==
    ASSUME TypeInv, ContractInv, HandedOut' = HandedOut,
           \A w \in Worker : cbs'[w] # {} => pc'[w] = "post",
           \/ UNCHANGED <<phase, m_cb>>
           \/ \E t \in Timer, ms \in Period, atFront \in BOOLEAN : AddTimer(t, ms, atFront)
           \/ \E t \in Timer : CancelTimer(t)
    PROVE  ContractInv' /\ [Contract!ContractNext]_(Contract!contractVars)
<1> USE DEF TypeInv, TimersInv, TimerTypeOK
<1>1. CASE UNCHANGED <<phase, m_cb>>
  BY <1>1 DEF ContractInv, Contract!contractVars
<1>2. ASSUME NEW t \in Timer, NEW ms \in Period, NEW atFront \in BOOLEAN, AddTimer(t, ms, atFront)
      PROVE  ContractInv' /\ [Contract!ContractNext]_(Contract!contractVars)
  <2>1. /\ phase[t] = "free" /\ phase' = [phase EXCEPT ![t] = "armed"]
        /\ m_cb' = [m_cb EXCEPT ![t] = TRUE]
    BY <1>2 DEF AddTimer
  <2>2. t \notin HandedOut
    BY <2>1 DEF ContractInv
  <2>3. Contract!ArmTimer(t)
    BY <2>1, <2>2 DEF Contract!ArmTimer
  <2>4. ContractInv'
    BY <2>1 DEF ContractInv, HandedOut
  <2> QED
    BY <2>3, <2>4 DEF Contract!ContractNext
<1>3. ASSUME NEW t \in Timer, CancelTimer(t)
      PROVE  ContractInv' /\ [Contract!ContractNext]_(Contract!contractVars)
  <2>1. /\ m_cb[t] /\ phase' = [phase EXCEPT ![t] = "over"]
        /\ m_cb' = [m_cb EXCEPT ![t] = FALSE]
    BY <1>3 DEF CancelTimer
  <2>2. Contract!CancelArmed(t)
    BY <2>1 DEF ContractInv, Contract!CancelArmed
  <2>3. ContractInv'
    BY <2>1 DEF ContractInv
  <2> QED
    BY <2>2, <2>3 DEF Contract!ContractNext
<1> QED
  BY <1>1, <1>2, <1>3

LEMMA SameHanded ==
    ASSUME \A t \in Timer : t \in HandedOut' <=> t \in HandedOut
    PROVE  HandedOut' = HandedOut
BY DEF HandedOut

\* Handlers in the queue are nothing to the timers.
LEMMA HandedKept ==
    ASSUME TypeInv, NEW r \in Seq(Handler), m_tasks' = m_tasks \o r, task' = task, cbs' = cbs,
           \A w \in Worker : pc'[w] \in {"picked", "resume"} <=> pc[w] \in {"picked", "resume"}
    PROVE  HandedOut' = HandedOut
<1>1. ASSUME NEW t \in Timer PROVE Occurs(t, m_tasks)' <=> Occurs(t, m_tasks)
  <2>1. m_tasks \in Seq(Task) /\ r \in Seq(Task)
    BY TaskFacts DEF TypeInv, WorkInv
  <2>2. Occurs(t, m_tasks \o r) <=> Occurs(t, m_tasks) \/ Occurs(t, r)
    BY <2>1, ConcatOccurs
  <2>3. ~Occurs(t, r)
    BY HandlersOccur
  <2>4. Occurs(t, m_tasks)' <=> Occurs(t, m_tasks \o r)
    BY DEF Occurs
  <2> QED
    BY <2>2, <2>3, <2>4
<1>2. ASSUME NEW t \in Timer PROVE InHand(t)' <=> InHand(t)
  BY DEF InHand
<1>3. ASSUME NEW t \in Timer PROVE t \in HandedOut' <=> t \in HandedOut
  BY <1>1, <1>2 DEF HandedOut, Occurs, InHand
<1> QED
  BY <1>3, SameHanded

LEMMA UserContract ==
    ASSUME TypeInv, ContractInv, NEW a \in Actor, UserNext(a) \/ CallNext(a)
    PROVE  ContractInv' /\ [Contract!ContractNext]_(Contract!contractVars)
<1>1. HandedOut' = HandedOut
  <2>1. PICK r \in Seq(Handler) : m_tasks' = m_tasks \o r
    BY UserQueues
  <2>2. \A w \in Worker : pc'[w] \in {"picked", "resume"} <=> pc[w] \in {"picked", "resume"}
    BY UserQueues
  <2>3. task' = task /\ cbs' = cbs
    BY UserEffect
  <2> QED
    BY <2>1, <2>2, <2>3, HandedKept
<1>2. \A w \in Worker : cbs'[w] # {} => pc'[w] = "post"
  <2>1. /\ cbs' = cbs /\ pc[a] # "post"
        /\ pc' = pc \/ \E label \in InTask : Goto(a, label)
    BY UserEffect
  <2> QED
    BY <2>1, PlaceFacts DEF ContractInv, Goto
<1>3. \/ UNCHANGED <<phase, m_cb>>
      \/ \E t \in Timer, ms \in Period, atFront \in BOOLEAN : AddTimer(t, ms, atFront)
      \/ \E t \in Timer : CancelTimer(t)
  <2>1. ASSUME NEW fd \in Fd, NEW ev \in Event,
               \/ AddEventForFiber(a, fd, ev) \/ AddEventForCallback(a, fd, ev)
               \/ DelEvent(a, fd, ev) \/ CancelEvent(a, fd, ev)
        PROVE  UNCHANGED <<phase, m_cb>>
    BY <2>1 DEF AddEventForFiber, AddEventForCallback, DelEvent, CancelEvent, timerVars
  <2>2. ASSUME NEW fd \in Fd, CancelAll(a, fd) PROVE UNCHANGED <<phase, m_cb>>
    BY <2>2 DEF CancelAll, timerVars
  <2>3. ASSUME NEW t \in Timer,
               \/ UserRefreshTimer(a, t)
               \/ \E ms \in Period, fromNow \in BOOLEAN : UserResetTimer(a, t, ms, fromNow)
        PROVE  UNCHANGED <<phase, m_cb>>
    BY <2>3 DEF UserRefreshTimer, UserResetTimer, RefreshTimer, ResetTakesOut
  <2>4. ASSUME NEW t \in Timer, UserCancelTimer(a, t) PROVE CancelTimer(t)
    BY <2>4 DEF UserCancelTimer
  <2>5. ASSUME NEW t \in Timer, NEW ms \in Period, UserAddTimer(a, t, ms)
        PROVE  \E atFront \in BOOLEAN : AddTimer(t, ms, atFront)
    BY <2>5 DEF UserAddTimer
  <2>6. ASSUME CallNext(a) PROVE UNCHANGED <<phase, m_cb>>
    BY <2>6 DEF CallNext, Tickle, UserResetEnds, ResetPutsBack, timerVars
  <2> QED
    BY <2>1, <2>2, <2>3, <2>4, <2>5, <2>6 DEF UserNext
<1> QED
  BY <1>1, <1>2, <1>3, StepContract

LEMMA MainContract ==
    ASSUME TypeInv, ContractInv, MainNext
    PROVE  ContractInv' /\ [Contract!ContractNext]_(Contract!contractVars)
<1>1. /\ task' = task /\ cbs' = cbs /\ \A w \in Worker : pc'[w] = pc[w]
  BY PlaceFacts
     DEF MainNext, StopAsks, Stop, StopTickles, Join, Submit, ThenTickle, Goto, epollVars
<1>2. UNCHANGED <<phase, m_cb>>
  BY DEF MainNext, StopAsks, Stop, StopTickles, Join, Submit, QueryNextTimer, timerVars
<1>3. PICK r \in Seq(Handler) : m_tasks' = m_tasks \o r
  <2>1. CASE UNCHANGED m_tasks
    <3>1. m_tasks \o <<>> = m_tasks /\ <<>> \in Seq(Handler)
      BY DEF TypeInv, WorkInv
    <3> QED
      BY <2>1, <3>1
  <2>2. ASSUME NEW f \in Fiber, Submit(f) PROVE \E r \in Seq(Handler) : m_tasks' = m_tasks \o r
    <3>1. <<f>> \in Seq(Handler)
      BY HandlerFacts
    <3> QED
      BY <2>2, <3>1 DEF Submit, Schedule
  <2> QED
    BY <2>1, <2>2 DEF MainNext, StopAsks, Stop, StopTickles, Join, queueVars
<1>4. HandedOut' = HandedOut
  BY <1>1, <1>3, HandedKept
<1>5. \A w \in Worker : cbs'[w] # {} => pc'[w] = "post"
  BY <1>1 DEF ContractInv
<1> QED
  BY <1>2, <1>4, <1>5, StepContract

LEMMA RunContract ==
    ASSUME TypeInv, ContractInv, NEW w \in Worker, RunNext(w)
    PROVE  ContractInv' /\ [Contract!ContractNext]_(Contract!contractVars)
<1>0. /\ cbs' = cbs /\ phase' = phase /\ m_cb' = m_cb
      /\ pc[w] \in InTask \cup {"pick", "enterIdle"} /\ pc[w] # "post"
      /\ \A v \in Worker \ {w} : pc'[v] = pc[v]
  BY PlaceFacts
     DEF RunNext, Pick, PickNone, ResumeTask, LeaveTask, EnterIdle, Goto, runOnly, epollVars,
         timerVars
<1>1. \A v \in Worker : cbs'[v] # {} => pc'[v] = "post"
  BY <1>0 DEF ContractInv
<1>2. ASSUME HandedOut' = HandedOut
      PROVE  ContractInv' /\ [Contract!ContractNext]_(Contract!contractVars)
  BY <1>0, <1>1, <1>2, StepContract
\* The head of the queue passes into the worker's hand.
<1>3. CASE Pick(w)
  <2>1. /\ m_tasks # <<>> /\ m_tasks \in Seq(Task) /\ pc[w] = "pick"
        /\ task' = [task EXCEPT ![w] = Head(m_tasks)] /\ m_tasks' = Tail(m_tasks)
        /\ pc'[w] \in {"picked", "resume"}
    BY <1>3, PlaceFacts DEF Pick, Goto, TypeInv, WorkInv
  <2>2. ASSUME NEW t \in Timer PROVE t \in HandedOut' <=> t \in HandedOut
    <3>1. Occurs(t, m_tasks) <=> Head(m_tasks) = t \/ Occurs(t, Tail(m_tasks))
      BY <2>1, HeadOccurs
    <3>2. Occurs(t, m_tasks)' <=> Occurs(t, Tail(m_tasks))
      BY <2>1 DEF Occurs
    <3>3. InHand(t)' <=> InHand(t) \/ Head(m_tasks) = t
      BY <1>0, <2>1, PlaceFacts DEF InHand
    <3> QED
      BY <1>0, <3>1, <3>2, <3>3 DEF HandedOut, Occurs, InHand
  <2> QED
    BY <1>2, <2>2, SameHanded
\* A callback begins to run, which ends its being handed out unless it is so once more.
<1>4. CASE ResumeTask(w)
  <2>1. pc[w] = "resume" /\ pc'[w] = "user" /\ task' = task /\ m_tasks' = m_tasks
    BY <1>4, PlaceFacts DEF ResumeTask, Goto
  <2>2. ASSUME NEW t \in Timer, t # task[w] PROVE t \in HandedOut' <=> t \in HandedOut
    BY <1>0, <2>1, <2>2 DEF HandedOut
  <2>3. task[w] \in Timer => task[w] \in HandedOut
    BY <2>1 DEF HandedOut
  <2>4. CASE task[w] \in Timer /\ task[w] \notin HandedOut'
    <3>1. HandedOut' = HandedOut \ {task[w]}
      BY <2>2, <2>4 DEF HandedOut
    <3>2. Contract!CallbackRuns(task[w])
      BY <1>0, <2>3, <2>4, <3>1 DEF Contract!CallbackRuns
    <3>3. ContractInv'
      BY <1>0, <1>1, <3>1 DEF ContractInv
    <3> QED
      BY <2>4, <3>2, <3>3 DEF Contract!ContractNext
  <2>5. CASE ~(task[w] \in Timer /\ task[w] \notin HandedOut')
    BY <1>2, <2>2, <2>3, <2>5, SameHanded
  <2> QED
    BY <2>4, <2>5
<1>5. CASE PickNone(w) \/ EnterIdle(w)
  <2>1. /\ task' = task /\ m_tasks' = m_tasks
        /\ pc[w] \notin {"picked", "resume"} /\ pc'[w] \notin {"picked", "resume"}
    BY <1>5, PlaceFacts DEF PickNone, EnterIdle, Goto
  <2> QED
    BY <1>0, <1>2, <2>1, SameHanded DEF HandedOut
<1>6. CASE LeaveTask(w)
  <2>1. /\ task' = [task EXCEPT ![w] = None] /\ m_tasks' = m_tasks
        /\ pc[w] \notin {"picked", "resume"} /\ pc'[w] \notin {"picked", "resume"}
    BY <1>6, PlaceFacts DEF LeaveTask, Goto
  <2>2. ASSUME NEW t \in Timer PROVE t \in HandedOut' <=> t \in HandedOut
    <3>1. InHand(t)' <=> InHand(t)
      BY <1>0, <2>1, PlaceFacts DEF InHand
    <3> QED
      BY <1>0, <2>1, <3>1 DEF HandedOut, InHand
  <2> QED
    BY <1>2, <2>2, SameHanded
<1> QED
  BY <1>3, <1>4, <1>5, <1>6 DEF RunNext

LEMMA IdleContract ==
    ASSUME TypeInv, ContractInv, NEW w \in Worker, IdleNext(w)
    PROVE  ContractInv' /\ [Contract!ContractNext]_(Contract!contractVars)
<1>0. /\ pc[w] \in InIdle /\ pc'[w] \in InIdle \cup {"pick"} /\ task' = task
      /\ \A v \in Worker \ {w} : pc'[v] = pc[v]
  BY IdleMoves
<1>1. \A v \in Worker : pc'[v] \in {"picked", "resume"} <=> pc[v] \in {"picked", "resume"}
  BY <1>0, PlaceFacts
<1>2. \A t \in Timer : InHand(t)' <=> InHand(t)
  BY <1>0, <1>1 DEF InHand
<1>3. ASSUME UNCHANGED <<phase, m_cb, cbs>>, pc[w] # "post",
             NEW r \in Seq(Handler), m_tasks' = m_tasks \o r
      PROVE  ContractInv' /\ [Contract!ContractNext]_(Contract!contractVars)
  <2>1. HandedOut' = HandedOut
    BY <1>0, <1>1, <1>3, HandedKept
  <2>2. \A v \in Worker : cbs'[v] # {} => pc'[v] = "post"
    BY <1>0, <1>3 DEF ContractInv
  <2> QED
    BY <1>3, <2>1, <2>2, StepContract
<1>4. CASE \/ StoppingReadsTimers(w) \/ StoppingReadsPending(w) \/ StoppingReadsBase(w)
           \/ Arm(w) \/ EpollReturns(w) \/ Drain(w) \/ IdleYields(w)
  <2>1. /\ UNCHANGED <<phase, m_cb>> /\ cbs' = cbs /\ m_tasks' = m_tasks /\ pc[w] # "post"
    BY <1>4
       DEF StoppingReadsTimers, StoppingReadsPending, StoppingReadsBase, Arm, EpollReturns, Drain,
           IdleYields, QueryNextTimer, timerVars, epollVars, eventsOnly
  <2>2. m_tasks \o <<>> = m_tasks /\ <<>> \in Seq(Handler)
    BY DEF TypeInv, WorkInv
  <2> QED
    BY <1>3, <2>1, <2>2
<1>5. ASSUME NEW fd \in Fd, HandleReport(w, fd)
      PROVE  ContractInv' /\ [Contract!ContractNext]_(Contract!contractVars)
  <2>1. UNCHANGED <<phase, m_cb>> /\ cbs' = cbs /\ pc[w] # "post"
    BY <1>5 DEF HandleReport, timerVars, eventsOnly
  <2>2. PICK r \in Seq(Handler) : m_tasks' = m_tasks \o r
    <3>1. CASE UNCHANGED m_tasks
      <4>1. m_tasks \o <<>> = m_tasks /\ <<>> \in Seq(Handler)
        BY DEF TypeInv, WorkInv
      <4> QED
        BY <3>1, <4>1
    <3>2. CASE /\ Dispatch(fd, batch[w][fd], TRUE, {})
               /\ IdleSchedules(Handlers(fd, RealEvents(fd, batch[w][fd])))
      <4>1. RealEvents(fd, batch[w][fd]) \in SUBSET events[fd]
        BY <3>2 DEF Dispatch
      <4>2. Handlers(fd, RealEvents(fd, batch[w][fd])) \in Seq(Handler)
        BY <4>1, HandlersAreTasks DEF TypeInv
      <4> QED
        BY <3>2, <4>2 DEF IdleSchedules, Schedule
    <3> QED
      BY <1>5, <3>1, <3>2 DEF HandleReport
  <2> QED
    BY <1>3, <2>1, <2>2
\* listExpiredCb: armed timers, whose callbacks are in the hands of the idle fiber now.
<1>6. CASE Expire(w)
  <2> DEFINE S == ExpiredCallbacks
  <2>1. /\ cbs' = [cbs EXCEPT ![w] = S] /\ cbs \in [Worker -> SUBSET Timer] /\ cbs[w] = {}
        /\ pc'[w] = (IF S = {} THEN "events" ELSE "post") /\ m_tasks' = m_tasks
        /\ phase' = [t \in Timer |-> IF t \in S \ Recurring THEN "over" ELSE phase[t]]
        /\ m_cb' = [t \in Timer |-> m_cb[t] /\ t \notin Expired \ Recurring]
    BY <1>6, PlaceFacts DEF Expire, ListExpired, Goto, ContractInv, TypeInv, WorkInv
  <2>2. S \in SUBSET Timer /\ S \subseteq Expired /\ \A t \in S : phase[t] = "armed"
    BY DEF ExpiredCallbacks, Expired, ContractInv, TypeInv, TimersInv, TimerTypeOK
  <2>3. ASSUME NEW t \in Timer PROVE t \in Expired /\ m_cb[t] <=> t \in S
    BY DEF ExpiredCallbacks
  <2> HIDE DEF S
  <2>4. ASSUME NEW t \in Timer
        PROVE  (\E v \in Worker : t \in cbs'[v]) <=> (\E v \in Worker : t \in cbs[v]) \/ t \in S
    BY <2>1
  <2>5. ASSUME NEW t \in Timer PROVE t \in HandedOut' <=> t \in HandedOut \cup S
    BY <1>2, <2>1, <2>4 DEF HandedOut, InHand
  <2>6. HandedOut' = HandedOut \cup S
    BY <2>2, <2>5 DEF HandedOut
  <2>7. ContractInv'
    <3>1. \A t \in Timer : m_cb'[t] => phase'[t] = "armed"
      BY <2>1, <2>3 DEF ContractInv
    <3>2. \A t \in HandedOut' : phase'[t] # "free"
      <4>1. \A t \in HandedOut \cup S : t \in Timer /\ phase[t] # "free"
        BY <2>2 DEF ContractInv, HandedOut
      <4> QED
        BY <2>1, <2>6, <4>1
    <3>3. \A v \in Worker : cbs'[v] # {} => pc'[v] = "post"
      BY <1>0, <2>1 DEF ContractInv
    <3> QED
      BY <3>1, <3>2, <3>3 DEF ContractInv
  <2>8. CASE S # {}
    <3>1. Contract!ExpireTimers(S)
      BY <2>1, <2>2, <2>6, <2>8 DEF Contract!ExpireTimers
    <3> QED
      BY <2>2, <2>7, <3>1 DEF Contract!ContractNext
  <2>9. CASE S = {}
    <3>1. phase' = phase
      BY <2>1, <2>9 DEF TypeInv, TimersInv, TimerTypeOK
    <3> QED
      BY <2>6, <2>7, <2>9, <3>1 DEF Contract!contractVars
  <2> QED
    BY <2>8, <2>9
\* One by one they pass into the queue.
<1>7. ASSUME NEW u \in Timer, PostExpired(w, u)
      PROVE  ContractInv' /\ [Contract!ContractNext]_(Contract!contractVars)
  <2>1. /\ u \in cbs[w] /\ m_tasks' = m_tasks \o <<u>>
        /\ cbs' = [cbs EXCEPT ![w] = @ \ {u}] /\ cbs \in [Worker -> SUBSET Timer]
        /\ UNCHANGED <<phase, m_cb>> /\ m_tasks \in Seq(Task)
    BY <1>7 DEF PostExpired, IdleSchedules, Schedule, timerVars, TypeInv, WorkInv
  <2>2. pc'[w] = (IF cbs[w] = {u} THEN "events" ELSE "post")
    BY <1>7, PlaceFacts DEF PostExpired, Goto
  <2>3. ASSUME NEW t \in Timer PROVE Occurs(t, m_tasks)' <=> Occurs(t, m_tasks) \/ t = u
    <3>1. <<u>> \in Seq(Task)
      BY TaskFacts
    <3>2. Occurs(t, m_tasks \o <<u>>) <=> Occurs(t, m_tasks) \/ Occurs(t, <<u>>)
      BY <2>1, <3>1, ConcatOccurs
    <3>3. Occurs(t, <<u>>) <=> t = u
      BY DEF Occurs
    <3>4. Occurs(t, m_tasks)' <=> Occurs(t, m_tasks \o <<u>>)
      BY <2>1 DEF Occurs
    <3> QED
      BY <3>2, <3>3, <3>4
  <2>4. ASSUME NEW t \in Timer, t # u
        PROVE  (\E v \in Worker : t \in cbs'[v]) <=> \E v \in Worker : t \in cbs[v]
    BY <2>1, <2>4
  <2>5. ASSUME NEW t \in Timer PROVE t \in HandedOut' <=> t \in HandedOut
    <3>1. CASE t = u
      BY <2>1, <2>3, <3>1 DEF HandedOut, Occurs
    <3>2. CASE t # u
      BY <1>2, <2>3, <2>4, <3>2 DEF HandedOut, Occurs, InHand
    <3> QED
      BY <3>1, <3>2
  <2>6. \A v \in Worker : cbs'[v] # {} => pc'[v] = "post"
    <3>1. cbs'[w] # {} => cbs[w] # {u}
      BY <2>1
    <3> QED
      BY <1>0, <2>1, <2>2, <3>1 DEF ContractInv
  <2> QED
    BY <2>1, <2>5, <2>6, SameHanded, StepContract
<1> QED
  BY <1>4, <1>5, <1>6, <1>7 DEF IdleNext

LEMMA NextContract ==
    TypeInv /\ ContractInv /\ [Next]_vars
        => ContractInv' /\ [Contract!ContractNext]_(Contract!contractVars)
<1> SUFFICES ASSUME TypeInv, ContractInv, [Next]_vars
             PROVE  ContractInv' /\ [Contract!ContractNext]_(Contract!contractVars)
  OBVIOUS
<1>1. ASSUME UNCHANGED <<phase, m_cb, m_tasks, task, cbs, pc>>
      PROVE  ContractInv' /\ [Contract!ContractNext]_(Contract!contractVars)
  <2>1. HandedOut' = HandedOut
    BY <1>1 DEF HandedOut
  <2> QED
    BY <1>1, <2>1, StepContract DEF ContractInv
<1>2. ASSUME NEW fd \in Fd, NEW e \in Reports, EpollFinds(fd, e)
      PROVE  ContractInv' /\ [Contract!ContractNext]_(Contract!contractVars)
  BY <1>1, <1>2 DEF EpollFinds, timerVars, queueVars, epollVars
<1>3. CASE Tick
  BY <1>1, <1>3 DEF Tick, queueVars
<1>4. CASE UNCHANGED vars
  BY <1>1, <1>4 DEF vars, timerVars, queueVars, epollVars
<1> QED
  BY <1>2, <1>3, <1>4, UserContract, MainContract, RunContract, IdleContract DEF Next

\* The timers keep the promise of timer.h, with any number of workers in idle() and of
\* calls of addTimer, cancel, refresh and reset between them: a callback is handed out only
\* while its timer is armed, once unless it recurs, and never after cancel() returned true.
THEOREM TimerContractKept == Spec => KeepsTimerContract
<1>1. Init => ContractInv /\ Contract!ContractInit
  BY InitContract
<1> QED
  BY <1>1, NextContract, TypeInvariant, PTL DEF Spec, KeepsTimerContract, Contract!ContractSpec

-----------------------------------------------------------------------------
(* One way back for each fiber.                                            *)

Indices(x, s) == {i \in DOMAIN s : s[i] = x}
Hands(f) == {w \in Worker : task[w] = f /\ pc[w] # "yield"}
Waits(f) == {r \in Fd \X Event : ctx[r[1]][r[2]] = f}

LEMMA IndicesFinite ==
    ASSUME NEW S, NEW s \in Seq(S), NEW x
    PROVE  IsFiniteSet(Indices(x, s)) /\ Cardinality(Indices(x, s)) \in Nat
<1>1. Len(s) \in Nat /\ DOMAIN s = 1 .. Len(s)
  OBVIOUS
<1>2. IsFiniteSet(1 .. Len(s))
  BY <1>1, FS_Interval
<1>3. Indices(x, s) \in SUBSET (1 .. Len(s))
  BY <1>1 DEF Indices
<1> QED
  BY <1>2, <1>3, FS_Subset, FS_CardinalityType

LEMMA PlacesAre ==
    ASSUME TypeInv, NEW f
    PROVE  /\ Places(f) = Cardinality(Indices(f, m_tasks)) + Cardinality(Hands(f))
                              + Cardinality(Waits(f))
           /\ IsFiniteSet(Hands(f)) /\ IsFiniteSet(Waits(f))
           /\ Cardinality(Indices(f, m_tasks)) \in Nat
           /\ Cardinality(Hands(f)) \in Nat /\ Cardinality(Waits(f)) \in Nat
<1>1. m_tasks \in Seq(Task)
  BY DEF TypeInv, WorkInv
<1>2. Hands(f) \in SUBSET Worker /\ Waits(f) \in SUBSET (Fd \X Event)
  BY DEF Hands, Waits
<1>3. IsFiniteSet(Fd \X Event)
  BY EventFacts, FS_Product, IOManagerAssumption
<1>4. IsFiniteSet(Hands(f)) /\ IsFiniteSet(Waits(f))
  BY <1>2, <1>3, FS_Subset, IOManagerAssumption
<1>5. Cardinality(Hands(f)) \in Nat /\ Cardinality(Waits(f)) \in Nat
  BY <1>4, FS_CardinalityType
<1>6. Cardinality(Indices(f, m_tasks)) \in Nat
  BY <1>1, IndicesFinite
<1>7. Places(f) = Cardinality(Indices(f, m_tasks)) + Cardinality(Hands(f)) + Cardinality(Waits(f))
  BY DEF Places, Indices, Hands, Waits
<1> QED
  BY <1>4, <1>5, <1>6, <1>7

LEMMA ConcatCount ==
    ASSUME NEW S, NEW s \in Seq(S), NEW r \in Seq(S), NEW x
    PROVE  Cardinality(Indices(x, s \o r)) = Cardinality(Indices(x, s)) + Cardinality(Indices(x, r))
<1> DEFINE A == Indices(x, s)
           B == Indices(x, r)
           C == {Len(s) + i : i \in B}
           g == [i \in B |-> Len(s) + i]
<1>0. /\ Len(s) \in Nat /\ Len(r) \in Nat /\ Len(s \o r) = Len(s) + Len(r)
      /\ DOMAIN s = 1 .. Len(s) /\ DOMAIN r = 1 .. Len(r) /\ DOMAIN (s \o r) = 1 .. Len(s) + Len(r)
  OBVIOUS
<1>1. /\ \A i \in 1 .. Len(s) : (s \o r)[i] = s[i]
      /\ \A i \in 1 .. Len(r) : (s \o r)[Len(s) + i] = r[i]
  BY <1>0
<1>2. A \subseteq 1 .. Len(s) /\ B \subseteq 1 .. Len(r)
  BY <1>0 DEF Indices
<1>3. Indices(x, s \o r) = A \cup C
  <2>1. ASSUME NEW k \in Indices(x, s \o r) PROVE k \in A \cup C
    <3>1. k \in 1 .. Len(s) + Len(r) /\ (s \o r)[k] = x
      BY <1>0 DEF Indices
    <3>2. CASE k <= Len(s)
      <4>1. k \in 1 .. Len(s) /\ s[k] = x
        BY <1>0, <1>1, <3>1, <3>2
      <4> QED
        BY <1>0, <4>1 DEF Indices
    <3>3. CASE k > Len(s)
      <4>1. k - Len(s) \in 1 .. Len(r) /\ Len(s) + (k - Len(s)) = k
        BY <1>0, <3>1, <3>3
      <4>2. r[k - Len(s)] = x
        BY <1>1, <3>1, <4>1
      <4>3. k - Len(s) \in B
        BY <1>0, <4>1, <4>2 DEF Indices
      <4> QED
        BY <4>1, <4>3
    <3> QED
      BY <1>0, <3>1, <3>2, <3>3
  <2>2. ASSUME NEW k \in A PROVE k \in Indices(x, s \o r)
    BY <1>0, <1>1, <2>2 DEF Indices
  <2>3. ASSUME NEW i \in B PROVE Len(s) + i \in Indices(x, s \o r)
    BY <1>0, <1>1, <2>3 DEF Indices
  <2> QED
    BY <2>1, <2>2, <2>3
<1>4. A \cap C = {}
  BY <1>0, <1>2
<1>5. IsFiniteSet(A) /\ IsFiniteSet(B) /\ Cardinality(A) \in Nat /\ Cardinality(B) \in Nat
  BY IndicesFinite
<1>6. g \in Bijection(B, C)
  <2>1. g \in [B -> C] /\ \A y \in C : \E i \in B : g[i] = y
    OBVIOUS
  <2>2. \A i, j \in B : g[i] = g[j] => i = j
    BY <1>0, <1>2
  <2> QED
    BY <2>1, <2>2 DEF Bijection, Injection, IsInjective, Surjection
<1>7. ExistsBijection(B, C)
  BY <1>6 DEF ExistsBijection
<1> HIDE DEF A, B, C, g
<1>8. IsFiniteSet(C) /\ Cardinality(C) = Cardinality(B)
  BY <1>5, <1>7, FS_Bijection
<1>9. Cardinality(A \cup C) = Cardinality(A) + Cardinality(C) - Cardinality(A \cap C)
  BY <1>5, <1>8, FS_Union
<1>10. Cardinality(A \cap C) = 0
  BY <1>4, FS_EmptySet
<1> QED
  BY <1>3, <1>5, <1>8, <1>9, <1>10 DEF A, B

LEMMA SingleCount ==
    ASSUME NEW x, NEW y
    PROVE  /\ Cardinality(Indices(x, <<y>>)) = IF x = y THEN 1 ELSE 0
           /\ Cardinality(Indices(x, <<>>)) = 0
<1>1. x = y => Indices(x, <<y>>) = {1}
  BY DEF Indices
<1>2. x # y => Indices(x, <<y>>) = {}
  BY DEF Indices
<1>3. Indices(x, <<>>) = {}
  BY DEF Indices
<1> QED
  BY <1>1, <1>2, <1>3, FS_Singleton, FS_EmptySet

LEMMA HeadCount ==
    ASSUME NEW S, NEW s \in Seq(S), s # <<>>, NEW x
    PROVE  Cardinality(Indices(x, s))
               = (IF Head(s) = x THEN 1 ELSE 0) + Cardinality(Indices(x, Tail(s)))
<1>1. s = <<Head(s)>> \o Tail(s) /\ <<Head(s)>> \in Seq(S) /\ Tail(s) \in Seq(S)
  OBVIOUS
<1>2. Cardinality(Indices(x, <<Head(s)>> \o Tail(s)))
         = Cardinality(Indices(x, <<Head(s)>>)) + Cardinality(Indices(x, Tail(s)))
  BY <1>1, ConcatCount
<1> QED
  BY <1>1, <1>2, SingleCount

\* The registrations evs end of f are as many as there are tasks made of them.
LEMMA HandlersCount ==
    ASSUME FdInv, NEW fd \in Fd, NEW evs \in SUBSET events[fd], NEW f \in Fiber,
           \A d \in Fd, e \in Event : ctx'[d][e] = IF d = fd /\ e \in evs THEN None ELSE ctx[d][e]
    PROVE  Cardinality(Waits(f))
               = Cardinality(Waits(f)') + Cardinality(Indices(f, Handlers(fd, evs)))
<1> DEFINE part(e) == IF e \in evs THEN <<ctx[fd][e]>> ELSE <<>>
           D(e) == {r \in {<<fd, e>>} : e \in evs /\ ctx[fd][e] = f}
<1>0. IsFiniteSet(Waits(f)) /\ IsFiniteSet(Waits(f)')
  <2>1. IsFiniteSet(Fd \X Event)
    BY EventFacts, FS_Product, IOManagerAssumption
  <2>2. Waits(f) \in SUBSET (Fd \X Event) /\ Waits(f)' \in SUBSET (Fd \X Event)
    BY DEF Waits
  <2> QED
    BY <2>1, <2>2, FS_Subset
<1>1. ASSUME NEW e \in Event
      PROVE  /\ part(e) \in Seq(Handler) /\ IsFiniteSet(D(e))
             /\ Cardinality(Indices(f, part(e))) = Cardinality(D(e))
             /\ Cardinality(D(e)) \in Nat
  <2>1. CASE e \in evs /\ ctx[fd][e] = f
    <3>1. part(e) = <<f>> /\ D(e) = {<<fd, e>>}
      BY <2>1
    <3>2. /\ Cardinality(Indices(f, <<f>>)) = 1
          /\ Cardinality({<<fd, e>>}) = 1 /\ IsFiniteSet({<<fd, e>>})
      BY SingleCount, FS_Singleton
    <3>3. <<f>> \in Seq(Handler)
      BY HandlerFacts
    <3> HIDE DEF part, D
    <3> QED
      BY <3>1, <3>2, <3>3
  <2>2. CASE ~(e \in evs /\ ctx[fd][e] = f)
    <3>1. D(e) = {}
      BY <2>2
    <3>2. part(e) \in Seq(Handler) /\ Cardinality(Indices(f, part(e))) = 0
      <4>1. CASE e \in evs
        <5>1. ctx[fd][e] \in Handler /\ ctx[fd][e] # f
          BY <2>2, <4>1 DEF FdInv
        <5>2. part(e) = <<ctx[fd][e]>>
          BY <4>1
        <5> QED
          BY <5>1, <5>2, SingleCount
      <4>2. CASE e \notin evs
        <5>1. part(e) = <<>>
          BY <4>2
        <5> QED
          BY <5>1, SingleCount
      <4> QED
        BY <4>1, <4>2
    <3>3. IsFiniteSet(D(e)) /\ Cardinality(D(e)) = 0
      BY <3>1, FS_EmptySet
    <3> HIDE DEF part, D
    <3> QED
      BY <3>2, <3>3
  <2> HIDE DEF part, D
  <2> QED
    BY <2>1, <2>2
<1>2. Handlers(fd, evs) = part(READ) \o part(WRITE)
  BY DEF Handlers
<1>3. /\ Waits(f)' \cap (D(READ) \cup D(WRITE)) = {}
      /\ Waits(f) = Waits(f)' \cup (D(READ) \cup D(WRITE))
  <2>1. \A r \in Fd \X Event : r \in D(READ) \cup D(WRITE)
                                  <=> r[1] = fd /\ r[2] \in evs /\ ctx[fd][r[2]] = f
    BY EventFacts
  <2>2. D(READ) \cup D(WRITE) \subseteq Fd \X Event
    BY EventFacts
  <2>3. \A r \in Fd \X Event : r \in Waits(f) <=> ctx[r[1]][r[2]] = f
    BY DEF Waits
  <2>4. \A r \in Fd \X Event : r \in Waits(f)'
                                  <=> ctx[r[1]][r[2]] = f /\ ~(r[1] = fd /\ r[2] \in evs)
    BY HandlerFacts DEF Waits
  <2>5. Waits(f) \subseteq Fd \X Event /\ Waits(f)' \subseteq Fd \X Event
    BY DEF Waits
  <2> HIDE DEF D
  <2> QED
    BY <2>1, <2>2, <2>3, <2>4, <2>5
<1>4. D(READ) \cap D(WRITE) = {}
  BY EventFacts
<1> HIDE DEF part, D
<1>5. Cardinality(Indices(f, Handlers(fd, evs))) = Cardinality(D(READ)) + Cardinality(D(WRITE))
  <2>1. /\ part(READ) \in Seq(Handler) /\ part(WRITE) \in Seq(Handler)
        /\ Cardinality(Indices(f, part(READ))) = Cardinality(D(READ))
        /\ Cardinality(Indices(f, part(WRITE))) = Cardinality(D(WRITE))
    BY <1>1, EventFacts
  <2>2. Cardinality(Indices(f, part(READ) \o part(WRITE)))
           = Cardinality(Indices(f, part(READ))) + Cardinality(Indices(f, part(WRITE)))
    BY <2>1, ConcatCount
  <2> QED
    BY <1>2, <2>1, <2>2
<1>6. /\ IsFiniteSet(D(READ) \cup D(WRITE))
      /\ Cardinality(D(READ) \cup D(WRITE)) = Cardinality(D(READ)) + Cardinality(D(WRITE))
  <2>1. /\ IsFiniteSet(D(READ)) /\ IsFiniteSet(D(WRITE))
        /\ Cardinality(D(READ)) \in Nat /\ Cardinality(D(WRITE)) \in Nat
    BY <1>1, EventFacts
  <2>2. /\ IsFiniteSet(D(READ) \cup D(WRITE))
        /\ Cardinality(D(READ) \cup D(WRITE))
              = Cardinality(D(READ)) + Cardinality(D(WRITE)) - Cardinality(D(READ) \cap D(WRITE))
    BY <2>1, FS_Union
  <2>3. Cardinality(D(READ) \cap D(WRITE)) = 0
    BY <1>4, FS_EmptySet
  <2> QED
    BY <2>1, <2>2, <2>3
<1>7. Cardinality(Waits(f)' \cup (D(READ) \cup D(WRITE)))
         = Cardinality(Waits(f)') + Cardinality(D(READ) \cup D(WRITE))
             - Cardinality(Waits(f)' \cap (D(READ) \cup D(WRITE)))
  BY <1>0, <1>6, FS_Union
<1>8. /\ Cardinality(Waits(f)') \in Nat /\ Cardinality(D(READ) \cup D(WRITE)) \in Nat
  BY <1>0, <1>6, FS_CardinalityType
<1>9. Cardinality(Waits(f)' \cap (D(READ) \cup D(WRITE))) = 0
  BY <1>3, FS_EmptySet
<1>10. Cardinality(Waits(f)) = Cardinality(Waits(f)' \cup (D(READ) \cup D(WRITE)))
  BY <1>3
<1> QED
  BY <1>5, <1>6, <1>7, <1>8, <1>9, <1>10

\* A fiber that runs does so on one worker, and is RUNNING until it has left its stack.
Runs(w) == task[w] \in Fiber /\ pc[w] \in {"user", "yield", "tickle", "reset"}

BackInv ==
    /\ OneWayBack
    /\ \A w \in Worker : Runs(w) => m_state[task[w]] = "RUNNING"
    /\ \A v, w \in Worker : Runs(v) /\ Runs(w) /\ task[v] = task[w] => v = w

LEMMA InitBack == Init => BackInv
<1> SUFFICES ASSUME Init PROVE BackInv
  OBVIOUS
<1>1. ASSUME NEW f \in Fiber PROVE Places(f) = 0
  <2>1. f # None
    BY TaskFacts
  <2>2. Indices(f, m_tasks) = {} /\ Hands(f) = {} /\ Waits(f) = {}
    BY <2>1 DEF Init, FdInit, Indices, Hands, Waits
  <2>3. Places(f) = Cardinality(Indices(f, m_tasks)) + Cardinality(Hands(f)) + Cardinality(Waits(f))
    BY DEF Places, Indices, Hands, Waits
  <2> QED
    BY <2>2, <2>3, FS_EmptySet
<1>2. OneWayBack
  BY <1>1 DEF OneWayBack, Init
<1>3. \A w \in Worker : ~Runs(w)
  BY TaskFacts DEF Init, Runs
<1> QED
  BY <1>2, <1>3 DEF BackInv

\* A step that moves fibers from one place to another.
LEMMA BackKept ==
    ASSUME TypeInv, BackInv, m_state' = m_state,
           \A f \in Fiber :
              Cardinality(Indices(f, m_tasks)') + Cardinality(Hands(f)') + Cardinality(Waits(f)')
                  = Cardinality(Indices(f, m_tasks)) + Cardinality(Hands(f)) + Cardinality(Waits(f)),
           \A w \in Worker : Runs(w)' => Runs(w) /\ task'[w] = task[w]
    PROVE  BackInv'
<1>1. ASSUME NEW f \in Fiber PROVE Places(f)' = Places(f)
  <2>1. Places(f)' = Cardinality(Indices(f, m_tasks)') + Cardinality(Hands(f)')
                         + Cardinality(Waits(f)')
    BY DEF Places, Indices, Hands, Waits
  <2> QED
    BY <2>1, PlacesAre
<1>2. OneWayBack'
  BY <1>1 DEF BackInv, OneWayBack
<1> QED
  BY <1>2 DEF BackInv

\* Nothing of a fiber's places changes when these do not.
LEMMA SamePlaces ==
    /\ UNCHANGED m_tasks => \A f : Indices(f, m_tasks)' = Indices(f, m_tasks)
    /\ UNCHANGED ctx => \A f : Waits(f)' = Waits(f)
    /\ (task' = task /\ \A w \in Worker : pc'[w] = "yield" <=> pc[w] = "yield")
          => \A f : Hands(f)' = Hands(f)
BY DEF Indices, Waits, Hands

\* What ends registrations and schedules their handlers: cancelEvent, cancelAll, idle().
LEMMA TriggerBack ==
    ASSUME TypeInv, NEW fd \in Fd, NEW evs \in SUBSET events[fd], Watch(fd, events[fd] \ evs, {}),
           Unregister(fd, evs), Schedule(Handlers(fd, evs)), NEW f \in Fiber
    PROVE  Cardinality(Indices(f, m_tasks)') + Cardinality(Waits(f)')
               = Cardinality(Indices(f, m_tasks)) + Cardinality(Waits(f))
<1>0. FdInv /\ m_tasks \in Seq(Task)
  BY DEF TypeInv, WorkInv
<1>1. \A d \in Fd, e \in Event : ctx'[d][e] = IF d = fd /\ e \in evs THEN None ELSE ctx[d][e]
  BY <1>0, UnregisterInv
<1>2. Cardinality(Waits(f))
          = Cardinality(Waits(f)') + Cardinality(Indices(f, Handlers(fd, evs)))
  BY <1>0, <1>1, HandlersCount
<1>3. Handlers(fd, evs) \in Seq(Task)
  BY <1>0, HandlersAreTasks
<1>4. Cardinality(Indices(f, m_tasks \o Handlers(fd, evs)))
          = Cardinality(Indices(f, m_tasks)) + Cardinality(Indices(f, Handlers(fd, evs)))
  BY <1>0, <1>3, ConcatCount
<1>5. Indices(f, m_tasks)' = Indices(f, m_tasks \o Handlers(fd, evs))
  BY DEF Schedule, Indices
<1>6. /\ Cardinality(Indices(f, m_tasks)) \in Nat
      /\ Cardinality(Indices(f, Handlers(fd, evs))) \in Nat
  BY <1>0, <1>3, IndicesFinite
<1>7. Cardinality(Waits(f)') \in Nat
  <2>1. IsFiniteSet(Fd \X Event)
    BY EventFacts, FS_Product, IOManagerAssumption
  <2>2. Waits(f)' \in SUBSET (Fd \X Event)
    BY DEF Waits
  <2> QED
    BY <2>1, <2>2, FS_Subset, FS_CardinalityType
<1> QED
  BY <1>2, <1>4, <1>5, <1>6, <1>7

LEMMA UserBack ==
    ASSUME TypeInv, BackInv, NEW a \in Actor, UserNext(a) \/ CallNext(a)
    PROVE  BackInv'
<1>0. /\ task' = task /\ m_state' = m_state
      /\ pc[a] \in {"user", "tickle", "picked", "reset"}
      /\ pc' = pc \/ \E label \in InTask : Goto(a, label)
  BY UserEffect
<1>1. ASSUME NEW w \in Worker PROVE Runs(w)' => Runs(w) /\ task'[w] = task[w]
  <2>1. pc'[w] \in {"picked", "resume"} <=> pc[w] \in {"picked", "resume"}
    BY UserQueues
  <2>2. w # a => pc'[w] = pc[w]
    BY <1>0, PlaceFacts DEF Goto
  <2> QED
    BY <1>0, <2>1, <2>2 DEF Runs
<1>2. ASSUME NEW label, pc' = pc \/ Goto(a, label), label # "yield", NEW f
      PROVE  Hands(f)' = Hands(f)
  <2>1. \A w \in Worker : pc'[w] = "yield" <=> pc[w] = "yield"
    BY <1>0, <1>2, PlaceFacts DEF Goto
  <2> QED
    BY <1>0, <2>1, SamePlaces
\* The fiber passes from the hand of its worker into the context.
<1>3. ASSUME NEW fd \in Fd, NEW ev \in Event, AddEventForFiber(a, fd, ev) PROVE BackInv'
  <2>1. /\ a \in Worker /\ pc[a] = "user" /\ pc' = [pc EXCEPT ![a] = "yield"]
        /\ task[a] \in Fiber /\ ctx' = [ctx EXCEPT ![fd][ev] = task[a]] /\ m_tasks' = m_tasks
        /\ ev \notin events[fd]
    BY <1>3 DEF AddEventForFiber, UserCall, AddEvent, Goto, queueVars
  <2>2. ctx[fd][ev] = None /\ ctx \in [Fd -> [Event -> Handler \cup {None}]]
    BY <2>1 DEF TypeInv, FdInv
  <2>3. ASSUME NEW f \in Fiber
        PROVE  Cardinality(Indices(f, m_tasks)') + Cardinality(Hands(f)') + Cardinality(Waits(f)')
                = Cardinality(Indices(f, m_tasks)) + Cardinality(Hands(f)) + Cardinality(Waits(f))
    <3>1. Indices(f, m_tasks)' = Indices(f, m_tasks)
      BY <2>1, SamePlaces
    <3>2. CASE f = task[a]
      <4>1. Hands(f)' = Hands(f) \ {a} /\ a \in Hands(f)
        BY <1>0, <2>1, <3>2, PlaceFacts DEF Hands
      <4>2. Waits(f)' = Waits(f) \cup {<<fd, ev>>} /\ <<fd, ev>> \notin Waits(f)
        BY <2>1, <2>2, <3>2, TaskFacts DEF Waits
      <4>3. /\ IsFiniteSet(Hands(f)) /\ IsFiniteSet(Waits(f))
            /\ Cardinality(Hands(f)) \in Nat /\ Cardinality(Waits(f)) \in Nat
            /\ Cardinality(Indices(f, m_tasks)) \in Nat
        BY PlacesAre
      <4>4. Cardinality(Hands(f)') = Cardinality(Hands(f)) - 1
        BY <4>1, <4>3, FS_RemoveElement
      <4>5. Cardinality(Waits(f)') = Cardinality(Waits(f)) + 1
        BY <4>2, <4>3, FS_AddElement
      <4> QED
        BY <3>1, <4>3, <4>4, <4>5
    <3>3. CASE f # task[a]
      <4>1. Hands(f)' = Hands(f)
        BY <1>0, <2>1, <3>3, PlaceFacts DEF Hands
      <4>2. Waits(f)' = Waits(f)
        BY <2>1, <2>2, <3>3, TaskFacts DEF Waits
      <4> QED
        BY <3>1, <4>1, <4>2
    <3> QED
      BY <3>2, <3>3
  <2> QED
    BY <1>0, <1>1, <2>3, BackKept
<1>4. ASSUME NEW fd \in Fd, NEW ev \in Event, AddEventForCallback(a, fd, ev) \/ DelEvent(a, fd, ev)
      PROVE  BackInv'
  <2>1. /\ pc' = pc /\ m_tasks' = m_tasks /\ ev \in Event /\ fd \in Fd
        /\ ctx \in [Fd -> [Event -> Handler \cup {None}]]
    BY <1>4 DEF AddEventForCallback, DelEvent, queueVars, TypeInv, FdInv
  <2>2. ASSUME NEW f \in Fiber PROVE Waits(f)' = Waits(f)
    <3>1. f # Callback /\ f # None
      BY TaskFacts
    <3>2. CASE AddEventForCallback(a, fd, ev)
      <4>1. ev \notin events[fd] /\ ctx' = [ctx EXCEPT ![fd][ev] = Callback]
        BY <3>2 DEF AddEventForCallback, AddEvent
      <4>2. ctx[fd][ev] = None
        BY <4>1 DEF TypeInv, FdInv
      <4> QED
        BY <2>1, <3>1, <4>1, <4>2 DEF Waits
    <3>3. CASE DelEvent(a, fd, ev)
      <4>1. ctx[fd][ev] = Callback /\ Watch(fd, events[fd] \ {ev}, {}) /\ Unregister(fd, {ev})
            /\ {ev} \in SUBSET events[fd]
        BY <3>3 DEF DelEvent, RemoveEvent
      <4>2. \A d \in Fd, e \in Event :
               ctx'[d][e] = IF d = fd /\ e \in {ev} THEN None ELSE ctx[d][e]
        BY <4>1, UnregisterInv DEF TypeInv
      <4> QED
        BY <3>1, <4>1, <4>2 DEF Waits
    <3> QED
      BY <1>4, <3>2, <3>3
  <2>3. ASSUME NEW f \in Fiber
        PROVE  Indices(f, m_tasks)' = Indices(f, m_tasks) /\ Hands(f)' = Hands(f)
    BY <1>0, <2>1, SamePlaces
  <2> QED
    BY <1>0, <1>1, <2>2, <2>3, BackKept
\* From the context into the queue.
<1>5. ASSUME NEW fd \in Fd, NEW evs \in SUBSET events[fd], Watch(fd, events[fd] \ evs, {}),
             Unregister(fd, evs), Schedule(Handlers(fd, evs)), NEW need \in BOOLEAN,
             ThenTickle(a, need)
      PROVE  BackInv'
  <2>1. ASSUME NEW f \in Fiber
        PROVE  Cardinality(Indices(f, m_tasks)') + Cardinality(Hands(f)') + Cardinality(Waits(f)')
                = Cardinality(Indices(f, m_tasks)) + Cardinality(Hands(f)) + Cardinality(Waits(f))
    <3>1. Cardinality(Indices(f, m_tasks)') + Cardinality(Waits(f)')
              = Cardinality(Indices(f, m_tasks)) + Cardinality(Waits(f))
      BY <1>5, TriggerBack
    <3>2. Hands(f)' = Hands(f)
      BY <1>2, <1>5 DEF ThenTickle
    <3>3. /\ Cardinality(Indices(f, m_tasks)) \in Nat /\ Cardinality(Hands(f)) \in Nat
          /\ Cardinality(Waits(f)) \in Nat
      BY PlacesAre
    <3>4. Cardinality(Indices(f, m_tasks)') \in Nat /\ Cardinality(Waits(f)') \in Nat
      <4>1. m_tasks' \in Seq(Task)
        BY <1>5, HandlersAreTasks, ScheduleFacts DEF TypeInv, WorkInv
      <4>2. Indices(f, m_tasks)' = Indices(f, m_tasks')
        BY DEF Indices
      <4>3. IsFiniteSet(Fd \X Event)
        BY EventFacts, FS_Product, IOManagerAssumption
      <4>4. Waits(f)' \in SUBSET (Fd \X Event)
        BY DEF Waits
      <4>5. Cardinality(Indices(f, m_tasks')) \in Nat
        BY <4>1, IndicesFinite
      <4> QED
        BY <4>2, <4>3, <4>4, <4>5, FS_Subset, FS_CardinalityType
    <3> QED
      BY <3>1, <3>2, <3>3, <3>4
  <2> QED
    BY <1>0, <1>1, <2>1, BackKept
<1>6. ASSUME NEW fd \in Fd, NEW ev \in Event, CancelEvent(a, fd, ev) PROVE BackInv'
  <2>1. /\ {ev} \in SUBSET events[fd] /\ Watch(fd, events[fd] \ {ev}, {}) /\ Unregister(fd, {ev})
        /\ Schedule(Handlers(fd, {ev})) /\ ThenTickle(a, m_tasks = <<>>)
    BY <1>6 DEF CancelEvent, RemoveEvent
  <2> QED
    BY <1>5, <2>1
<1>7. ASSUME NEW fd \in Fd, CancelAll(a, fd) PROVE BackInv'
  <2>1. /\ Watch(fd, {}, {}) /\ Unregister(fd, events[fd])
        /\ Schedule(Handlers(fd, events[fd])) /\ ThenTickle(a, m_tasks = <<>>)
    BY <1>7 DEF CancelAll, RemoveAll
  <2>2. events[fd] \ events[fd] = {} /\ events[fd] \in SUBSET events[fd]
    OBVIOUS
  <2> QED
    BY <1>5, <2>1, <2>2
<1>8. ASSUME NEW t \in Timer,
             \/ UserCancelTimer(a, t) \/ UserRefreshTimer(a, t)
             \/ \E ms \in Period :
                   \/ UserAddTimer(a, t, ms)
                   \/ \E fromNow \in BOOLEAN : UserResetTimer(a, t, ms, fromNow)
      PROVE  /\ UNCHANGED <<m_tasks, ctx>>
             /\ pc' = pc \/ \E label \in {"user", "tickle", "reset"} : Goto(a, label)
  BY <1>8 DEF UserCancelTimer, UserRefreshTimer, UserAddTimer, UserResetTimer, ThenTickle, timersOnly,
              queueVars, fdVars
<1>9. ASSUME CallNext(a)
      PROVE  /\ UNCHANGED <<m_tasks, ctx>>
             /\ pc' = pc \/ \E label \in {"user", "tickle", "resume"} : Goto(a, label)
  BY <1>9 DEF CallNext, Tickle, UserResetEnds, ThenTickle, timersOnly, queueVars, fdVars
<1>10. ASSUME m_tasks' = m_tasks, ctx' = ctx,
              pc' = pc \/ \E label \in {"user", "tickle", "resume", "reset"} : Goto(a, label)
       PROVE  BackInv'
  <2>1. ASSUME NEW f \in Fiber
        PROVE  /\ Indices(f, m_tasks)' = Indices(f, m_tasks) /\ Waits(f)' = Waits(f)
               /\ Hands(f)' = Hands(f)
    BY <1>0, <1>2, <1>10, SamePlaces
  <2> QED
    BY <1>0, <1>1, <2>1, BackKept
<1> QED
  BY <1>3, <1>4, <1>6, <1>7, <1>8, <1>9, <1>10 DEF UserNext

LEMMA MainBack == ASSUME TypeInv, BackInv, MainNext PROVE BackInv'
<1>0. /\ task' = task /\ ctx' = ctx
      /\ \A w \in Worker : pc'[w] = pc[w]
  BY PlaceFacts
     DEF MainNext, StopAsks, Stop, StopTickles, Join, Submit, ThenTickle, Goto, fdVars
<1>1. /\ \A f : Hands(f)' = Hands(f) /\ Waits(f)' = Waits(f)
      /\ \A w \in Worker : Runs(w)' <=> Runs(w)
  BY <1>0, SamePlaces DEF Runs
<1>2. CASE UNCHANGED <<m_tasks, m_state>>
  <2>1. \A f : Indices(f, m_tasks)' = Indices(f, m_tasks)
    BY <1>2, SamePlaces
  <2> QED
    BY <1>0, <1>1, <1>2, <2>1, BackKept
\* A new fiber has a task, and nobody else knows of it.
<1>3. ASSUME NEW f \in Fiber, Submit(f) PROVE BackInv'
  <2>1. /\ m_state[f] = "NONE" /\ m_state' = [m_state EXCEPT ![f] = "READY"]
        /\ m_tasks' = m_tasks \o <<f>> /\ m_tasks \in Seq(Task) /\ <<f>> \in Seq(Task)
        /\ m_state \in [Fiber -> {"NONE", "READY", "RUNNING", "TERM"}]
    BY <1>3, TaskFacts DEF Submit, Schedule, TypeInv, WorkInv
  <2>2. ASSUME NEW g \in Fiber PROVE Places(g)' = Places(g) + (IF g = f THEN 1 ELSE 0)
    <3>1. Indices(g, m_tasks)' = Indices(g, m_tasks \o <<f>>)
      BY <2>1 DEF Indices
    <3>2. Cardinality(Indices(g, m_tasks)')
             = Cardinality(Indices(g, m_tasks)) + Cardinality(Indices(g, <<f>>))
      BY <2>1, <3>1, ConcatCount
    <3>3. Places(g)' = Cardinality(Indices(g, m_tasks)') + Cardinality(Hands(g))
                           + Cardinality(Waits(g))
      BY <1>1 DEF Places, Indices, Hands, Waits
    <3>4. /\ Places(g) = Cardinality(Indices(g, m_tasks)) + Cardinality(Hands(g))
                             + Cardinality(Waits(g))
          /\ Cardinality(Indices(g, m_tasks)) \in Nat /\ Cardinality(Hands(g)) \in Nat
          /\ Cardinality(Waits(g)) \in Nat
      BY PlacesAre
    <3>5. Cardinality(Indices(g, <<f>>)) = IF g = f THEN 1 ELSE 0
      BY SingleCount
    <3> QED
      BY <3>2, <3>3, <3>4, <3>5
  <2>3. Places(f) = 0
    BY <2>1 DEF BackInv, OneWayBack
  <2>4. OneWayBack'
    <3>1. ASSUME NEW g \in Fiber
          PROVE  Places(g)' = IF m_state'[g] \in {"NONE", "TERM"} THEN 0 ELSE 1
      <4>1. CASE g = f
        BY <2>1, <2>2, <2>3, <4>1
      <4>2. CASE g # f
        <5>1. Places(g) = IF m_state[g] \in {"NONE", "TERM"} THEN 0 ELSE 1
          BY DEF BackInv, OneWayBack
        <5> QED
          BY <2>1, <2>2, <4>2, <5>1
      <4> QED
        BY <4>1, <4>2
    <3> QED
      BY <3>1 DEF OneWayBack
  <2> QED
    BY <1>0, <1>1, <2>1, <2>4 DEF BackInv, Runs
<1> QED
  BY <1>2, <1>3 DEF MainNext, StopAsks, Stop, StopTickles, Join, queueVars

LEMMA RunBack == ASSUME TypeInv, BackInv, NEW w \in Worker, RunNext(w) PROVE BackInv'
<1>0. /\ ctx' = ctx /\ \A v \in Worker \ {w} : pc'[v] = pc[v]
      /\ m_state \in [Fiber -> {"NONE", "READY", "RUNNING", "TERM"}]
  BY PlaceFacts
     DEF RunNext, Pick, PickNone, ResumeTask, LeaveTask, EnterIdle, Goto, runOnly, fdVars, TypeInv,
         WorkInv
<1>1. \A f : Waits(f)' = Waits(f)
  BY <1>0, SamePlaces
\* From the queue into the hand.
<1>2. CASE Pick(w)
  <2>1. /\ pc[w] = "pick" /\ pc'[w] \in {"picked", "resume"} /\ task[w] = None
        /\ m_tasks # <<>> /\ m_tasks \in Seq(Task)
        /\ task' = [task EXCEPT ![w] = Head(m_tasks)] /\ m_tasks' = Tail(m_tasks)
        /\ m_state' = m_state
    BY <1>2, PlaceFacts DEF Pick, Goto, TypeInv, WorkInv
  <2>2. ASSUME NEW f \in Fiber
        PROVE  Cardinality(Indices(f, m_tasks)') + Cardinality(Hands(f)') + Cardinality(Waits(f)')
                = Cardinality(Indices(f, m_tasks)) + Cardinality(Hands(f)) + Cardinality(Waits(f))
    <3>1. Cardinality(Indices(f, m_tasks))
             = (IF Head(m_tasks) = f THEN 1 ELSE 0) + Cardinality(Indices(f, Tail(m_tasks)))
      BY <2>1, HeadCount
    <3>2. Indices(f, m_tasks)' = Indices(f, Tail(m_tasks))
      BY <2>1 DEF Indices
    <3>3. w \notin Hands(f)
      BY <2>1, TaskFacts DEF Hands
    <3>4. Hands(f)' = IF Head(m_tasks) = f THEN Hands(f) \cup {w} ELSE Hands(f)
      BY <1>0, <2>1, <3>3, PlaceFacts DEF Hands
    <3>5. /\ IsFiniteSet(Hands(f)) /\ Cardinality(Hands(f)) \in Nat
          /\ Cardinality(Waits(f)) \in Nat
      BY PlacesAre
    <3>6. Cardinality(Hands(f)') = Cardinality(Hands(f)) + (IF Head(m_tasks) = f THEN 1 ELSE 0)
      <4>1. Cardinality(Hands(f) \cup {w}) = Cardinality(Hands(f)) + 1
        BY <3>3, <3>5, FS_AddElement
      <4>2. CASE Head(m_tasks) = f
        BY <3>4, <4>1, <4>2
      <4>3. CASE Head(m_tasks) # f
        BY <3>4, <3>5, <4>3
      <4> QED
        BY <4>2, <4>3
    <3>7. Cardinality(Indices(f, Tail(m_tasks))) \in Nat
      <4>1. Tail(m_tasks) \in Seq(Task)
        BY <2>1
      <4> QED
        BY <4>1, IndicesFinite
    <3> QED
      BY <1>1, <3>1, <3>2, <3>5, <3>6, <3>7
  <2>3. ASSUME NEW v \in Worker PROVE Runs(v)' => Runs(v) /\ task'[v] = task[v]
    BY <1>0, <2>1, PlaceFacts DEF Runs
  <2> QED
    BY <2>1, <2>2, <2>3, BackKept
<1>3. ASSUME task' = task, m_tasks' = m_tasks, pc[w] # "yield", pc'[w] # "yield", NEW f
      PROVE  Hands(f)' = Hands(f) /\ Indices(f, m_tasks)' = Indices(f, m_tasks)
  BY <1>0, <1>3, SamePlaces
<1>4. CASE PickNone(w) \/ EnterIdle(w)
  <2>1. /\ task' = task /\ m_tasks' = m_tasks /\ m_state' = m_state
        /\ pc[w] # "yield" /\ pc'[w] \in {"exited", "enterIdle", "askTimers"}
    BY <1>4, PlaceFacts DEF PickNone, EnterIdle, Goto
  <2>2. \A f : Hands(f)' = Hands(f) /\ Indices(f, m_tasks)' = Indices(f, m_tasks)
    BY <1>3, <2>1
  <2>3. \A v \in Worker : Runs(v)' => Runs(v) /\ task'[v] = task[v]
    BY <1>0, <2>1 DEF Runs
  <2> QED
    BY <1>1, <2>1, <2>2, <2>3, BackKept
\* Resumed once it is READY: nobody else runs it then.
<1>5. CASE ResumeTask(w)
  <2>1. /\ task' = task /\ m_tasks' = m_tasks /\ pc[w] = "resume" /\ pc'[w] = "user"
    BY <1>5, PlaceFacts DEF ResumeTask, Goto
  <2>2. ASSUME NEW f \in Fiber PROVE Places(f)' = Places(f)
    <3>1. Hands(f)' = Hands(f) /\ Indices(f, m_tasks)' = Indices(f, m_tasks)
      BY <1>3, <2>1
    <3> QED
      BY <1>1, <3>1 DEF Places, Indices, Hands, Waits
  <2>3. CASE task[w] \in Fiber
    <3>1. m_state[task[w]] = "READY" /\ m_state' = [m_state EXCEPT ![task[w]] = "RUNNING"]
      BY <1>5, <2>3 DEF ResumeTask
    <3>2. ASSUME NEW v \in Worker, Runs(v) PROVE task[v] # task[w] /\ v # w
      BY <3>1, <3>2 DEF BackInv
    <3>3. ASSUME NEW f \in Fiber
          PROVE  Places(f)' = IF m_state'[f] \in {"NONE", "TERM"} THEN 0 ELSE 1
      <4>1. Places(f) = IF m_state[f] \in {"NONE", "TERM"} THEN 0 ELSE 1
        BY DEF BackInv, OneWayBack
      <4> QED
        BY <1>0, <2>2, <3>1, <4>1
    <3>4. OneWayBack'
      BY <3>3 DEF OneWayBack
    <3>5. \A v \in Worker \ {w} : Runs(v)' <=> Runs(v)
      BY <1>0, <2>1 DEF Runs
    <3>6. \A v \in Worker : Runs(v)' => m_state'[task'[v]] = "RUNNING"
      BY <1>0, <2>1, <3>1, <3>2, <3>5 DEF BackInv, Runs
    <3>7. \A u, v \in Worker : Runs(u)' /\ Runs(v)' /\ task'[u] = task'[v] => u = v
      BY <2>1, <3>2, <3>5 DEF BackInv
    <3> QED
      BY <3>4, <3>6, <3>7 DEF BackInv
  <2>4. CASE task[w] \notin Fiber
    <3>1. m_state' = m_state
      BY <1>5, <2>4 DEF ResumeTask
    <3>2. \A v \in Worker : Runs(v)' <=> Runs(v)
      BY <1>0, <2>1, <2>4 DEF Runs
    <3> QED
      BY <2>1, <2>2, <3>1, <3>2 DEF BackInv, OneWayBack
  <2> QED
    BY <2>3, <2>4
\* A fiber that yields has its way back elsewhere; one that ends has none any more.
<1>6. CASE LeaveTask(w)
  <2>1. /\ pc[w] \in {"yield", "user"} /\ pc'[w] = "pick"
        /\ task' = [task EXCEPT ![w] = None] /\ m_tasks' = m_tasks
    BY <1>6, PlaceFacts DEF LeaveTask, Goto
  <2>2. \A f : Indices(f, m_tasks)' = Indices(f, m_tasks)
    BY <2>1, SamePlaces
  <2>3. \A v \in Worker : Runs(v)' <=> Runs(v) /\ v # w
    BY <1>0, <2>1, PlaceFacts DEF Runs
  <2>4. \A v \in Worker \ {w} : task'[v] = task[v]
    BY <2>1, PlaceFacts
  <2>5. ASSUME NEW f \in Fiber, f # task[w] PROVE Places(f)' = Places(f)
    <3>1. Hands(f)' = Hands(f)
      BY <1>0, <2>1, <2>5, PlaceFacts, TaskFacts DEF Hands
    <3> QED
      BY <1>1, <2>2, <3>1 DEF Places, Indices, Hands, Waits
  <2>6. CASE task[w] \in Fiber
    <3>1. PICK g \in Fiber : g = task[w]
      BY <2>6
    <3>2. /\ Runs(w) /\ m_state[g] = "RUNNING"
          /\ m_state' = [m_state EXCEPT ![g] = IF pc[w] = "yield" THEN "READY" ELSE "TERM"]
      BY <1>6, <2>1, <2>6, <3>1 DEF LeaveTask, Runs, BackInv
    <3>3. Places(g) = 1
      BY <3>2 DEF BackInv, OneWayBack
    <3>4. Places(g)' = IF pc[w] = "yield" THEN 1 ELSE 0
      <4>1. g # None
        BY TaskFacts
      <4>2. Hands(g)' = Hands(g) \ {w} /\ (w \in Hands(g) <=> pc[w] # "yield")
        BY <1>0, <2>1, <3>1, <4>1, PlaceFacts DEF Hands
      <4>3. /\ Places(g) = Cardinality(Indices(g, m_tasks)) + Cardinality(Hands(g))
                               + Cardinality(Waits(g))
            /\ IsFiniteSet(Hands(g)) /\ Cardinality(Hands(g)) \in Nat
            /\ Cardinality(Indices(g, m_tasks)) \in Nat /\ Cardinality(Waits(g)) \in Nat
        BY PlacesAre
      <4>4. Cardinality(Hands(g)')
               = Cardinality(Hands(g)) - (IF pc[w] = "yield" THEN 0 ELSE 1)
        <5>1. Cardinality(Hands(g) \ {w})
                 = IF w \in Hands(g) THEN Cardinality(Hands(g)) - 1 ELSE Cardinality(Hands(g))
          BY <4>3, FS_RemoveElement
        <5> QED
          BY <4>2, <4>3, <5>1
      <4>5. Places(g)' = Cardinality(Indices(g, m_tasks)) + Cardinality(Hands(g)')
                             + Cardinality(Waits(g))
        BY <1>1, <2>2 DEF Places, Indices, Hands, Waits
      <4> QED
        BY <3>3, <4>3, <4>4, <4>5
    <3>5. ASSUME NEW h \in Fiber
          PROVE  Places(h)' = IF m_state'[h] \in {"NONE", "TERM"} THEN 0 ELSE 1
      <4>1. CASE h = g
        BY <1>0, <3>2, <3>4, <4>1
      <4>2. CASE h # g
        <5>1. Places(h)' = Places(h) /\ m_state'[h] = m_state[h]
          BY <1>0, <2>5, <3>1, <3>2, <4>2
        <5> QED
          BY <5>1 DEF BackInv, OneWayBack
      <4> QED
        BY <4>1, <4>2
    <3>6. OneWayBack'
      BY <3>5 DEF OneWayBack
    <3>7. ASSUME NEW v \in Worker, Runs(v)' PROVE m_state'[task'[v]] = "RUNNING"
      <4>1. Runs(v) /\ v # w /\ task'[v] = task[v] /\ task[v] \in Fiber
        BY <2>3, <2>4, <3>7 DEF Runs
      <4>2. task[v] # g /\ m_state[task[v]] = "RUNNING"
        BY <3>1, <3>2, <4>1 DEF BackInv
      <4> QED
        BY <1>0, <3>2, <4>1, <4>2
    <3>8. \A u, v \in Worker : Runs(u)' /\ Runs(v)' /\ task'[u] = task'[v] => u = v
      BY <2>3, <2>4 DEF BackInv
    <3> QED
      BY <3>6, <3>7, <3>8 DEF BackInv
  <2>7. CASE task[w] \notin Fiber
    <3>1. m_state' = m_state /\ \A f \in Fiber : Places(f)' = Places(f)
      BY <1>6, <2>5, <2>7 DEF LeaveTask
    <3> QED
      BY <2>3, <2>4, <3>1 DEF BackInv, OneWayBack
  <2> QED
    BY <2>6, <2>7
<1> QED
  BY <1>2, <1>4, <1>5, <1>6 DEF RunNext

LEMMA IdleBack == ASSUME TypeInv, BackInv, NEW w \in Worker, IdleNext(w) PROVE BackInv'
<1>0. /\ pc[w] \in InIdle /\ pc'[w] \in InIdle \cup {"pick"} /\ task' = task /\ m_state' = m_state
      /\ \A v \in Worker \ {w} : pc'[v] = pc[v]
  BY IdleMoves
<1>1. /\ \A v \in Worker : pc'[v] = "yield" <=> pc[v] = "yield"
      /\ \A v \in Worker : Runs(v)' => Runs(v) /\ task'[v] = task[v]
  BY <1>0, LabelFacts DEF Runs
<1>2. \A f : Hands(f)' = Hands(f)
  BY <1>0, <1>1, SamePlaces
<1>3. ASSUME ctx' = ctx, m_tasks' = m_tasks PROVE BackInv'
  <2>1. \A f : Indices(f, m_tasks)' = Indices(f, m_tasks) /\ Waits(f)' = Waits(f)
    BY <1>3, SamePlaces
  <2> QED
    BY <1>0, <1>1, <1>2, <2>1, BackKept
<1>4. CASE \/ StoppingReadsTimers(w) \/ StoppingReadsPending(w) \/ StoppingReadsBase(w)
           \/ Arm(w) \/ EpollReturns(w) \/ Expire(w) \/ Drain(w) \/ IdleYields(w)
  BY <1>3, <1>4
     DEF StoppingReadsTimers, StoppingReadsPending, StoppingReadsBase, Arm, EpollReturns, Expire,
         Drain, IdleYields, fdVars, eventsOnly
<1>5. ASSUME NEW t \in Timer, PostExpired(w, t) PROVE BackInv'
  <2>1. m_tasks' = m_tasks \o <<t>> /\ ctx' = ctx /\ m_tasks \in Seq(Task)
    BY <1>5 DEF PostExpired, IdleSchedules, Schedule, fdVars, TypeInv, WorkInv
  <2>2. <<t>> \in Seq(Task)
    BY TaskFacts
  <2>3. ASSUME NEW f \in Fiber
        PROVE  Cardinality(Indices(f, m_tasks)') = Cardinality(Indices(f, m_tasks))
    <3>1. Indices(f, m_tasks)' = Indices(f, m_tasks \o <<t>>)
      BY <2>1 DEF Indices
    <3>2. Cardinality(Indices(f, m_tasks \o <<t>>))
             = Cardinality(Indices(f, m_tasks)) + Cardinality(Indices(f, <<t>>))
      BY <2>1, <2>2, ConcatCount
    <3>3. f # t
      BY TaskFacts
    <3>4. Cardinality(Indices(f, <<t>>)) = 0 /\ Cardinality(Indices(f, m_tasks)) \in Nat
      BY <3>3, SingleCount, PlacesAre
    <3> QED
      BY <3>1, <3>2, <3>4
  <2>4. \A f : Waits(f)' = Waits(f)
    BY <2>1, SamePlaces
  <2> QED
    BY <1>0, <1>1, <1>2, <2>3, <2>4, BackKept
\* A report makes a task of each registration it ends.
<1>6. ASSUME NEW fd \in Fd, HandleReport(w, fd) PROVE BackInv'
  <2>1. CASE UNCHANGED <<fdVars, m_tasks, tickled>>
    BY <1>3, <2>1 DEF fdVars
  <2>2. CASE /\ Dispatch(fd, batch[w][fd], TRUE, {})
             /\ IdleSchedules(Handlers(fd, RealEvents(fd, batch[w][fd])))
    <3>1. PICK evs : evs = RealEvents(fd, batch[w][fd])
      OBVIOUS
    <3>2. /\ evs \in SUBSET events[fd] /\ Watch(fd, events[fd] \ evs, {}) /\ Unregister(fd, evs)
          /\ Schedule(Handlers(fd, evs))
      BY <2>2, <3>1 DEF Dispatch, IdleSchedules
    <3>3. ASSUME NEW f \in Fiber
          PROVE  Cardinality(Indices(f, m_tasks)') + Cardinality(Hands(f)')
                     + Cardinality(Waits(f)')
                  = Cardinality(Indices(f, m_tasks)) + Cardinality(Hands(f)) + Cardinality(Waits(f))
      <4>1. Cardinality(Indices(f, m_tasks)') + Cardinality(Waits(f)')
                = Cardinality(Indices(f, m_tasks)) + Cardinality(Waits(f))
        BY <3>2, TriggerBack
      <4>2. /\ Cardinality(Indices(f, m_tasks)) \in Nat /\ Cardinality(Hands(f)) \in Nat
            /\ Cardinality(Waits(f)) \in Nat
        BY PlacesAre
      <4>3. Cardinality(Indices(f, m_tasks)') \in Nat /\ Cardinality(Waits(f)') \in Nat
        <5>1. m_tasks' \in Seq(Task)
          BY <3>2, HandlersAreTasks, ScheduleFacts DEF TypeInv, WorkInv
        <5>2. Indices(f, m_tasks)' = Indices(f, m_tasks')
          BY DEF Indices
        <5>3. IsFiniteSet(Fd \X Event)
          BY EventFacts, FS_Product, IOManagerAssumption
        <5>4. Waits(f)' \in SUBSET (Fd \X Event)
          BY DEF Waits
        <5>5. Cardinality(Indices(f, m_tasks')) \in Nat
          BY <5>1, IndicesFinite
        <5> QED
          BY <5>2, <5>3, <5>4, <5>5, FS_Subset, FS_CardinalityType
      <4> QED
        BY <1>2, <4>1, <4>2, <4>3
    <3> QED
      BY <1>0, <1>1, <3>3, BackKept
  <2> QED
    BY <1>6, <2>1, <2>2 DEF HandleReport
<1> QED
  BY <1>4, <1>5, <1>6 DEF IdleNext

LEMMA NextBack == TypeInv /\ BackInv /\ [Next]_vars => BackInv'
<1> SUFFICES ASSUME TypeInv, BackInv, [Next]_vars PROVE BackInv'
  OBVIOUS
<1>1. ASSUME UNCHANGED <<ctx, m_tasks, m_state, task, pc>> PROVE BackInv'
  BY <1>1 DEF BackInv, OneWayBack, Places, Runs
<1>2. ASSUME NEW fd \in Fd, NEW e \in Reports, EpollFinds(fd, e) PROVE BackInv'
  BY <1>1, <1>2 DEF EpollFinds, BecomesReady, queueVars
<1>3. CASE Tick
  BY <1>1, <1>3 DEF Tick, queueVars, fdVars
<1>4. CASE UNCHANGED vars
  BY <1>1, <1>4 DEF vars, queueVars, fdVars
<1> QED
  BY <1>2, <1>3, <1>4, UserBack, MainBack, RunBack, IdleBack DEF Next

\* A fiber that waits for an event has exactly one way back, its registration or the one
\* task made of it: reports, cancellations and new registrations of any number of threads
\* neither lose it nor resume it twice (triggerEvent and its callers), under FIFO.
THEOREM EachHasOneWayBack == Spec => []OneWayBack
<1>1. Init => BackInv
  BY InitBack
<1>2. BackInv => OneWayBack
  BY DEF BackInv
<1> QED
  BY <1>1, <1>2, NextBack, TypeInvariant, PTL DEF Spec
=============================================================================
