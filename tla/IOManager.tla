----------------------------- MODULE IOManager -----------------------------
(***************************************************************************)
(* IOManager (src/iomanager.cpp): a Scheduler whose idle workers wait in   *)
(* epoll for descriptor events, for the first timer and for a tickle.      *)
(*                                                                         *)
(* Workers run Scheduler::run (FIFO).  A worker without a task resumes its *)
(* idle fiber, which asks whether to stop, waits in epoll_wait, hands out  *)
(* expired timers and reported events, and yields to the run loop.  What a *)
(* task runs is user code: it registers, removes and cancels events, adds, *)
(* cancels, refreshes and resets timers, from a worker or from the main    *)
(* thread, which also submits fibers and calls stop().                     *)
(*                                                                         *)
(* Outside: epoll and eventfd (edge triggered), and the passing of time.   *)
(* Fiber::m_mutex and the states of fibers are detailed in Scheduler.      *)
(***************************************************************************)
EXTENDS FdContext, TimerManager

CONSTANTS
    Worker,
    Main,           \* the thread that submits and stops
    Fiber,
    Callback,       \* what an event registered with a callback schedules
    Preset,         \* timers the main thread adds before the workers run
    MaxTimeout,     \* MAX_TIMEOUT of idle()
    EventsOf,       \* [Fd -> SUBSET Event]: what user code waits for
    Reports,        \* what epoll may report: a subset of Event and HUP
    Budget          \* bound: calls user code makes, in tasks and in Main

Actor == Worker \cup {Main}
Task == Handler \cup Timer

ASSUME IOManagerAssumption ==
    /\ IsFiniteSet(Worker) /\ Worker # {} /\ Main \notin Worker /\ IsFiniteSet(Fd)
    /\ Handler = Fiber \cup {Callback} /\ Callback \notin Fiber
    /\ None \notin Task /\ Handler \cap Timer = {}
    /\ Recurring \subseteq Timer /\ Preset \subseteq Timer /\ IsFiniteSet(Timer)
    /\ MaxMs \in Nat \ {0} /\ MaxTimeout \in Nat \ {0}
    /\ EventsOf \in [Fd -> SUBSET Event] /\ Reports \subseteq Event \cup {HUP}
    /\ Budget \in Nat

VARIABLES
    m_tasks,
    m_activeThreadCount,
    m_idleThreadCount,
    m_stopping,
    m_state,    \* [Fiber -> "NONE" (no such object yet) or Fiber::State]
    tickled,    \* the eventfd is on epoll's ready list
    pc,         \* [Actor -> point of run(), idle() or user code]
    task,       \* [Worker -> the task in hand, or None]
    resetting,  \* [Actor -> the call of Timer::reset it is in, or None]
    timeout,    \* [Worker -> what is left of its epoll_wait]
    batch,      \* [Worker -> [Fd -> reported events]]
    rung,       \* [Worker -> whether the eventfd was reported]
    cbs,        \* [Worker -> SUBSET Timer]: expired callbacks to schedule
    idleTerm,   \* [Worker -> whether its idle fiber has ended]
    left        \* what is left of Budget

queueVars == <<m_tasks, m_activeThreadCount, m_idleThreadCount, m_stopping>>
epollVars == <<timeout, batch, rung, cbs, idleTerm>>
vars == <<fdVars, timerVars, queueVars, m_state, tickled, pc, task, resetting,
          epollVars, left>>

NoReport == [fd \in Fd |-> {}]

Init ==
    /\ FdInit /\ TimerInit(Preset)
    /\ m_tasks = <<>>
    /\ m_activeThreadCount = 0
    /\ m_idleThreadCount = 0
    /\ m_stopping = FALSE
    /\ m_state = [f \in Fiber |-> "NONE"]
    /\ tickled = FALSE
    /\ pc = [a \in Actor |-> IF a = Main THEN "user" ELSE "pick"]
    /\ task = [w \in Worker |-> None]
    /\ resetting = [a \in Actor |-> None]
    /\ timeout = [w \in Worker |-> 0]
    /\ batch = [w \in Worker |-> NoReport]
    /\ rung = [w \in Worker |-> FALSE]
    /\ cbs = [w \in Worker |-> {}]
    /\ idleTerm = [w \in Worker |-> FALSE]
    /\ left = Budget

Goto(a, label) == pc' = [pc EXCEPT ![a] = label]

\* scheduleLock for each of tasks: whoever finds the queue empty has to tickle.
\* Those of one call (cancelAll, a report of both events) are queued in one step: a worker
\* that took the first in between would only cause a second tickle.
Schedule(tasks) == m_tasks' = m_tasks \o tasks
NeedTickle(tasks) == m_tasks = <<>> /\ tasks # <<>>

\* A user call that scheduled tasks and then goes on in user code.
ThenTickle(a, need) == Goto(a, IF need THEN "tickle" ELSE "user")

-----------------------------------------------------------------------------
(* User code: calls of a task on worker a, or of the main thread.          *)

UserCall(a) == pc[a] = "user" /\ left > 0 /\ left' = left - 1

\* addEvent(fd, ev): the current fiber will be scheduled; it goes on to yield.
AddEventForFiber(w, fd, ev) ==
    /\ w \in Worker /\ UserCall(w)
    /\ task[w] \in Fiber /\ ev \in EventsOf[fd]
    /\ AddEvent(fd, ev, task[w], TRUE, {})
    /\ Goto(w, "yield")
    /\ UNCHANGED <<timerVars, queueVars, m_state, tickled, task, resetting, epollVars>>

\* addEvent(fd, ev, cb).
AddEventForCallback(a, fd, ev) ==
    /\ UserCall(a)
    /\ ev \in EventsOf[fd]
    /\ AddEvent(fd, ev, Callback, TRUE, {})
    /\ UNCHANGED <<timerVars, queueVars, m_state, tickled, pc, task, resetting, epollVars>>

\* delEvent: of a callback, as a fiber would never be scheduled again.
DelEvent(a, fd, ev) ==
    /\ UserCall(a)
    /\ ctx[fd][ev] = Callback
    /\ RemoveEvent(fd, ev, TRUE, {})
    /\ UNCHANGED <<timerVars, queueVars, m_state, tickled, pc, task, resetting, epollVars>>

CancelEvent(a, fd, ev) ==
    /\ UserCall(a)
    /\ RemoveEvent(fd, ev, TRUE, {})
    /\ Schedule(Handlers(fd, {ev}))
    /\ ThenTickle(a, m_tasks = <<>>)
    /\ UNCHANGED <<timerVars, m_activeThreadCount, m_idleThreadCount, m_stopping,
                   m_state, tickled, task, resetting, epollVars>>

CancelAll(a, fd) ==
    /\ UserCall(a)
    /\ RemoveAll(fd, TRUE)
    /\ Schedule(Handlers(fd, events[fd]))
    /\ ThenTickle(a, m_tasks = <<>>)
    /\ UNCHANGED <<timerVars, m_activeThreadCount, m_idleThreadCount, m_stopping,
                   m_state, tickled, task, resetting, epollVars>>

\* The calls on timers leave everything else alone.
timersOnly == <<fdVars, queueVars, m_state, tickled, task, epollVars>>

UserAddTimer(a, t, ms) ==
    /\ UserCall(a)
    /\ \E atFront \in BOOLEAN : AddTimer(t, ms, atFront) /\ ThenTickle(a, atFront)
    /\ UNCHANGED <<timersOnly, resetting>>

UserCancelTimer(a, t) ==
    /\ UserCall(a)
    /\ CancelTimer(t)
    /\ UNCHANGED <<timersOnly, pc, resetting>>

UserRefreshTimer(a, t) ==
    /\ UserCall(a)
    /\ RefreshTimer(t)
    /\ UNCHANGED <<timersOnly, pc, resetting>>

UserResetTimer(a, t, ms, fromNow) ==
    /\ UserCall(a)
    /\ ResetTakesOut(t, ms, fromNow)
    /\ resetting' = [resetting EXCEPT ![a] = [timer |-> t, ms |-> ms, fromNow |-> fromNow]]
    /\ Goto(a, "reset")
    /\ UNCHANGED timersOnly

UserResetEnds(a) ==
    /\ pc[a] = "reset"
    /\ \E atFront \in BOOLEAN :
          /\ ResetPutsBack(resetting[a].timer, resetting[a].ms, resetting[a].fromNow, atFront)
          /\ ThenTickle(a, atFront)
    /\ resetting' = [resetting EXCEPT ![a] = None]
    /\ UNCHANGED <<timersOnly, left>>

\* tickle(), from user code or on the way to the picked task: a write to the
\* eventfd, unless no worker is idle.
Tickle(a) ==
    /\ pc[a] \in {"tickle", "picked"}
    /\ tickled' = (tickled \/ m_idleThreadCount > 0)
    /\ Goto(a, IF pc[a] = "tickle" THEN "user" ELSE "resume")
    /\ UNCHANGED <<fdVars, timerVars, queueVars, m_state, task, resetting, epollVars, left>>

\* The main thread schedules a new fiber.
Submit(f) ==
    /\ pc[Main] = "user"
    /\ m_state[f] = "NONE"
    /\ m_state' = [m_state EXCEPT ![f] = "READY"]
    /\ Schedule(<<f>>)
    /\ ThenTickle(Main, m_tasks = <<>>)
    /\ UNCHANGED <<fdVars, timerVars, m_activeThreadCount, m_idleThreadCount, m_stopping,
                   tickled, task, resetting, epollVars, left>>

\* stop() asks stopping() first, which says no but asks for the first timer; then it
\* sets the flag, tickles for each worker, and joins them.
StopAsks ==
    /\ pc[Main] = "user"
    /\ QueryNextTimer
    /\ Goto(Main, "stopping")
    /\ UNCHANGED <<fdVars, queueVars, m_state, tickled, task, resetting, epollVars, left>>

Stop ==
    /\ pc[Main] = "stopping"
    /\ m_stopping' = TRUE
    /\ Goto(Main, "stop")
    /\ UNCHANGED <<fdVars, timerVars, m_tasks, m_activeThreadCount, m_idleThreadCount,
                   m_state, tickled, task, resetting, epollVars, left>>

StopTickles ==
    /\ pc[Main] = "stop"
    /\ tickled' = (tickled \/ m_idleThreadCount > 0)
    /\ Goto(Main, "join")
    /\ UNCHANGED <<fdVars, timerVars, queueVars, m_state, task, resetting, epollVars, left>>

Join ==
    /\ pc[Main] = "join"
    /\ \A w \in Worker : pc[w] = "exited"
    /\ Goto(Main, "stopped")
    /\ UNCHANGED <<fdVars, timerVars, queueVars, m_state, tickled, task, resetting,
                   epollVars, left>>

-----------------------------------------------------------------------------
(* Scheduler::run.                                                         *)

runOnly == <<fdVars, timerVars, m_stopping, tickled, resetting, epollVars, left>>

\* The first task is taken; a tickle when others are left.
Pick(w) ==
    /\ pc[w] = "pick"
    /\ m_tasks # <<>>
    /\ task' = [task EXCEPT ![w] = Head(m_tasks)]
    /\ m_tasks' = Tail(m_tasks)
    /\ m_activeThreadCount' = m_activeThreadCount + 1
    /\ Goto(w, IF Tail(m_tasks) = <<>> THEN "resume" ELSE "picked")
    /\ UNCHANGED <<runOnly, m_idleThreadCount, m_state>>

PickNone(w) ==
    /\ pc[w] = "pick"
    /\ m_tasks = <<>>
    /\ Goto(w, IF idleTerm[w] THEN "exited" ELSE "enterIdle")
    /\ UNCHANGED <<runOnly, m_tasks, m_activeThreadCount, m_idleThreadCount, m_state, task>>

\* A fiber that has not left its stack yet is waited for (Fiber::m_mutex); a
\* callback runs on a pooled fiber.
ResumeTask(w) ==
    /\ pc[w] = "resume"
    /\ IF task[w] \in Fiber
       THEN /\ m_state[task[w]] = "READY"
            /\ m_state' = [m_state EXCEPT ![task[w]] = "RUNNING"]
       ELSE UNCHANGED m_state
    /\ Goto(w, "user")
    /\ UNCHANGED <<runOnly, m_tasks, m_activeThreadCount, m_idleThreadCount, task>>

\* Mutant: a task that yields is still counted.
LeaveTaskStaysActive(w) ==
    /\ pc[w] \in {"yield", "user"}
    /\ m_state' = IF task[w] \in Fiber
                  THEN [m_state EXCEPT ![task[w]] = IF pc[w] = "yield" THEN "READY" ELSE "TERM"]
                  ELSE m_state
    /\ task' = [task EXCEPT ![w] = None]
    /\ m_activeThreadCount' = m_activeThreadCount - (IF pc[w] = "yield" THEN 0 ELSE 1)
    /\ Goto(w, "pick")
    /\ UNCHANGED <<runOnly, m_tasks, m_idleThreadCount>>

\* The task yields, after addEvent, or ends: back to the top of the loop.  (Under FIFO
\* nothing is queued for it; MLFQ would queue a fiber that is READY once more.)
LeaveTask(w) ==
    /\ pc[w] \in {"yield", "user"}
    /\ m_state' = IF task[w] \in Fiber
                  THEN [m_state EXCEPT ![task[w]] = IF pc[w] = "yield" THEN "READY" ELSE "TERM"]
                  ELSE m_state
    /\ task' = [task EXCEPT ![w] = None]
    /\ m_activeThreadCount' = m_activeThreadCount - 1
    /\ Goto(w, "pick")
    /\ UNCHANGED <<runOnly, m_tasks, m_idleThreadCount>>

EnterIdle(w) ==
    /\ pc[w] = "enterIdle"
    /\ m_idleThreadCount' = m_idleThreadCount + 1
    /\ Goto(w, "askTimers")
    /\ UNCHANGED <<runOnly, m_tasks, m_activeThreadCount, m_state, task>>

-----------------------------------------------------------------------------
(* IOManager::idle, on the idle fiber of worker w.                         *)

idleOnly == <<m_activeThreadCount, m_stopping, m_state, task, resetting, left>>

\* stopping() reads the timers, then the pending events, then the base state,
\* each on its own, and not the rest once one says no.
StoppingReadsTimers(w) ==
    /\ pc[w] = "askTimers"
    /\ QueryNextTimer
    /\ Goto(w, IF m_timers = {} THEN "askPending" ELSE "arm")
    /\ UNCHANGED <<fdVars, m_tasks, m_idleThreadCount, tickled, epollVars, idleOnly>>

StoppingReadsPending(w) ==
    /\ pc[w] = "askPending"
    /\ Goto(w, IF m_pendingEventCount = 0 THEN "askBase" ELSE "arm")
    /\ UNCHANGED <<fdVars, timerVars, m_tasks, m_idleThreadCount, tickled, epollVars, idleOnly>>

BaseStopping == m_stopping /\ m_tasks = <<>> /\ m_activeThreadCount = 0

\* With a yes the idle fiber ends, and the worker when it next finds no task.
StoppingReadsBase(w) ==
    /\ pc[w] = "askBase"
    /\ IF BaseStopping
       THEN /\ idleTerm' = [idleTerm EXCEPT ![w] = TRUE]
            /\ m_idleThreadCount' = m_idleThreadCount - 1
            /\ Goto(w, "pick")
       ELSE Goto(w, "arm") /\ UNCHANGED <<m_idleThreadCount, idleTerm>>
    /\ UNCHANGED <<fdVars, timerVars, m_tasks, tickled, timeout, batch, rung, cbs, idleOnly>>

\* Mutant: no upper limit, so that without a timer epoll_wait has no timeout.
ArmUncapped(w) ==
    /\ pc[w] = "arm"
    /\ QueryNextTimer
    /\ timeout' = [timeout EXCEPT ![w] = IF m_timers = {} THEN -1 ELSE Earliest(MaxMs)]
    /\ Goto(w, "epoll")
    /\ UNCHANGED <<fdVars, m_tasks, m_idleThreadCount, tickled, batch, rung, cbs, idleTerm, idleOnly>>

\* getNextTimer() again, for the timeout of epoll_wait.
Arm(w) ==
    /\ pc[w] = "arm"
    /\ QueryNextTimer
    /\ timeout' = [timeout EXCEPT ![w] = Earliest(MaxTimeout)]
    /\ Goto(w, "epoll")
    /\ UNCHANGED <<fdVars, m_tasks, m_idleThreadCount, tickled, batch, rung, cbs, idleTerm, idleOnly>>

\* epoll_wait returns what is on the ready list, or nothing at its timeout.
EpollReturns(w) ==
    /\ pc[w] = "epoll"
    /\ tickled \/ edge # NoReport \/ timeout[w] = 0
    /\ batch' = [batch EXCEPT ![w] = edge]
    /\ rung' = [rung EXCEPT ![w] = tickled]
    /\ edge' = NoReport
    /\ tickled' = FALSE
    /\ timeout' = [timeout EXCEPT ![w] = 0]
    /\ Goto(w, "expire")
    /\ UNCHANGED <<events, ctx, interest, m_pendingEventCount, timerVars, m_tasks,
                   m_idleThreadCount, cbs, idleTerm, idleOnly>>

\* listExpiredCb.
Expire(w) ==
    /\ pc[w] = "expire"
    /\ ListExpired
    /\ cbs' = [cbs EXCEPT ![w] = ExpiredCallbacks]
    /\ Goto(w, IF ExpiredCallbacks = {} THEN "events" ELSE "post")
    /\ UNCHANGED <<fdVars, m_tasks, m_idleThreadCount, tickled, timeout, batch, rung, idleTerm, idleOnly>>

\* What an idle worker schedules; it is idle itself, so its tickle is written.
IdleSchedules(tasks) ==
    /\ Schedule(tasks)
    /\ tickled' = (tickled \/ NeedTickle(tasks))

\* The expired callbacks are scheduled one by one; those that were due at different
\* times earliest first, which is left open.
PostExpired(w, t) ==
    /\ pc[w] = "post" /\ t \in cbs[w]
    /\ IdleSchedules(<<t>>)
    /\ cbs' = [cbs EXCEPT ![w] = @ \ {t}]
    /\ Goto(w, IF cbs[w] = {t} THEN "events" ELSE "post")
    /\ UNCHANGED <<fdVars, timerVars, m_idleThreadCount, timeout, batch, rung, idleTerm, idleOnly>>

eventsOnly == <<timerVars, m_idleThreadCount, pc, timeout, cbs, idleTerm, idleOnly>>

\* The eventfd is read empty.
Drain(w) ==
    /\ pc[w] = "events" /\ rung[w]
    /\ rung' = [rung EXCEPT ![w] = FALSE]
    /\ tickled' = FALSE
    /\ UNCHANGED <<fdVars, m_tasks, batch, eventsOnly>>

\* A reported descriptor is handled, under its mutex.
HandleReport(w, fd) ==
    /\ pc[w] = "events" /\ batch[w][fd] # {}
    /\ batch' = [batch EXCEPT ![w][fd] = {}]
    /\ \/ /\ ReportSkipped(fd, batch[w][fd], TRUE)
          /\ UNCHANGED <<fdVars, m_tasks, tickled>>
       \/ /\ Dispatch(fd, batch[w][fd], TRUE, {})
          /\ IdleSchedules(Handlers(fd, RealEvents(fd, batch[w][fd])))
    /\ UNCHANGED <<rung, eventsOnly>>

\* All handled: the idle fiber yields to run().
IdleYields(w) ==
    /\ pc[w] = "events" /\ batch[w] = NoReport /\ ~rung[w]
    /\ m_idleThreadCount' = m_idleThreadCount - 1
    /\ Goto(w, "pick")
    /\ UNCHANGED <<fdVars, timerVars, m_tasks, tickled, epollVars, idleOnly>>

-----------------------------------------------------------------------------
(* Outside.                                                                *)

\* A watched descriptor becomes ready, or epoll_ctl has found it so.
EpollFinds(fd, e) ==
    /\ BecomesReady(fd, e)
    /\ UNCHANGED <<timerVars, queueVars, m_state, tickled, pc, task, resetting, epollVars, left>>

\* A millisecond passes.
Tick ==
    /\ TimersAge
    /\ timeout' = [w \in Worker |-> IF timeout[w] > 0 THEN timeout[w] - 1 ELSE timeout[w]]
    /\ UNCHANGED <<fdVars, m_timers, m_ms, m_cb, m_tickled, phase, queueVars, m_state,
                   tickled, pc, task, resetting, batch, rung, cbs, idleTerm, left>>

UserNext(a) ==
    \/ \E fd \in Fd, ev \in Event :
          \/ AddEventForFiber(a, fd, ev) \/ AddEventForCallback(a, fd, ev)
          \/ DelEvent(a, fd, ev) \/ CancelEvent(a, fd, ev)
    \/ \E fd \in Fd : CancelAll(a, fd)
    \/ \E t \in Timer :
          \/ UserCancelTimer(a, t) \/ UserRefreshTimer(a, t)
          \/ \E ms \in Period :
                \/ UserAddTimer(a, t, ms)
                \/ \E fromNow \in BOOLEAN : UserResetTimer(a, t, ms, fromNow)

MainNext == StopAsks \/ Stop \/ StopTickles \/ Join \/ \E f \in Fiber : Submit(f)

\* What the thread of a does on its own, once its user code returns.
RunNext(w) ==
    \/ Pick(w) \/ PickNone(w) \/ ResumeTask(w) \/ LeaveTask(w) \/ EnterIdle(w)

IdleNext(w) ==
    \/ StoppingReadsTimers(w) \/ StoppingReadsPending(w) \/ StoppingReadsBase(w)
    \/ Arm(w) \/ EpollReturns(w) \/ Expire(w) \/ Drain(w) \/ IdleYields(w)
    \/ (\E t \in Timer : PostExpired(w, t)) \/ (\E fd \in Fd : HandleReport(w, fd))

CallNext(a) == Tickle(a) \/ UserResetEnds(a)

Next ==
    \/ \E a \in Actor : UserNext(a) \/ CallNext(a)
    \/ MainNext
    \/ \E w \in Worker : RunNext(w) \/ IdleNext(w)
    \/ \E fd \in Fd, e \in Reports : EpollFinds(fd, e)
    \/ Tick

Spec == Init /\ [][Next]_vars

\* Every thread runs, user code returns, time passes, and stop() goes on once called.
FairSpec ==
    /\ Spec
    /\ \A w \in Worker : WF_vars(RunNext(w) \/ IdleNext(w) \/ CallNext(w))
    /\ WF_vars(CallNext(Main) \/ Stop \/ StopTickles \/ Join)
    /\ WF_vars(Tick)
-----------------------------------------------------------------------------
(* Properties.                                                             *)

\* Every variable has its type: Worker and main control points, queue and counters
\* of Scheduler, and what a worker holds between two steps of idle().
TypeOK ==
    /\ FdTypeOK /\ TimerTypeOK
    /\ m_tasks \in Seq(Task)
    /\ m_activeThreadCount \in 0 .. Cardinality(Worker)
    /\ m_idleThreadCount \in 0 .. Cardinality(Worker)
    /\ m_state \in [Fiber -> {"NONE", "READY", "RUNNING", "TERM"}]
    /\ tickled \in BOOLEAN /\ m_stopping \in BOOLEAN
    /\ task \in [Worker -> Task \cup {None}]
    /\ timeout \in [Worker -> 0 .. MaxTimeout]
    /\ batch \in [Worker -> [Fd -> SUBSET (Event \cup {HUP})]]
    /\ cbs \in [Worker -> SUBSET Timer]

Places(f) ==
    Cardinality({i \in DOMAIN m_tasks : m_tasks[i] = f})
    + Cardinality({w \in Worker : task[w] = f /\ pc[w] # "yield"})
    + Cardinality({r \in Fd \X Event : ctx[r[1]][r[2]] = f})

\* A fiber that waits for an event has exactly one way back: its registration, or
\* the one task made of it.  Reports, cancellations and new registrations of several
\* threads neither lose it nor resume it twice (triggerEvent and its callers).  Under
\* FIFO: MLFQ adds a task for each fiber that yields.
OneWayBack ==
    \A f \in Fiber : Places(f) = IF m_state[f] \in {"NONE", "TERM"} THEN 0 ELSE 1

\* The counter stopping() trusts is the number of registered events, whichever of
\* delEvent, cancelEvent, cancelAll and idle() ends a registration.  It holds after each
\* critical section of a descriptor: inside one the counter and the bits change one after
\* the other, and stopping() may read it there.
PendingIsExact ==
    m_pendingEventCount = Cardinality({r \in Fd \X Event : r[2] \in events[r[1]]})

\* epoll watches what is registered: an event left over from a report that had
\* another one is watched on, or nobody would ever schedule its handler.
RegisteredIsWatched == \A fd \in Fd : interest[fd] = events[fd]

\* The first timer is not slept over: while there is one, some worker will still
\* ask for it, is about to be woken, or waits no longer than until it is due.  This
\* is what m_tickled saves tickles on (addTimer, getNextTimer).
FirstTimerWatched ==
    m_timers # {} =>
        \/ tickled \/ \E a \in Actor : pc[a] = "tickle"
        \/ \E w \in Worker :
              \/ pc[w] \notin {"epoll", "exited"}
              \/ pc[w] = "epoll" /\ \A t \in m_timers : timeout[w] <= m_next[t]

HandedOut == {t \in Timer : \/ \E i \in DOMAIN m_tasks : m_tasks[i] = t
                            \/ \E w \in Worker : t \in cbs[w]
                            \/ \E w \in Worker : task[w] = t /\ pc[w] \in {"picked", "resume"}}

\* The timers keep the promise of timer.h: a callback is handed out while its timer
\* is armed, once unless it recurs, and never after cancel() returned true, be it in
\* the middle of a reset().
Contract == INSTANCE TimerContract WITH handed <- HandedOut
KeepsTimerContract == Contract!ContractSpec

\* A scheduled fiber is resumed, also when its tickle was dropped because the worker
\* that was to be woken had not yet counted itself idle: epoll_wait ends in time.
ScheduledGetsResumed ==
    \A f \in Fiber : (\E i \in DOMAIN m_tasks : m_tasks[i] = f) ~> (m_state[f] = "RUNNING")

\* A timer's callback runs unless it is cancelled, and that of a recurring timer again
\* and again, as long as stop() has not been called: reset() in the middle of an expiry,
\* the other timer and dropped tickles only delay it.
CallbackRunning(t) == \E w \in Worker : task[w] = t /\ pc[w] = "user"

TimersExpire ==
    \A t \in Timer :
        (phase[t] = "armed")
            ~> (CallbackRunning(t) \/ (phase[t] = "over" /\ t \notin HandedOut) \/ m_stopping)

\* stop() returns, unless there is a registered event or a recurring timer again and
\* again: once both stay away, the last timers expire and every worker leaves.
StopReturns ==
    <>m_stopping /\ <>[](m_pendingEventCount = 0 /\ m_timers \cap Recurring = {})
        => <>(pc[Main] = "stopped")
=============================================================================
