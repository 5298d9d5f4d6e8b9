----------------------------- MODULE Scheduler -----------------------------
(***************************************************************************)
(* The worker loop of Scheduler (src/scheduler.cpp) with the fibers it     *)
(* runs (src/fiber.cpp) and the pool it takes callback fibers from         *)
(* (src/coroutine_pool.cpp), started with any number of worker threads.    *)
(*                                                                         *)
(* A worker takes tasks off m_tasks under m_mutex.  A fiber task resumes a *)
(* given Fiber object; a callback task resumes a Fiber taken from the pool *)
(* and puts it back when the callback has returned.  Both hold             *)
(* Fiber::m_mutex across resume(), but the callback path resets the pooled *)
(* fiber before it takes that mutex and reads the state after it has given *)
(* it back.  What runs on a fiber is user code: it may wait as sync.h      *)
(* waits (queue a waiter, test the flag, yield), notify a waiter (flag,    *)
(* then a task for the waiter's thread), reschedule itself and yield, or   *)
(* schedule a callback.                                                    *)
(*                                                                         *)
(* The base class is modelled: tickle() does nothing and an idle worker    *)
(* polls.  Fiber objects are identities; a pooled object runs one callback *)
(* after another.                                                          *)
(***************************************************************************)
EXTENDS Naturals, FiniteSets, SequencesExt

CONSTANTS
    Worker,     \* threads that execute Scheduler::run
    Caller,     \* the worker that is the thread of stop() (use_caller), or None
    Fiber,      \* Fiber objects
    AnyThread,  \* thread -1 of a task
    None,
    Policies,   \* the SchedulePolicy values to look at
    MaxCachedPerKey,
    Budget,     \* bounds by policy: [fibers, callbacks, waits, yields] of the user code
    CallbacksYield  \* whether the user's callbacks wait or reschedule themselves

\* ScheduleTask: a Fiber object, or a callback (None), and the thread.
Task == [fiber : Fiber \cup {None}, thread : Worker \cup {AnyThread}]

ASSUME SchedulerAssumption ==
    /\ IsFiniteSet(Worker) /\ Worker # {} /\ Caller \in Worker \cup {None}
    /\ AnyThread \notin Worker
    /\ None \notin Worker \cup Fiber \cup Task
    /\ Policies \subseteq {"FIFO", "PRIORITY", "MLFQ", "EDF", "HYBRID"}
    /\ \A p \in Policies : Budget[p] \in [{"fibers", "callbacks", "waits", "yields"} -> Nat]
    /\ MaxCachedPerKey \in Nat \ {0}
    /\ CallbacksYield \in BOOLEAN

VARIABLES
    m_tasks,                \* Seq([fiber: Fiber or None, thread])
    m_activeThreadCount,
    m_stopping,
    m_policy,               \* set before anything runs
    m_cache,                \* the pool's bucket, last in first out
    m_state,                \* [Fiber -> "NONE" (no such object yet) or State]
    m_mutex,                \* [Fiber -> Worker or None]: holder of Fiber::m_mutex
    at,                     \* [Fiber -> point of its callback]
    waiter,                 \* [Fiber -> "none", "queued", "notified"]
    waiterThread,           \* [Fiber -> Worker]: FiberWaiter::threadId
    owes,                   \* [Fiber -> task its NotifyWaiter has still to post]
    wpc,                    \* [Worker -> point of Scheduler::run]
    task,                   \* [Worker -> the task it handles, or None]
    isCallback,             \* [Worker -> whether on the callback path]
    idleTerm,               \* [Worker -> whether its idle fiber has ended]
    main,                   \* the thread that submits and calls stop()
    left                    \* what is left of Budget

queueVars == <<m_tasks, m_activeThreadCount, m_stopping, m_policy>>
fiberVars == <<m_state, m_mutex, at, waiter, waiterThread, owes>>
workerVars == <<wpc, task, isCallback, idleTerm>>
vars == <<queueVars, m_cache, fiberVars, workerVars, main, left>>

Callback == None    \* the fiber of a task that is a callback

Init ==
    /\ m_tasks = <<>>
    /\ m_activeThreadCount = 0
    /\ m_stopping = FALSE
    /\ m_policy \in Policies
    /\ m_cache = <<>>
    /\ m_state = [f \in Fiber |-> "NONE"]
    /\ m_mutex = [f \in Fiber |-> None]
    /\ at = [f \in Fiber |-> "run"]
    /\ waiter = [f \in Fiber |-> "none"]
    /\ waiterThread = [f \in Fiber |-> AnyThread]
    /\ owes = [f \in Fiber |-> None]
    /\ wpc = [w \in Worker |-> IF w = Caller THEN "off" ELSE "pick"]
    /\ task = [w \in Worker |-> None]
    /\ isCallback = [w \in Worker |-> FALSE]
    /\ idleTerm = [w \in Worker |-> FALSE]
    /\ main = "submit"
    /\ left = Budget[m_policy]

Spend(what) ==
    /\ left[what] > 0
    /\ left' = [left EXCEPT ![what] = @ - 1]

\* scheduleEx: a task for fiber f, or for a callback, at the back of the queue.
Schedule(f, thread) == m_tasks' = Append(m_tasks, [fiber |-> f, thread |-> thread])

GotoW(w, label) == wpc' = [wpc EXCEPT ![w] = label]
GotoF(f, label) == at' = [at EXCEPT ![f] = label]

\* The object that is made next; which one it is makes no difference.
IsNext(f) ==
    /\ m_state[f] = "NONE"
    /\ f = CHOOSE g \in Fiber : m_state[g] = "NONE"

-----------------------------------------------------------------------------
(* The main thread.                                                        *)

\* A Fiber object is made and scheduled, on any thread or on a given one.
SubmitFiber(f, thread) ==
    /\ main = "submit"
    /\ IsNext(f)
    /\ Spend("fibers")
    /\ m_state' = [m_state EXCEPT ![f] = "READY"]
    /\ Schedule(f, thread)
    /\ UNCHANGED <<m_activeThreadCount, m_stopping, m_policy, m_cache, m_mutex, at,
                   waiter,
                   waiterThread, owes, workerVars, main>>

SubmitCallback(thread) ==
    /\ main = "submit"
    /\ Spend("callbacks")
    /\ Schedule(Callback, thread)
    /\ UNCHANGED <<m_activeThreadCount, m_stopping, m_policy, m_cache, fiberVars,
                   workerVars, main>>

\* stop(): the flag; a caller that is a worker then runs the loop itself.  Its assertions
\* on m_useCaller are about who calls: the thread that is Caller, or else no worker.
Stop ==
    /\ main = "submit"
    /\ m_stopping' = TRUE
    /\ main' = "join"
    /\ wpc' = [w \in Worker |-> IF w = Caller THEN "pick" ELSE wpc[w]]
    /\ UNCHANGED <<m_tasks, m_activeThreadCount, m_policy, m_cache, fiberVars, task,
                   isCallback, idleTerm, left>>

\* stop() joins the workers and empties the pool.
Join ==
    /\ main = "join"
    /\ \A w \in Worker : wpc[w] = "exited"
    /\ main' = "stopped"
    /\ m_cache' = <<>>
    /\ UNCHANGED <<queueVars, fiberVars, workerVars, left>>

-----------------------------------------------------------------------------
(* Scheduler::run.                                                         *)

\* Mutant: tasks for a given thread are overlooked.
EligibleAnywhere(w) == {i \in DOMAIN m_tasks : m_tasks[i].thread = AnyThread}

Eligible(w) == {i \in DOMAIN m_tasks : m_tasks[i].thread \in {AnyThread, w}}

\* Mutant: the count goes up after the block, here with the end of the task.
PickUncounted(w) ==
    /\ wpc[w] = "pick"
    /\ \E i \in Eligible(w) :
           /\ m_tasks' = RemoveAt(m_tasks, i)
           /\ task' = [task EXCEPT ![w] = m_tasks[i]]
           /\ isCallback' = [isCallback EXCEPT ![w] = m_tasks[i].fiber = Callback]
           /\ GotoW(w, IF m_tasks[i].fiber = Callback THEN "acquire" ELSE "lock")
    /\ UNCHANGED <<m_activeThreadCount, m_stopping, m_policy, m_cache, fiberVars,
                   idleTerm, main, left>>

\* pickNextTaskLocked and the increment of the active count, in one block.  The
\* ranking of the policies other than FIFO is left open.
Pick(w) ==
    /\ wpc[w] = "pick"
    /\ \E i \in Eligible(w) :
           /\ m_policy = "FIFO" => \A j \in Eligible(w) : i <= j
           /\ m_tasks' = RemoveAt(m_tasks, i)
           /\ task' = [task EXCEPT ![w] = m_tasks[i]]
           /\ isCallback' = [isCallback EXCEPT ![w] = m_tasks[i].fiber = Callback]
           /\ GotoW(w, IF m_tasks[i].fiber = Callback THEN "acquire" ELSE "lock")
    /\ m_activeThreadCount' = m_activeThreadCount + 1
    /\ UNCHANGED <<m_stopping, m_policy, m_cache, fiberVars, idleTerm, main, left>>

\* No task: leave if the idle fiber has ended, else resume it.
PickNone(w) ==
    /\ wpc[w] = "pick"
    /\ Eligible(w) = {}
    /\ GotoW(w, IF idleTerm[w] THEN "exited" ELSE "idle")
    /\ UNCHANGED <<queueVars, m_cache, fiberVars, task, isCallback, idleTerm, main, left>>

\* Mutant: tasks that are being handled do not count.
StoppingIfQueueEmpty == m_stopping /\ m_tasks = <<>>

Stopping == m_stopping /\ m_tasks = <<>> /\ m_activeThreadCount = 0

\* idle() asks stopping() and ends, or sleeps and yields.  The sleep is the blocking one:
\* the hooked one takes an IOManager for granted, which a plain Scheduler is not.
Idle(w) ==
    /\ wpc[w] = "idle"
    /\ idleTerm' = [idleTerm EXCEPT ![w] = Stopping]
    /\ GotoW(w, "pick")
    /\ UNCHANGED <<queueVars, m_cache, fiberVars, task, isCallback, main, left>>

\* Mutant: a pooled fiber that is handed out stays in the bucket.
AcquirePeeks(w) ==
    /\ wpc[w] = "acquire"
    /\ m_cache # <<>>
    /\ m_state' = [m_state EXCEPT ![Last(m_cache)] = "READY"]
    /\ GotoF(Last(m_cache), "run")
    /\ task' = [task EXCEPT ![w].fiber = Last(m_cache)]
    /\ GotoW(w, "lock")
    /\ UNCHANGED <<queueVars, m_cache, m_mutex, waiter, waiterThread, owes, isCallback,
                   idleTerm, main, left>>

\* CoroutinePool::acquire from the bucket: Fiber::reset, without its mutex.
\* (Should a worker still be on the fiber's stack, it goes on where it is.)
AcquireCached(w) ==
    /\ wpc[w] = "acquire"
    /\ m_cache # <<>>
    /\ LET f == Last(m_cache)
       IN  /\ m_cache' = Front(m_cache)
           /\ m_state' = [m_state EXCEPT ![f] = "READY"]
           /\ IF \E v \in Worker : wpc[v] = "inside" /\ task[v].fiber = f
              THEN UNCHANGED at ELSE GotoF(f, "run")
           /\ task' = [task EXCEPT ![w].fiber = f]
    /\ GotoW(w, "lock")
    /\ UNCHANGED <<queueVars, m_mutex, waiter, waiterThread, owes, isCallback,
                   idleTerm, main, left>>

\* CoroutinePool::acquire with an empty bucket: a new Fiber.
AcquireNew(w) ==
    /\ wpc[w] = "acquire"
    /\ m_cache = <<>>
    /\ \E f \in Fiber :
           /\ IsNext(f)
           /\ m_state' = [m_state EXCEPT ![f] = "READY"]
           /\ task' = [task EXCEPT ![w].fiber = f]
    /\ GotoW(w, "lock")
    /\ UNCHANGED <<queueVars, m_cache, m_mutex, at, waiter, waiterThread, owes,
                   isCallback, idleTerm, main, left>>

\* Mutant: the mutex does not keep a second worker out.
LockFiberAnyway(w) ==
    /\ wpc[w] = "lock"
    /\ m_mutex' = [m_mutex EXCEPT ![task[w].fiber] = w]
    /\ GotoW(w, "resume")
    /\ UNCHANGED <<queueVars, m_cache, m_state, at, waiter, waiterThread, owes,
                   task, isCallback, idleTerm, main, left>>

\* lock_guard on the fiber's mutex, blocking the worker.
LockFiber(w) ==
    /\ wpc[w] = "lock"
    /\ m_mutex[task[w].fiber] = None
    /\ m_mutex' = [m_mutex EXCEPT ![task[w].fiber] = w]
    /\ GotoW(w, "resume")
    /\ UNCHANGED <<queueVars, m_cache, m_state, at, waiter, waiterThread, owes,
                   task, isCallback, idleTerm, main, left>>

\* Mutant: the skip goes to the next task past the decrement.
SkipUncounted(w) ==
    /\ wpc[w] = "resume"
    /\ ~isCallback[w]
    /\ m_state[task[w].fiber] = "TERM"
    /\ m_mutex' = [m_mutex EXCEPT ![task[w].fiber] = None]
    /\ task' = [task EXCEPT ![w] = None]
    /\ GotoW(w, "pick")
    /\ UNCHANGED <<queueVars, m_cache, m_state, at, waiter, waiterThread, owes,
                   isCallback, idleTerm, main, left>>

\* A fiber task of a terminated fiber is skipped.
SkipTerminated(w) ==
    /\ wpc[w] = "resume"
    /\ ~isCallback[w]
    /\ m_state[task[w].fiber] = "TERM"
    /\ GotoW(w, "unlock")
    /\ UNCHANGED <<queueVars, m_cache, fiberVars, task, isCallback, idleTerm, main, left>>

\* Fiber::resume asserts READY; the worker is inside the fiber until it yields.
ResumeFiber(w) ==
    /\ wpc[w] = "resume"
    /\ m_state[task[w].fiber] = "READY"
    /\ m_state' = [m_state EXCEPT ![task[w].fiber] = "RUNNING"]
    /\ GotoW(w, "inside")
    /\ UNCHANGED <<queueVars, m_cache, m_mutex, at, waiter, waiterThread, owes,
                   task, isCallback, idleTerm, main, left>>

UnlockFiber(w) ==
    /\ wpc[w] = "unlock"
    /\ m_mutex' = [m_mutex EXCEPT ![task[w].fiber] = None]
    /\ GotoW(w, IF isCallback[w] THEN "release" ELSE "requeue")
    /\ UNCHANGED <<queueVars, m_cache, m_state, at, waiter, waiterThread, owes,
                   task, isCallback, idleTerm, main, left>>

\* Under MLFQ a fiber that is READY after its turn goes back on the queue.
Requeue(w) ==
    /\ wpc[w] = "requeue"
    /\ IF m_policy = "MLFQ" /\ m_state[task[w].fiber] = "READY"
       THEN Schedule(task[w].fiber, task[w].thread)
       ELSE UNCHANGED m_tasks
    /\ GotoW(w, "decrement")
    /\ UNCHANGED <<m_activeThreadCount, m_stopping, m_policy, m_cache, fiberVars, task,
                   isCallback, idleTerm, main, left>>

\* A callback fiber that has terminated goes back to the pool, if it has room.
Release(w) ==
    /\ wpc[w] = "release"
    /\ m_cache' = IF m_state[task[w].fiber] = "TERM" /\ Len(m_cache) < MaxCachedPerKey
                  THEN Append(m_cache, task[w].fiber) ELSE m_cache
    /\ GotoW(w, "decrement")
    /\ UNCHANGED <<queueVars, fiberVars, task, isCallback, idleTerm, main, left>>

Decrement(w) ==
    /\ wpc[w] = "decrement"
    /\ m_activeThreadCount' = m_activeThreadCount - 1
    /\ task' = [task EXCEPT ![w] = None]
    /\ isCallback' = [isCallback EXCEPT ![w] = FALSE]
    /\ GotoW(w, "pick")
    /\ UNCHANGED <<m_tasks, m_stopping, m_policy, m_cache, fiberVars, idleTerm, main,
                   left>>

-----------------------------------------------------------------------------
(* User code and the library code it calls, on fiber f inside worker w.    *)

Executes(w, f) == wpc[w] = "inside" /\ task[w].fiber = f

\* A wait of sync.h: the waiter is queued with the thread it waits on.
StartWait(w, f) ==
    /\ Executes(w, f) /\ at[f] = "run"
    /\ isCallback[w] => CallbacksYield
    /\ Spend("waits")
    /\ waiter' = [waiter EXCEPT ![f] = "queued"]
    /\ waiterThread' = [waiterThread EXCEPT ![f] = w]
    /\ GotoF(f, "test")
    /\ UNCHANGED <<queueVars, m_cache, m_state, m_mutex, owes, workerVars, main>>

\* SuspendCurrentUntilNotified: go on with the flag set, else yield.
Test(w, f) ==
    /\ Executes(w, f) /\ at[f] = "test"
    /\ GotoF(f, IF waiter[f] = "queued" THEN "yield" ELSE "run")
    /\ waiter' = [waiter EXCEPT ![f] = IF @ = "notified" THEN "none" ELSE @]
    /\ UNCHANGED <<queueVars, m_cache, m_state, m_mutex, waiterThread, owes,
                   workerVars, main, left>>

\* NotifyWaiter, first the flag ...
Notify(w, f, g) ==
    /\ Executes(w, f) /\ at[f] = "run"
    /\ waiter[g] = "queued"
    /\ waiter' = [waiter EXCEPT ![g] = "notified"]
    /\ owes' = [owes EXCEPT ![f] = [fiber |-> g, thread |-> waiterThread[g]]]
    /\ GotoF(f, "post")
    /\ UNCHANGED <<queueVars, m_cache, m_state, m_mutex, waiterThread, workerVars,
                   main, left>>

\* ... then the task.
Post(w, f) ==
    /\ Executes(w, f) /\ at[f] = "post"
    /\ Schedule(owes[f].fiber, owes[f].thread)
    /\ owes' = [owes EXCEPT ![f] = None]
    /\ GotoF(f, "run")
    /\ UNCHANGED <<m_activeThreadCount, m_stopping, m_policy, m_cache, m_state, m_mutex,
                   waiter, waiterThread, workerVars, main, left>>

\* scheduleLock(Fiber::GetThis()) and then yield().
Reschedule(w, f) ==
    /\ Executes(w, f) /\ at[f] = "run"
    /\ isCallback[w] => CallbacksYield
    /\ Spend("yields")
    /\ Schedule(f, AnyThread)
    /\ GotoF(f, "yield")
    /\ UNCHANGED <<m_activeThreadCount, m_stopping, m_policy, m_cache, m_state, m_mutex,
                   waiter, waiterThread, owes, workerVars, main>>

\* User code schedules a callback.
Spawn(w, f) ==
    /\ Executes(w, f) /\ at[f] = "run"
    /\ Spend("callbacks")
    /\ Schedule(Callback, AnyThread)
    /\ UNCHANGED <<m_activeThreadCount, m_stopping, m_policy, m_cache, fiberVars,
                   workerVars, main>>

\* Fiber::yield: the fiber is READY while the worker is still on its stack ...
Yield(w, f) ==
    /\ Executes(w, f) /\ at[f] = "yield"
    /\ m_state[f] = "RUNNING"
    /\ m_state' = [m_state EXCEPT ![f] = "READY"]
    /\ GotoF(f, "switch")
    /\ UNCHANGED <<queueVars, m_cache, m_mutex, waiter, waiterThread, owes,
                   workerVars, main, left>>

\* ... until the switch has saved the context.
Switch(w, f) ==
    /\ Executes(w, f) /\ at[f] = "switch"
    /\ GotoF(f, "test")
    /\ GotoW(w, "unlock")
    /\ UNCHANGED <<queueVars, m_cache, m_state, m_mutex, waiter, waiterThread, owes,
                   task, isCallback, idleTerm, main, left>>

\* Fiber::MainFunc: the callback has returned, m_state = TERM ...
Finish(w, f) ==
    /\ Executes(w, f) /\ at[f] = "run"
    /\ m_state' = [m_state EXCEPT ![f] = "TERM"]
    /\ GotoF(f, "leave")
    /\ UNCHANGED <<queueVars, m_cache, m_mutex, waiter, waiterThread, owes,
                   workerVars, main, left>>

\* ... and, still on the fiber's stack, it yields for the last time.
Leave(w, f) ==
    /\ Executes(w, f) /\ at[f] = "leave"
    /\ m_state[f] = "TERM"
    /\ GotoF(f, "ended")
    /\ GotoW(w, "unlock")
    /\ UNCHANGED <<queueVars, m_cache, m_state, m_mutex, waiter, waiterThread,
                   owes, task, isCallback, idleTerm, main, left>>

FiberStep(w) ==
    \E f \in Fiber :
        \/ StartWait(w, f)
        \/ Test(w, f)
        \/ \E g \in Fiber : Notify(w, f, g)
        \/ Post(w, f)
        \/ Reschedule(w, f)
        \/ Spawn(w, f)
        \/ Yield(w, f)
        \/ Switch(w, f)
        \/ Finish(w, f)
        \/ Leave(w, f)

WorkerStep(w) ==
    \/ Pick(w)
    \/ PickNone(w)
    \/ Idle(w)
    \/ AcquireCached(w)
    \/ AcquireNew(w)
    \/ LockFiber(w)
    \/ SkipTerminated(w)
    \/ ResumeFiber(w)
    \/ UnlockFiber(w)
    \/ Requeue(w)
    \/ Release(w)
    \/ Decrement(w)

\* After stop() nothing is left to do.
Stopped == main = "stopped" /\ UNCHANGED vars

Next ==
    \/ \E f \in Fiber, thread \in Worker \cup {AnyThread} : SubmitFiber(f, thread)
    \/ \E thread \in Worker \cup {AnyThread} : SubmitCallback(thread)
    \/ Stop
    \/ Join
    \/ \E w \in Worker : WorkerStep(w) \/ FiberStep(w)
    \/ Stopped

Spec == Init /\ [][Next]_vars

\* Threads run: the workers and the user code on them make progress, and
\* stop() is called and goes on.
FairSpec ==
    /\ Spec
    /\ \A w \in Worker : WF_vars(WorkerStep(w)) /\ WF_vars(FiberStep(w))
    /\ WF_vars(Stop) /\ WF_vars(Join)

-----------------------------------------------------------------------------
(* Properties.                                                             *)

\* The values every variable may take; the active count, which is unsigned,
\* does not go below zero, and the pool keeps within its bound.
TypeOK ==
    /\ m_tasks \in Seq(Task)
    /\ m_activeThreadCount \in Nat
    /\ m_stopping \in BOOLEAN
    /\ m_policy \in Policies
    /\ m_cache \in Seq(Fiber) /\ Len(m_cache) <= MaxCachedPerKey
    /\ m_state \in [Fiber -> {"NONE", "READY", "RUNNING", "TERM"}]
    /\ m_mutex \in [Fiber -> Worker \cup {None}]
    /\ at \in [Fiber -> {"run", "test", "yield", "switch", "post", "leave", "ended"}]
    /\ waiter \in [Fiber -> {"none", "queued", "notified"}]
    /\ waiterThread \in [Fiber -> Worker \cup {AnyThread}]
    /\ owes \in [Fiber -> Task \cup {None}]
    /\ wpc \in [Worker -> {"off", "pick", "idle", "acquire", "lock", "resume", "inside",
                           "unlock", "requeue", "release", "decrement", "exited"}]
    /\ task \in [Worker -> Task \cup {None}]
    /\ isCallback \in [Worker -> BOOLEAN]
    /\ idleTerm \in [Worker -> BOOLEAN]
    /\ main \in {"submit", "join", "stopped"}

\* fiber.cpp: resume() is for READY fibers only.  When a worker is about to
\* resume the fiber it has locked, the fiber is READY, so that nobody else is on
\* its stack, or it is the terminated fiber of a fiber task, which is skipped.
ResumesReadyOnly ==
    \A w \in Worker : wpc[w] = "resume" =>
        \/ m_state[task[w].fiber] = "READY"
        \/ m_state[task[w].fiber] = "TERM" /\ ~isCallback[w]

\* fiber.cpp: yield() is for a fiber that is RUNNING or has terminated; in
\* particular nothing resets a fiber that has not left its stack yet.
YieldsRunningOrTerm ==
    \A w \in Worker, f \in Fiber :
        Executes(w, f) /\ at[f] \in {"yield", "leave"} => m_state[f] \in {"RUNNING", "TERM"}

\* A pooled fiber is free for reuse: it has terminated and left its stack, it
\* is pooled once, and no worker has it as the fiber of a callback.
PooledIsFree ==
    /\ IsInjective(m_cache)
    /\ \A i \in DOMAIN m_cache :
           /\ m_state[m_cache[i]] = "TERM"
           /\ \A w \in Worker : task[w] # None /\ task[w].fiber = m_cache[i] =>
                  /\ wpc[w] # "inside"
                  /\ isCallback[w] => wpc[w] \in {"release", "decrement"}

\* A worker leaves the loop only when the scheduler stops and everything that
\* was queued or running, and all that this queued in turn, is finished.
ExitsOnlyWhenDone ==
    \A w \in Worker : wpc[w] = "exited" =>
        m_stopping /\ m_tasks = <<>> /\ \A v \in Worker : task[v] = None

\* The fiber has yielded in a wait that is over.
ReadyToGo(f) == at[f] \in {"switch", "test"} /\ waiter[f] = "notified" /\ m_state[f] = "READY"

\* stop() returns.  (Under the policies whose ranking is left open a task may be
\* passed over for ever.)
StopReturns == m_policy = "FIFO" /\ main = "join" ~> main = "stopped"

\* A fiber whose wait is over runs again: the notifier's task gets it resumed,
\* whichever of them was faster, the fiber to yield or the notifier to post.
NotifiedRuns ==
    \A f \in Fiber : m_policy = "FIFO" /\ ReadyToGo(f) ~> m_state[f] = "RUNNING"
=============================================================================
