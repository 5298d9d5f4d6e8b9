# A TLA+ development of Coroutine-lib

This directory specifies Coroutine-lib, an M:N coroutine library in C++ (stackful fibers, a
multi-threaded scheduler, an epoll reactor, hooked system calls and Go-like synchronisation), in
TLA+. TLC checks the modules on small instances; TLAPS proves theorems about them for every value of
the constants. `PROJECT.json` lists components, runs, mutants, hazards, findings and theorems, and
maps every definition to the lines it stands for.

    tlc -config CoMutex.cfg MCCoMutex.tla         # likewise for every run of PROJECT.json
    tlapm CoMutex_proofs.tla                      # likewise for every *_proofs module

## 1. The system

| part | source | state | operations | talks to |
|---|---|---|---|---|
| Fiber | `src/src/fiber.cpp` | `m_state` READY/RUNNING/TERM, context, stack or snapshot on a shared slot, `m_parent`, `m_mutex` | `resume`, `yield`, `reset`, `call`/`back`, `MainFunc` | thread-local scheduler fiber |
| Scheduler | `src/src/scheduler.cpp`, `scheduler.h` | `m_tasks`, `m_activeThreadCount`, `m_idleThreadCount`, `m_stopping`, `m_policy`, `m_threads` | `scheduleEx`, `run`, `pickNextTaskLocked`, `stop`, `idle`, `stopping`, `tickle` | resumes fibers, takes callback fibers from the pool |
| CoroutinePool | `src/src/coroutine_pool.cpp` | `m_cache`: key to terminated fibers, at most `m_maxCachedPerKey` each | `acquire`, `release`, `clear` | resets fibers |
| CoMutex, WaitGroup, Channel | `include/mycoroutine/sync.h` | owner, count, buffer, and queues of `FiberWaiter` | `lock/tryLock/unlock`, `add/done/wait`, `send/recv/close` | yield, and post tasks through `SchedulerRef` |
| IOManager | `src/src/iomanager.cpp` | `m_fdContexts` (events and their fiber or callback), `m_pendingEventCount`, the eventfd | `addEvent`, `delEvent`, `cancelEvent`, `cancelAll`, `idle`, `stopping`, `tickle` | is a Scheduler and a TimerManager |
| Timers | `src/src/timer.cpp` | `m_timers` ordered by expiry, `m_tickled`, `m_previouseTime` | `addTimer`, `cancel`, `refresh`, `reset`, `listExpiredCb` | tickle when a timer becomes the first |
| Hooked calls | `src/src/hook.cpp` | `timer_info::cancelled` per call | `do_io`, `connect`, `sleep`, `close`, `fcntl`, ... | event, timer, yield, retry |
| FdManager | `src/src/fd_manager.cpp` | `m_datas`, flags of each `FdCtx` | `get`, `del` | used by the hooks |
| Thread, Semaphore, log, context switch | `thread.cpp`, `utils.cpp`, `*.S` | | | wrappers of pthread, assembly |

How they interact: everything that suspends a fiber ends in `Fiber::yield`, everything that continues
one ends in a task in `m_tasks`. Between the decision to suspend and the yield the fiber is still on
its worker, while the task that continues it can already be in the queue; a worker that picks such a
task blocks on `Fiber::m_mutex`, which `Scheduler::run` holds across `resume()`. That one discipline
carries the library, and most of what is hard follows from it.

What is hard, component by component, and what makes the component correct:

* **Waiting and notifying** (`sync.h`). The flag, the test, the yield and the task are four
  steps in any order. No wakeup may be lost, and tasks that come too late must do no harm.
* **CoMutex**. The mutex changes hands before the new owner runs: exclusion, no overtaking, and no
  owner that nobody wakes.
* **WaitGroup**. Waiters race with the last `done()` and with the reuse of the group.
* **Channel**. Woken fibers compete with newcomers, and on a synchronous channel both sides wait for
  each other: enough wakeups must be under way, values must be neither lost, doubled nor reordered,
  and `close()` must release all.
* **Fiber**. Fibers share stack slots, and a call may lead from a slot over other stacks back to it: every
  fiber finds its frames as it left them, and each child returns to its own parent.
* **Scheduler**. One worker per stack, no exit while work is under way, `stop()` returns.
* **Pool**. What it hands out must be free: terminated, off its stack, and expected by no old task.
* **IOManager**. An event arrives before, during or after its registration, and events are cancelled
  between `epoll_wait` and their dispatch: whoever ends a registration, the fiber gets one task, the
  pending count goes down by one, and what is left stays watched. Tickles are saved and dropped, yet what
  is scheduled must run. `stopping()` reads three pieces of state one after another.
* **Timers**. `cancel()`, `reset()` and expiry meet on different threads: no callback after a
  cancel, no timer slept over.
* **Hooked calls**. Event, timeout and `close()` race to end a wait. Each wait ends once, a timer does
  not outlive its call, and nobody stays behind on a closed descriptor (they may: see `HookedClose`).

The tests hardly reach these: `tests/sync` and `tests/policy` never call `start()`, so whatever the
number of threads they ask for, the tasks run on the thread of `stop()` alone.

## 2. The modules

**FiberWaiter** is the machinery of `namespace detail` in `sync.h`, with the scheduler reduced to the
number of tasks queued for each fiber (`resumes`). `pc[f]` is where fiber `f` is: in the loop of
`SuspendCurrentUntilNotified` (`test`, `yield`, `parked`), or notifying the waiters it has popped
(`notify` sets the flag, `schedule` posts the task, waiter by waiter through the list `toWake[f]`). Each
of these is a step of its own, so another fiber can do anything in between. A waiter belongs to one
call, and a fiber is in one call at a time, so `notified[f]` is the flag of the waiter of the
call `f` is in. `Requeue` is the spurious resume MLFQ gives to a fiber that is READY when it leaves
the worker. A worker that holds a task of a fiber that still runs waits outside: here the task just
stays, and `Resume` needs the fiber parked.

**CoMutex**, **WaitGroup** and **Channel** extend it. Each block under `std::lock_guard` is one
action; the branches of a block are actions of their own (`LockFree`, `LockContended`; `SendPut`,
`SendWait`, `SendClosed`). A call that finds nothing to do (a `tryLock()` that fails, a second
`close()`) changes nothing and is left out. `assert`s on the caller (`unlock()` by the owner, a count
that stays at or above zero) are guards: the fibers use the primitives as they are meant to be used.
`m_capacity` of Channel is set by the constructor and never changes; `op`, `val` and `ret` are what the
caller can see of a call.

**FairLock** and **FifoChannel** are what CoMutex and Channel promise, without waiters, flags and
tasks. A client of FairLock that finds the lock taken stands in one queue and gets the lock in that
order; on FifoChannel each call takes effect at once, in one step between call and return.

**SharedStack** is the fibers of one thread, with stacks of their own or on shared slots: `resume`, `call`,
`yield`, `back`, `reset`, the end of `MainFunc`, and what code on a fiber does to its stack (`Enter`,
`Return`). A stack is counted in frames from where it starts, and the first cell is the return address that
`InitFiberContextStack` writes; `sp` is the stack pointer of the fiber that runs and `m_ctx[f]` the one saved for
`f`, 0 before it has a context. `PrepareSharedStack` is all of `prepareSharedStack()` in its order: slot, context,
save, restore, owner. `m_parent` stands for the pointer and for `m_returnToParent`, which are set and dropped
together; a parent cannot expire, as `call()` holds it. `Replace` drops an ended fiber, whose slot then has no
owner, for a new one. A call that returns an error changes nothing and is left out, and only the main fiber
resumes: from elsewhere `resume()` would overwrite the main fiber's context. **PrivateStacks** is what it
promises: one fiber runs, and only that one's frames change.

**Scheduler** is `Scheduler::run` on any number of workers with the fibers and the pool in full.
`wpc[w]` follows the loop: `pick`, then `lock`, `resume`, `inside`, `unlock`, `requeue`, `decrement`
for a fiber, with `acquire` before and `release` after for a callback, or `idle`. `task[w]` is the local
`task` (for a callback, with its `cb_fiber`). `at[f]` is where the code on the fiber is, and it
stays there while the fiber is parked. A fiber is READY, or TERM, before the switch that takes the
worker off its stack, so `Yield` and `Switch`, `Finish` and `Leave` are two steps each; the mutex held
across `resume()` is what keeps a second worker out in between. User code may do anything the library offers: wait
as `sync.h` waits (`StartWait`, `Test`), notify (`Notify`, then `Post`), reschedule itself and yield,
schedule a callback; `Budget` bounds how often, `CallbacksYield` says whether callbacks do it too. The
base class is modelled: `tickle()` does nothing and an idle worker polls. Policies other than FIFO pick
any task the worker may run; what matters here is that under MLFQ a READY fiber is queued again. `m_policy` is
chosen at the start. Which of the unused objects becomes a new fiber makes no difference, so it is fixed (`IsNext`).
`SchedulerRef` (valid until the destructor runs) and the counter of idle threads have no effect on
this state and are left out.

**FdContext** has the operations on one descriptor context, each a block under `FdContext::mutex`:
`events[fd]` and `ctx[fd]` are its fields, `interest[fd]` what epoll was told to watch, `edge[fd]` what
epoll has to report. epoll is edge triggered, as the code asks for: a report is taken once, and there is
another only when something becomes ready again or `epoll_ctl` is called while it is (`ready`). A report that
is dropped is gone. `isOpen` says whether the descriptor is open, as `epoll_ctl` fails otherwise.

**TimerManager** has the blocks under `TimerManager::m_mutex`. `m_next[t]` is what is left until the
deadline and is counted down by a tick; `m_cb[t]` says whether there is a callback. Which of several timers
with one deadline comes first is open (the heap orders them by address). `Timer::reset` is two blocks
with a gap. Timers may be of 0 ms, as that of `sleep(0)` is, but for recurring ones (section 5). **TimerContract**
is what `timer.h` promises of it: `phase` and the callbacks handed out.

**IOManager** extends both. `pc[w]` follows `Scheduler::run` (`pick`, `resume`, `user`, `yield`) and the
loop of `idle()`: `askTimers`, `askPending` and `askBase` are the three reads of `stopping()`, `arm` the
second `getNextTimer()`, `epoll` the wait, then `expire`, `post` (one callback at a time) and `events`. `batch[w]` is what
`epoll_wait` returned to `w` and `cbs[w]` what `listExpiredCb` did; other threads act before these are
handled. What a task does on its worker, and the main thread beside it, is user code: any call on events
and timers; all of it together makes `Budget` calls. `scheduleLock` decides on a tickle with the queue locked and
sends it later, so `Tickle` is a step of its own; it does nothing when no worker is idle. `Stop` is
four steps, the first of which is the `stopping()` that asks for the first timer and so clears `m_tickled`.
`tickled` is the eventfd on epoll's ready list. The fiber and its stack are as coarse as the reactor
needs: a fiber is READY when it has left its worker, and `ResumeTask` waits for that as `Fiber::m_mutex`
makes it do. The caller's thread is not a worker (`use_caller` false). The policy
is FIFO; MLFQ would queue a fiber that yields once more, before its event comes (hazard at
`scheduler.cpp:226`).

**HookedIO** puts fibers in hooked calls over FdContext and TimerContract; that TimerManager keeps the
contract under all of IOManager's races is what run `IOManager` checks, so here timers just expire at
any time. `pc[f]` follows a call: `try` is the system call, `add` comes after the timer is armed, `parked`
after `addEvent`, `resumed` before `timer->cancel()`, `check` after it. `do_io` and `connect_with_timeout` differ
in what follows `check` and share their actions. `owner[t]` stands for the weak pointer to `timer_info`: None once
the call is over. The timeout's callback is two steps (`Callback` sets the flag, `CallbackCancels` cancels
the event) and so is `close()` around `cancelAll`. A descriptor number is used again by `Socket`. The
scheduler is reduced to `tasks[f]` and FIFO: under MLFQ a fiber that yields in `do_io` or `sleep` has another
task at once, and the hooked call gives up. `Arrives` makes a descriptor ready (`avail`), and epoll,
edge triggered, returns reports of one event each, held by some worker until it handles them: what is
ready but was reported is not reported again. `FdMgr::del` and the kernel's close are one step (`CloseEnds`).
In between the context is gone and the number still in use: a call that starts there is passed on unhooked
and returns at once, as the socket does not block.

`MCCoMutex`, `MCWaitGroup`, `MCChannel`, `MCSharedStack`, `MCScheduler`, `MCIOManager` and `MCHookedIO` give TLC budgets,
starting points and symmetry sets.
Definitions introduced as mutants are faulty versions of the action that follows them, named for the
fault; no specification uses them. They show that a property notices the fault.

## 3. The runs

| run | instance | what it shows |
|---|---|---|
| `CoMutex` | 3 fibers, 130,842 states | mutual exclusion, wakeups kept, the notified fiber is the owner; FairLock implemented; every `lock()` returns |
| `WaitGroup` | 3 fibers, counts up to 2, 132,093 states | wakeups kept, no waiter in two places, a lasting zero releases all |
| `ChannelSafety` | 3 fibers, 2 values, capacity 0 and 2, 2,032,557 states | nobody stranded, no missed rendezvous, accepted values are taken, FifoChannel implemented |
| `ChannelLive` | 3 fibers, capacity 0 and 1, 420,288 states | `close()` releases all; with senders and receivers all blocked, someone proceeds |
| `SharedStack` | 3 fibers on 2 shared slots, 1 with its own stack, stacks of 2 cells, 1,319,030 states | PrivateStacks implemented: no frame lost or mixed up; callers wait, and nobody runs when the thread does |
| `Scheduler` | 2 workers (one is the caller); FIFO with 2 fibers, MLFQ with 1 fiber and 2 callbacks, 443,779 states | a fiber is resumed only when READY and pooled only when free, though tasks that are not needed are around; exit only when all is done; under FIFO `stop()` returns and a fiber whose wait is over runs again |
| `IOManager` | 2 workers and the main thread, 1 fiber, both events of 1 descriptor, 2 timers (1 recurring), 2,584,700 states | one way back for a waiting fiber, exact pending count, all that is registered is watched, no timer slept over, TimerContract implemented |
| `IOManagerLive` | as before with 1 event, reported as a hangup; 2 timers (1 recurring), 496,176 states | dropped tickles only delay; armed timers expire, the recurring one again and again; `stop()` returns |
| `HookedIO` | 2 fibers, 1 descriptor open with a read timeout, 2 timers, 3 calls, 385,015 states | a wait ends once, timers end with their wait, data and timeouts are never missed |
| `HookedClose` | the same | violated: a wait is registered on a closed descriptor |
| `SchedulerStaleTask` | callbacks that wait, 2 workers | violated: a pooled fiber is resumed by a task from its former life |
| `SchedulerEarlyRelease` | callbacks that reschedule themselves, 2 workers | violated: a fiber is pooled and reset while a worker is on its stack |

Properties worth reading twice:

* `NoLostWakeup` says of every fiber that waits where its wakeup is: the fiber is queued, or popped and
  about to be notified, or can see its flag; and if it has decided to yield with the flag set, a task
  is queued or about to be.
* `NobodyStranded` counts: while receivers are queued, the buffered values are at most as many
  as the receivers under way, woken ones and newcomers, and so for senders and free places.
  This is what makes one wakeup per value enough although anybody may take the value.
* `RendezvousNotMissed`: a sender and a receiver both queued on a synchronous channel is a legal state
  only while a value or a sender is on its way.
* `ExitsOnlyWhenDone` is what `stopping()` under one lock is for: no worker leaves before the tasks
  under way, and those they will queue, are finished.
* `OneWayBack` of IOManager and of HookedIO counts, for each fiber, its registrations, its tasks and its
  sleep timers: one if it waits and none otherwise, whatever the order of report, timeout and cancellation.
  It is about FIFO; MLFQ adds a task for each fiber that yields.
* `FirstTimerWatched` is what `m_tickled` must not break: while there is a timer, some worker will ask for
  it, or is about to be woken, or sleeps no longer than until it is due.
* `KeepsTimerContract` covers the gap in `Timer::reset`: a cancel there is not undone by the second half.
* `TimedWaitEnds` is limited to waits whose timer has not fired yet. A timer that fires before `addEvent`
  finds nothing to cancel, and the wait then has no timeout (hazard at `hook.cpp:184`).

**Bounds.** `MaxStale` bounds the tasks a fiber may have lying about before it starts a new call or is
requeued needlessly; one is enough for a spurious resume at any point of a wait. Three fibers let one
hold, one wait and one interfere; with two waiters the order of a queue shows. Capacity 2 lets the buffer be
neither empty nor full, which the wakeups depend on, and two values tell order, loss and duplication
apart. Two workers are what a race over one fiber takes. In Scheduler the number of fiber objects
suffices for the budgets: a further object is made only when the pool is empty.
In SharedStack three fibers are needed to share two slots in turns, and a stack of two cells tells a frame that is
there from one that is not; a third cell (one slot, two fibers) shows nothing more.
In IOManager two workers and the main thread make any two of report, expiry, cancellation, reset and stop
meet; two user calls in all, of tasks, callbacks or the main thread, are enough for each pair, as what came before
is part of the starting point (`Preset`), in `IOManagerLive` one. `MaxMs` and `MaxTimeout` are small because only
which is first matters: of a timer of 0 ms and one of 1 ms it is clear, of two alike it is open. In the runs a
report holds one event of a descriptor. With both in one report, and one of them unregistered before
it is handled, the assertion in `triggerEvent` fails (hazard at `iomanager.cpp:573`): the model has no step
there and no property speaks of it. In HookedIO three calls are a wait, a `close` and a new
`socket` on its number, or a timed wait, its end and a later sleep; two timers let one be late while the
next is armed.

**Fairness.** `FairSpec` gives each fiber weak fairness for the steps a fiber on a worker makes by
itself and for `Resume`: kernel threads run, and the workers drain their queues (run `Scheduler` checks
this: `NotifiedRuns`). No call is forced, `Requeue` is not forced, and an owner of a CoMutex does
unlock (critical sections end). In Scheduler workers, code on fibers, `Stop` and `Join` are fair.
In IOManager each worker
thread is fair for all it does (user code returns), and so are time and, once it was called, `stop()`; that epoll
finds something ready is not forced. In HookedIO the fibers on workers, the expiry of timers and their
callbacks, and epoll are fair (`IOManagerLive` and `Scheduler` are the reason); no call and no arrival is.
Liveness under MLFQ is not claimed: a parked fiber that nobody notifies is queued again for ever, so
the queue never empties.

**Deadlock** is checked in all runs but those of HookedIO: there a fiber may wait for a peer
that never sends, and nothing else has to happen. Elsewhere, where the system may rest, a step says so exactly: all
fibers returned (`Terminated`), waits that nobody will end (`Quiescent`), or `stop()` done. In IOManager time
goes on for ever (`Tick`), so a standstill shows in the liveness properties and not as a deadlock.

**What the violations mean.** The two of Scheduler concern callbacks that give up the worker before they
end, with two or more workers. A callback's worker reads the fiber's state after unlocking the fiber (`scheduler.cpp:261`); by then
another worker may have run it to TERM without having left the stack, and the fiber goes to the pool
too early. And a notification that arrives before the yield leaves a task in the queue that may
outlive the callback it was for. Fiber tasks do not have these problems, since their fibers are not
reused, nor do callbacks that never yield (run `Scheduler`), nor a single worker (`OneWorkerIsSafe`).

`HookedClose` concerns two fibers on one descriptor. The closed flag is looked at only when a call begins.
A call that is already past it, or that `cancelAll` itself has resumed and that tries again before the
descriptor is closed, registers its event after `cancelAll`. The kernel then drops the descriptor from epoll,
the fiber is never resumed, its timeout fails in `epoll_ctl`, and the pending count keeps `stop()` from
returning. Nobody else stays behind: `CloseWakesWaiters` (section 4).

**What does not hold and has no run.** While modelling IOManager, TLC also showed that workers can all leave with
an event or timer registered (`stopping()` in three reads: hazard at `iomanager.cpp:447`) and the failing
assertion named above. These are recorded as hazards with a note.

## 4. The proofs

Every invariant of the passing runs, and every refinement, is a theorem for every value of the constants that
the assumptions allow.

| module | theorem | states |
|---|---|---|
| `CoMutex_proofs` | `TypeCorrect`, `MutexSafe`, `RecheckSucceeds` | `[]TypeOK`, `[]MutualExclusion`, `[]NotifiedIsOwner` |
| | `WakeupsAreKept`, `MutexNotLeaked`, `FairLockRefined` | `[]NoLostWakeup`, `[]OwnerIsComing`, `ImplementsFairLock` |
| `WaitGroup_proofs` | `TypeCorrect`, `WakeupsAreKept`, `OnePlacePerWaiter` | `[]TypeOK`, `[]NoLostWakeup`, `[]WaiterInOnePlace` |
| `Channel_proofs` | `TypeCorrect`, `WakeupsSuffice`, `RendezvousMet` | `[]TypeOK`, `[]NobodyStranded`, `[]RendezvousNotMissed` |
| | `FifoChannelRefined` | `ImplementsFifoChannel` |
| `SharedStack_proofs` | `TypeCorrect`, `CallsNest`, `PrivateStacksRefined` | `[]TypeOK`, `[]CallersWait`, `ImplementsPrivateStacks` |
| `Scheduler_proofs` | `TypeCorrect`, `LeavesNothingUndone` | `[]TypeOK`, `[]ExitsOnlyWhenDone` |
| | `ResumesFreeFibers`, `PoolHoldsFreeFibers`, `YieldsOwnFiber` | without yielding callbacks: `[]ResumesReadyOnly`, `[]PooledIsFree`, and that a fiber that yields is RUNNING or has ended |
| | `OneWorkerIsSafe` | with one worker, callbacks yielding or not: all three |
| `IOManager_proofs` | `TypeCorrect`, `CountIsExact`, `WatchedIsRegistered` | `[]TypeOK`, `[]PendingIsExact`, `[]RegisteredIsWatched` |
| | `FirstTimerIsWatched`, `EachHasOneWayBack`, `TimerContractKept` | `[]FirstTimerWatched`, `[]OneWayBack`, `KeepsTimerContract` |
| `HookedIO_proofs` | `TypeCorrect`, `EachHasOneWayBack`, `TimersHaveCallers` | `[]TypeOK`, `[]OneWayBack`, `[]TimersBelongToWaits` |
| | `CloseWakesWaiters` | `[][OnlyCloseForgets /\ CloseWakes]_vars`: who waits when `close()` cancels is woken |

`FiberWaiter_proofs` has the lemmas WaitGroup and Channel share: what pushing, popping and joining waiter queues
does to who is in them, and what the steps of a notification change.

**Assumptions.** Those the modules declare, and no others: designated values (`None`, `NoOwner`, `Main`, `Callback`) are none
of the things they stand beside, bounds are natural numbers, and the sets that are counted (workers, descriptors, the
timers of IOManager, the fibers of Channel) are finite. Any number of fibers, workers, descriptors, timers, values and
calls is covered, any capacity and stack size, and in Scheduler any policy; the theorems about IOManager and HookedIO
are about FIFO. The theorems about fibers in
Scheduler also assume, in their statement, `CallbacksYield = FALSE` or that there is one worker: `SchedulerStaleTask` and
`SchedulerEarlyRelease` show that with two workers and callbacks that yield two of the three properties fail.

**The inductive invariants.** No property is inductive as it stands; what each needs is the interesting part.

* *CoMutex.* Exclusion needs that a fiber whose flag is set while it waits is the owner, which needs that flags are
  set only for the fiber a hand-off named, which needs that queued fibers, told fibers and the owner are different.
* *WaitGroup.* A fiber in the queue or in a notifier's list waits and was not told; a notifier has somebody to notify.
  Then a waiter that is told finds its flag or a task, step by step through the list.
* *Channel.* A fiber is in one queue or one list, once, with a pending call of that queue's kind, and nobody waits on a
  closed channel. With that, `NobodyStranded` can be counted step by step: a value that comes into the buffer
  takes a receiver, if there is one, from the queue to those under way, and a value or a call that goes leaves as
  many behind as are still needed.
* *SharedStack.* `StackInv`: who runs owns its slot, the snapshot of a fiber that does not own its slot is as long as
  its saved stack pointer, and the first cell of every stack and snapshot in use is the return address, so that
  writing it again changes nothing. `ChainInv`: the RUNNING fibers form a chain from the one the thread resumed to the
  one that runs, each the parent of the next.
* *Scheduler.* `WorkInv` says what a worker has in hand at each point of `run()`, `CountInv` that `m_activeThreadCount` is
  the number of workers with a task, and `DoneInv` that once one idle fiber has ended nothing is queued or in hand. For
  the fibers: `RoleInv` (a fiber is meant for tasks of its own, hosts a callback, or is pooled: one of the three),
  `MutexInv` (who is inside a fiber holds its mutex), `StateInv` (the state tells whether a worker is inside).
  `RoleInv` is what yielding callbacks break: they make a fiber both host and notified. With one worker `SoloInv` does
  without it: a fiber may be both, but the one thread finishes with it before it takes the task that was left.
* *IOManager.* `FdInv` (bits, contexts, epoll and counter alike) carries two theorems by itself.
  `FirstTimerWatched` needs `WatchInv`, about timers or a set `m_tickled`: the eventfd is signalled, or a tickle is
  on its way, or some worker will ask before it sleeps. It also needs `StopInv`. Unlike in Scheduler, a worker whose
  idle fiber has ended may still run a task that another worker's report made, and that task may add a timer;
  while it runs, the idle fiber of some worker has not ended, and that one asks or is tickled. What the theorem
  does not say is that a worker stays: when all leave although a timer was added between the three reads of
  `stopping()` (hazard at `iomanager.cpp:447`), there is only the signalled eventfd, which nobody reads. `OneWayBack`
  needs only that a fiber that runs is RUNNING and on one worker.
* *HookedIO.* `Way(f)` names the one way back of `f`, and adds that it is the registration of the call `f` is in.
  `TimerInv`: an armed timer belongs to a call at a point that will cancel it, a call has one armed timer at most,
  and only a sleep's timer resumes. That epoll watches what is registered is not among it: after `close()` it does not.
  Only `close()` is the cause of that, as an action property says, and `CloseInv` (one fiber closes a descriptor, which is
  open until it is done) gives the other half of what it guarantees: `cancelAll` cannot be refused, so that, with `Way`,
  each fiber parked on the descriptor has a task after it.

**The refinements.** The first state maps to a first state, and under the invariant each step maps to a step or stutters:

* CoMutex to FairLock: each action is an action of FairLock or leaves its variables alone.
* Channel to FifoChannel: `SendPut` is `Put`, `RecvGet` is `Get`, `SendClosed` and `RecvClosed` are `Fail`, calling and
  closing are themselves; all the waiting, waking and competing stutters.
* SharedStack to PrivateStacks: `Enter` is `Push`, `Return` is `Pop`, and `Resume`, `Call`, `Yield` and `Finish` are
  `Switch`: saving one fiber's frames and restoring another's leaves everybody's frames as they were.
* IOManager to TimerContract: adding arms, `cancel` cancels, `listExpiredCb` expires a set of timers at once
  or stutters, running a callback's task takes it back. `refresh`, both halves of `reset`, and all else stutter.

**Only model-checked.** Liveness (`LockIsGranted`, `ZeroReleasesAll`, `CloseReleasesAll`, `SomeoneProceeds`, `NotifiedRuns`,
both `StopReturns`, `ScheduledGetsResumed`, `TimersExpire`, `ReadyWakes`, `TimedWaitEnds`), which rests on fairness
and is out of the prover's reach, and the three violations, each of which is one behaviour. So these hold on the
instances of section 3 and are not shown beyond them.

## 5. Not modelled, and the plan

Left out for good: context switch, threads, logging, tests and build files (no state of
interest); the destructors, `setCoroutinePoolMaxCachedPerKey` while running; misuse
that an `assert` forbids. A channel's fairness among its fibers is neither promised nor claimed.

Left out of modelled components, each with its hazard in `PROJECT.json` where it has one:

* shared-stack fibers under several workers: they are bound to the thread of their first run, and the reactor and
  MLFQ schedule them without a thread, a limit the documents name;
* the ranking of tasks by policy, which Scheduler leaves open, so that what it shows holds for any; the requeue of a
  READY fiber under MLFQ is in Scheduler and FiberWaiter, and left out of IOManager and HookedIO;
* `contextResize`: descriptors are below the initial 32;
* clock rollover with a recurring timer, and recurring timers of 0 ms: the loop of `listExpiredCb` does not end,
  so there is no step;
* the idle loop of a plain Scheduler sleeps by the hooked `sleep`, which takes an IOManager for granted; in the model
  it polls;
* EINTR, which only starts the wait of `epoll_wait` again;
* `fcntl`, `ioctl` and the blocking flags of `FdCtx`, and what calls return: errno, byte counts, `SO_ERROR`;
* `FdManager::get` in two threads on one number: the kernel gives a number to one of them.

What could come next:

1. **Which callbacks are safe.** `CallbacksYield = FALSE` is enough for the fibers of Scheduler with any number of
   workers, and nothing is needed with one. Which of the callbacks that yield are safe between these two is open.
2. **The left-out parts above**, the growth of the table of contexts first, as two threads meet in it.
