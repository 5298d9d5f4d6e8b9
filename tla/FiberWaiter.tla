---------------------------- MODULE FiberWaiter ----------------------------
(***************************************************************************)
(* The wait/notify machinery that CoMutex, WaitGroup and Channel share     *)
(* (include/mycoroutine/sync.h, namespace detail) seen from the fibers.    *)
(*                                                                         *)
(* A fiber that has to wait pushes a FiberWaiter on the primitive's queue  *)
(* under the primitive's mutex, leaves the mutex, and yields until the     *)
(* waiter's `notified` flag is set.  A notifier pops waiters under the     *)
(* mutex, leaves it, and then, waiter by waiter, sets the flag and posts a *)
(* task for the fiber to the scheduler.  Every one of these is a step of   *)
(* its own here: the flag may be set before, between or after the other    *)
(* fiber's test and its yield, and the task may be posted long after the   *)
(* fiber has gone on.                                                      *)
(*                                                                         *)
(* The scheduler is reduced to what it promises: a worker consumes a task  *)
(* of a fiber only when the fiber is off the processor (Scheduler::run     *)
(* holds Fiber::m_mutex across resume()) and drops it when the fiber has   *)
(* terminated.  Scheduler.tla models it in full.                           *)
(***************************************************************************)
EXTENDS Naturals, SequencesExt

CONSTANTS
    Fiber,      \* the fibers that use the primitive
    MaxStale    \* bound: tasks of a fiber beyond which it is not rescheduled
                \* needlessly and starts no further operation

VARIABLES
    pc,         \* [Fiber -> label]: where each fiber is in its operation
    notified,   \* [Fiber -> BOOLEAN]: FiberWaiter::notified of the waiter of
                \* the operation the fiber is in (one waiter per operation)
    resumes,    \* [Fiber -> Nat]: tasks in Scheduler::m_tasks for the fiber
    toWake      \* [Fiber -> Seq(Fiber)]: waiters the fiber popped and has
                \* still to notify (the locals next_waiter, to_wake, ...)

waiterVars == <<pc, notified, resumes, toWake>>

\* Where a fiber is from the push of its waiter to the test that lets it go.
Waiting == {"test", "yield", "parked"}

\* Where a fiber is while it notifies the waiters it has popped.
Notifying == {"notify", "schedule"}

FiberWaiterInit ==
    /\ pc = [f \in Fiber |-> "run"]
    /\ notified = [f \in Fiber |-> FALSE]
    /\ resumes = [f \in Fiber |-> 0]
    /\ toWake = [f \in Fiber |-> <<>>]

Goto(f, label) == pc' = [pc EXCEPT ![f] = label]

-----------------------------------------------------------------------------
(* The waiting side: SuspendCurrentUntilNotified.                          *)

\* The test of the loop: it leaves with the flag set, else it will yield.
TestNotified(f, next) ==
    /\ pc[f] = "test"
    /\ Goto(f, IF notified[f] THEN next ELSE "yield")
    /\ UNCHANGED <<notified, resumes, toWake>>

\* Fiber::yield gives the worker back; the fiber is READY and parked.
Yield(f) ==
    /\ pc[f] = "yield"
    /\ Goto(f, "parked")
    /\ UNCHANGED <<notified, resumes, toWake>>

(* The notifying side: NotifyWaiter on each waiter of toWake[f].           *)

\* waiter->notified.store(true)
StoreNotified(f) ==
    /\ pc[f] = "notify"
    /\ notified' = [notified EXCEPT ![Head(toWake[f])] = TRUE]
    /\ Goto(f, "schedule")
    /\ UNCHANGED <<resumes, toWake>>

\* Mutant: the task is posted only if the fiber is seen parked.
ScheduleIfParked(f, next) ==
    /\ pc[f] = "schedule"
    /\ resumes' = [resumes EXCEPT ![Head(toWake[f])] =
                      IF pc[Head(toWake[f])] = "parked" THEN @ + 1 ELSE @]
    /\ toWake' = [toWake EXCEPT ![f] = Tail(@)]
    /\ Goto(f, IF Len(toWake[f]) = 1 THEN next ELSE "notify")
    /\ UNCHANGED notified

\* scheduler_ref->schedule(waiter->fiber, waiter->threadId), then the next
\* waiter of the list or on with the operation.
ScheduleWaiter(f, next) ==
    /\ pc[f] = "schedule"
    /\ resumes' = [resumes EXCEPT ![Head(toWake[f])] = @ + 1]
    /\ toWake' = [toWake EXCEPT ![f] = Tail(@)]
    /\ Goto(f, IF Len(toWake[f]) = 1 THEN next ELSE "notify")
    /\ UNCHANGED notified

-----------------------------------------------------------------------------
(* The scheduler, as the fibers see it.                                    *)

\* Mutant: a worker resumes a fiber it has no task of.
ResumeUnposted(f) ==
    /\ pc[f] = "parked"
    /\ resumes' = [resumes EXCEPT ![f] = @ - 1]
    /\ Goto(f, "test")
    /\ UNCHANGED <<notified, toWake>>

\* A worker picks a task of a parked fiber and resumes it inside the loop.
Resume(f) ==
    /\ pc[f] = "parked"
    /\ resumes[f] > 0
    /\ resumes' = [resumes EXCEPT ![f] = @ - 1]
    /\ Goto(f, "test")
    /\ UNCHANGED <<notified, toWake>>

\* A worker picks a task of a terminated fiber and skips it.
DropTask(f) ==
    /\ pc[f] = "done"
    /\ resumes[f] > 0
    /\ resumes' = [resumes EXCEPT ![f] = @ - 1]
    /\ UNCHANGED <<pc, notified, toWake>>

\* A parked fiber is READY, so under MLFQ the worker that has just run it
\* queues it again though nobody notified it: a spurious resume.
Requeue(f) ==
    /\ pc[f] = "parked"
    /\ resumes[f] < MaxStale
    /\ resumes' = [resumes EXCEPT ![f] = @ + 1]
    /\ UNCHANGED <<pc, notified, toWake>>

\* The callback returns: Fiber::MainFunc sets TERM.
Finish(f) ==
    /\ pc[f] = "run"
    /\ Goto(f, "done")
    /\ UNCHANGED <<notified, resumes, toWake>>

-----------------------------------------------------------------------------
(* What the machinery owes to a fiber that waits.                          *)

\* The fibers whose flag g has still to set, and whose task it has to post.
ToNotify(g) ==
    CASE pc[g] = "notify"   -> ToSet(toWake[g])
      [] pc[g] = "schedule" -> ToSet(Tail(toWake[g]))
      [] OTHER              -> {}

ToSchedule(g) == IF pc[g] = "schedule" THEN {Head(toWake[g])} ELSE {}

\* Each fiber of `waiters` is in one of the queues of the primitive (`queued`)
\* or popped and about to be notified or able to see its flag; and past its
\* test of a flag that is set now, it has a task or is about to get one.
WakeupsKept(waiters, queued) ==
    \A f \in waiters :
        /\ \/ f \in queued
           \/ notified[f]
           \/ \E g \in Fiber : f \in ToNotify(g)
        /\ notified[f] /\ pc[f] \in {"yield", "parked"} =>
               resumes[f] > 0 \/ \E g \in Fiber : f \in ToSchedule(g)
=============================================================================
