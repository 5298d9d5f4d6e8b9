------------------------------ MODULE CoMutex ------------------------------
(***************************************************************************)
(* CoMutex (include/mycoroutine/sync.h): a mutex whose waiters are parked  *)
(* fibers.  unlock() hands the mutex to the first waiter, which stays      *)
(* locked, and only afterwards tells it so; lock() re-reads the owner when *)
(* it is told.  Each std::lock_guard block is one step.                    *)
(***************************************************************************)
EXTENDS FiberWaiter

CONSTANT NoOwner    \* kNoOwner

ASSUME NoOwnerAssumption == NoOwner \notin Fiber
ASSUME MaxStaleAssumption == MaxStale \in Nat

VARIABLES
    m_locked,
    m_ownerFiberId,
    m_waiters

mutexVars == <<m_locked, m_ownerFiberId, m_waiters>>
vars == <<waiterVars, mutexVars>>

Labels == {"run", "lock", "recheck", "held", "done"} \cup Waiting \cup Notifying

Init ==
    /\ FiberWaiterInit
    /\ m_locked = FALSE
    /\ m_ownerFiberId = NoOwner
    /\ m_waiters = <<>>

-----------------------------------------------------------------------------
\* A fiber outside its critical section calls lock().  (Calling it while
\* holding the mutex is the caller's self-deadlock.)
CallLock(f) ==
    /\ pc[f] = "run"
    /\ resumes[f] <= MaxStale
    /\ Goto(f, "lock")
    /\ UNCHANGED <<notified, resumes, toWake, mutexVars>>

\* Mutant: m_locked is not tested in the block that sets it.
TakeUnchecked(f) ==
    /\ m_locked' = TRUE
    /\ m_ownerFiberId' = f
    /\ Goto(f, "held")
    /\ UNCHANGED <<notified, resumes, toWake, m_waiters>>

\* The free mutex becomes f's.
Take(f) ==
    /\ ~m_locked
    /\ m_locked' = TRUE
    /\ m_ownerFiberId' = f
    /\ Goto(f, "held")
    /\ UNCHANGED <<notified, resumes, toWake, m_waiters>>

\* lock(), first block of the loop: take the mutex, or queue the waiter.
LockFree(f) ==
    /\ pc[f] = "lock"
    /\ Take(f)

\* Mutant: the latest waiter goes first.
LockContendedInFront(f) ==
    /\ pc[f] = "lock"
    /\ m_locked
    /\ notified' = [notified EXCEPT ![f] = FALSE]
    /\ m_waiters' = <<f>> \o m_waiters
    /\ Goto(f, "test")
    /\ UNCHANGED <<resumes, toWake, m_locked, m_ownerFiberId>>

LockContended(f) ==
    /\ pc[f] = "lock"
    /\ m_locked
    /\ notified' = [notified EXCEPT ![f] = FALSE]
    /\ m_waiters' = Append(m_waiters, f)
    /\ Goto(f, "test")
    /\ UNCHANGED <<resumes, toWake, m_locked, m_ownerFiberId>>

\* lock(), second block: the notified fiber looks whether it is the owner.
LockRecheck(f) ==
    /\ pc[f] = "recheck"
    /\ Goto(f, IF m_ownerFiberId = f THEN "held" ELSE "lock")
    /\ UNCHANGED <<notified, resumes, toWake, mutexVars>>

\* tryLock() that succeeds; one that fails changes nothing.
TryLock(f) ==
    /\ pc[f] = "run"
    /\ Take(f)

\* unlock() with nobody waiting.
UnlockFree(f) ==
    /\ pc[f] = "held"
    /\ m_waiters = <<>>
    /\ m_locked' = FALSE
    /\ m_ownerFiberId' = NoOwner
    /\ Goto(f, "run")
    /\ UNCHANGED <<notified, resumes, toWake, m_waiters>>

\* Mutants: unlock() wakes the first waiter but frees the mutex, ...
UnlockReleases(f) ==
    /\ pc[f] = "held"
    /\ m_waiters # <<>>
    /\ m_locked' = FALSE
    /\ m_ownerFiberId' = NoOwner
    /\ m_waiters' = Tail(m_waiters)
    /\ toWake' = [toWake EXCEPT ![f] = <<Head(m_waiters)>>]
    /\ Goto(f, "notify")
    /\ UNCHANGED <<notified, resumes>>

\* ... or makes it the owner and does not tell it.
UnlockForgetsNotify(f) ==
    /\ pc[f] = "held"
    /\ m_waiters # <<>>
    /\ m_waiters' = Tail(m_waiters)
    /\ m_ownerFiberId' = Head(m_waiters)
    /\ Goto(f, "run")
    /\ UNCHANGED <<notified, resumes, toWake, m_locked>>

\* unlock() that passes the mutex, still locked, to the first waiter.
UnlockHandOff(f) ==
    /\ pc[f] = "held"
    /\ m_waiters # <<>>
    /\ m_waiters' = Tail(m_waiters)
    /\ m_ownerFiberId' = Head(m_waiters)
    /\ toWake' = [toWake EXCEPT ![f] = <<Head(m_waiters)>>]
    /\ Goto(f, "notify")
    /\ UNCHANGED <<notified, resumes, m_locked>>

\* The steps of FiberWaiter inside lock() and unlock().
WaitStep(f) ==
    /\ \/ TestNotified(f, "recheck")
       \/ Yield(f)
       \/ StoreNotified(f)
       \/ ScheduleWaiter(f, "run")
       \/ Resume(f)
       \/ DropTask(f)
       \/ Requeue(f)
       \/ Finish(f)
    /\ UNCHANGED mutexVars

Step(f) ==
    \/ CallLock(f)
    \/ LockFree(f)
    \/ LockContended(f)
    \/ LockRecheck(f)
    \/ TryLock(f)
    \/ UnlockFree(f)
    \/ UnlockHandOff(f)
    \/ WaitStep(f)

\* Every fiber has returned and the task queue is empty.
Terminated ==
    /\ \A f \in Fiber : pc[f] = "done" /\ resumes[f] = 0
    /\ UNCHANGED vars

Next == (\E f \in Fiber : Step(f)) \/ Terminated

Spec == Init /\ [][Next]_vars

\* A fiber that is on a worker keeps running, the workers take the tasks of
\* parked fibers, and critical sections end.  Whether and when a fiber asks
\* for the mutex is its own business, and so are the needless reschedules.
Progress(f) ==
    \/ LockFree(f)
    \/ LockContended(f)
    \/ LockRecheck(f)
    \/ UnlockFree(f)
    \/ UnlockHandOff(f)
    \/ /\ \/ TestNotified(f, "recheck")
          \/ Yield(f)
          \/ StoreNotified(f)
          \/ ScheduleWaiter(f, "run")
          \/ Resume(f)
       /\ UNCHANGED mutexVars

FairSpec == Spec /\ \A f \in Fiber : WF_vars(Progress(f))

-----------------------------------------------------------------------------
(* Properties.                                                             *)

\* The values every variable may take; in particular no worker ever consumes
\* a task that is not there.
TypeOK ==
    /\ pc \in [Fiber -> Labels]
    /\ notified \in [Fiber -> BOOLEAN]
    /\ resumes \in [Fiber -> Nat]
    /\ toWake \in [Fiber -> Seq(Fiber)]
    /\ m_locked \in BOOLEAN
    /\ m_ownerFiberId \in Fiber \cup {NoOwner}
    /\ m_waiters \in Seq(Fiber)

\* At most one fiber is past lock() or a successful tryLock() and not yet in
\* unlock(), although unlock() gives the mutex away before the new owner runs.
MutualExclusion ==
    \A f, g \in Fiber : pc[f] = "held" /\ pc[g] = "held" => f = g

\* A fiber that leaves the wait loop of lock() finds itself the owner, so it
\* never goes to the back of the queue it was served from.
NotifiedIsOwner ==
    \A f \in Fiber :
        (pc[f] \in Waiting /\ notified[f]) \/ pc[f] = "recheck"
            => m_ownerFiberId = f

IsQueued(f) == \E i \in 1 .. Len(m_waiters) : m_waiters[i] = f

\* g is about to set the flag of f, respectively to post its task.
Notifies(g, f) == pc[g] = "notify" /\ Head(toWake[g]) = f
Schedules(g, f) == pc[g] = "schedule" /\ Head(toWake[g]) = f

\* No wakeup is lost, whatever the order of flag, test, yield and task: a
\* fiber that waits is queued, or is about to be notified, or can see the
\* flag; and once it has decided to yield and the flag is set, a task for it
\* is queued or about to be.
NoLostWakeup ==
    \A f \in Fiber : pc[f] \in Waiting =>
        /\ \/ IsQueued(f)
           \/ notified[f]
           \/ \E g \in Fiber : Notifies(g, f)
        /\ notified[f] /\ pc[f] # "test" =>
               resumes[f] > 0 \/ \E g \in Fiber : Schedules(g, f)

\* The mutex is never left locked for a fiber that is not coming for it: its
\* owner is in the critical section or was told, or is being told, so.
OwnerIsComing ==
    m_locked =>
        \E f \in Fiber :
            /\ m_ownerFiberId = f
            /\ \/ pc[f] \in {"held", "recheck"}
               \/ pc[f] \in Waiting /\ (notified[f] \/ \E g \in Fiber : Notifies(g, f))

\* CoMutex implements the fair lock: a grant is the change of owner, and a
\* fiber counts as inside when its lock() returns.
Lock == INSTANCE FairLock WITH
    Client <- Fiber,
    Nobody <- NoOwner,
    holder <- m_ownerFiberId,
    queue <- m_waiters,
    phase <- [f \in Fiber |->
        IF pc[f] = "held" THEN "inside"
        ELSE IF pc[f] \in Waiting \cup {"recheck"} THEN "waiting" ELSE "outside"]

\* Every step of the code is a step of the fair lock or invisible to it: who
\* waited first gets the mutex first, and a tryLock() or lock() that comes
\* later never overtakes.
ImplementsFairLock == Lock!Spec

\* Every lock() returns, if critical sections end.
LockIsGranted == \A f \in Fiber : pc[f] = "lock" ~> pc[f] = "held"
=============================================================================
