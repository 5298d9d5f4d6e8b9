----------------------------- MODULE WaitGroup -----------------------------
(***************************************************************************)
(* WaitGroup (include/mycoroutine/sync.h): add() that brings the count to  *)
(* zero takes the whole queue and notifies it outside the mutex, waiter by *)
(* waiter; a woken wait() looks at the count again and may queue again.    *)
(***************************************************************************)
EXTENDS FiberWaiter, Integers, SequencesExt

CONSTANTS
    Delta,      \* the arguments add() is called with (done() is add(-1))
    MaxCount    \* bound on m_count

ASSUME WaitGroupAssumption ==
    Delta \subseteq Int /\ MaxCount \in Nat /\ MaxStale \in Nat

VARIABLES m_count, m_waiters

groupVars == <<m_count, m_waiters>>
vars == <<waiterVars, groupVars>>

Labels == {"run", "wait", "done"} \cup Waiting \cup Notifying

Init ==
    /\ FiberWaiterInit
    /\ m_count = 0
    /\ m_waiters = <<>>

-----------------------------------------------------------------------------
\* add(delta); the caller keeps the count from becoming negative (assert).
\* The counts above zero leave the waiters where they are.
AddAbove(f, delta) ==
    /\ pc[f] = "run"
    /\ m_count + delta \in 1 .. MaxCount
    /\ m_count' = m_count + delta
    /\ UNCHANGED <<waiterVars, m_waiters>>

\* Mutant: the add(delta) that reaches zero pops the first waiter only.
AddWakesOne(f, delta) ==
    /\ pc[f] = "run"
    /\ \A g \in Fiber : resumes[g] <= MaxStale
    /\ m_count + delta = 0
    /\ m_count' = 0
    /\ m_waiters' = IF m_waiters = <<>> THEN <<>> ELSE Tail(m_waiters)
    /\ toWake' = [toWake EXCEPT ![f] = IF m_waiters = <<>> THEN <<>> ELSE <<Head(m_waiters)>>]
    /\ Goto(f, IF m_waiters = <<>> THEN "run" ELSE "notify")
    /\ UNCHANGED <<notified, resumes>>

\* add(delta) that reaches zero pops all waiters.
AddToZero(f, delta) ==
    /\ pc[f] = "run"
    /\ \A g \in Fiber : resumes[g] <= MaxStale
    /\ m_count + delta = 0
    /\ m_count' = 0
    /\ m_waiters' = <<>>
    /\ toWake' = [toWake EXCEPT ![f] = m_waiters]
    /\ Goto(f, IF m_waiters = <<>> THEN "run" ELSE "notify")
    /\ UNCHANGED <<notified, resumes>>

CallWait(f) ==
    /\ pc[f] = "run"
    /\ resumes[f] <= MaxStale
    /\ Goto(f, "wait")
    /\ UNCHANGED <<notified, resumes, toWake, groupVars>>

\* The block of wait()'s loop: return at zero, else queue the waiter (again).
WaitReturn(f) ==
    /\ pc[f] = "wait"
    /\ m_count = 0
    /\ Goto(f, "run")
    /\ UNCHANGED <<notified, resumes, toWake, groupVars>>

\* Mutant: the waiter is queued again with its flag still set.
WaitQueueFlagged(f) ==
    /\ pc[f] = "wait"
    /\ m_count # 0
    /\ m_waiters' = Append(m_waiters, f)
    /\ Goto(f, "test")
    /\ UNCHANGED <<notified, resumes, toWake, m_count>>

WaitQueue(f) ==
    /\ pc[f] = "wait"
    /\ m_count # 0
    /\ notified' = [notified EXCEPT ![f] = FALSE]
    /\ m_waiters' = Append(m_waiters, f)
    /\ Goto(f, "test")
    /\ UNCHANGED <<resumes, toWake, m_count>>

\* The steps of FiberWaiter inside wait() and add().
WaitStep(f) ==
    /\ \/ TestNotified(f, "wait")
       \/ Yield(f)
       \/ StoreNotified(f)
       \/ ScheduleWaiter(f, "run")
       \/ Resume(f)
       \/ DropTask(f)
       \/ Requeue(f)
       \/ Finish(f)
    /\ UNCHANGED groupVars

\* Every fiber has returned, or waits for a count nobody will bring to zero.
Quiescent ==
    /\ \A f \in Fiber :
           /\ resumes[f] = 0
           /\ pc[f] = "done" \/ (pc[f] = "parked" /\ m_count # 0)
    /\ UNCHANGED vars

Next ==
    \/ \E f \in Fiber :
           \/ \E delta \in Delta : AddAbove(f, delta) \/ AddToZero(f, delta)
           \/ CallWait(f)
           \/ WaitReturn(f)
           \/ WaitQueue(f)
           \/ WaitStep(f)
    \/ Quiescent

Spec == Init /\ [][Next]_vars

\* Fibers on a worker keep running and workers take the tasks of parked ones;
\* calls of add() and wait() and needless reschedules need not happen.
Progress(f) ==
    \/ WaitReturn(f)
    \/ WaitQueue(f)
    \/ /\ \/ TestNotified(f, "wait")
          \/ Yield(f)
          \/ StoreNotified(f)
          \/ ScheduleWaiter(f, "run")
          \/ Resume(f)
       /\ UNCHANGED groupVars

FairSpec == Spec /\ \A f \in Fiber : WF_vars(Progress(f))

-----------------------------------------------------------------------------
(* Properties.                                                             *)

\* The values every variable may take; the count never becomes negative and
\* no task is consumed that was not posted.
TypeOK ==
    /\ pc \in [Fiber -> Labels]
    /\ notified \in [Fiber -> BOOLEAN]
    /\ resumes \in [Fiber -> Nat]
    /\ toWake \in [Fiber -> Seq(Fiber)]
    /\ m_count \in 0 .. MaxCount
    /\ m_waiters \in Seq(Fiber)

InWait == {f \in Fiber : pc[f] \in Waiting}

\* Nobody is queued at count zero, and whoever waits is queued, about to be
\* notified or notified, with a task on the way if it needs one: a wait()
\* that raced with the last done() does not miss it.
NoLostWakeup ==
    /\ m_count = 0 => m_waiters = <<>>
    /\ WakeupsKept(InWait, ToSet(m_waiters))

\* A fiber is in at most one place: queued once, or in the list of one add()
\* that has not reached it yet.  A waiter in two places would be notified for
\* a wait() it is not in.
WaiterInOnePlace ==
    /\ IsInjective(m_waiters)
    /\ \A g, h \in Fiber :
           /\ IsInjective(toWake[g])
           /\ ToNotify(g) \cap ToSet(m_waiters) = {}
           /\ g # h => ToNotify(g) \cap ToNotify(h) = {}

\* If the count stays at zero, every wait() returns.
ZeroReleasesAll ==
    \A f \in Fiber : <>[](m_count = 0) => []<>(pc[f] \in {"run", "done"} \cup Notifying)
=============================================================================
