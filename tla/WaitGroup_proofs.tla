-------------------------- MODULE WaitGroup_proofs --------------------------
(***************************************************************************)
(* Proofs about WaitGroup for any fibers, arguments of add() and bounds.   *)
(***************************************************************************)
EXTENDS TLAPS, WaitGroup, FiberWaiter_proofs

\* A notifier has somebody to notify.
NotifierInv == \A g \in Fiber : pc[g] \in Notifying => toWake[g] # <<>>

\* A fiber in a queue or a list waits and was not told.
ListedInv ==
    \A f \in Fiber : f \in ToSet(m_waiters) \/ (\E g \in Fiber : f \in ToNotify(g)) =>
        pc[f] \in Waiting /\ ~notified[f]

IInv == TypeOK /\ NotifierInv /\ ListedInv /\ WaiterInOnePlace /\ NoLostWakeup

-----------------------------------------------------------------------------
LEMMA LabelProperties ==
    /\ Labels = {"run", "wait", "done", "test", "yield", "parked", "notify", "schedule"}
    /\ Waiting = {"test", "yield", "parked"} /\ Notifying = {"notify", "schedule"}
BY DEF Labels, Waiting, Notifying

LEMMA InitInv == Init => IInv
<1> SUFFICES ASSUME Init PROVE IInv
  OBVIOUS
<1> USE DEF Init, FiberWaiterInit
<1>1. TypeOK
  <2>1. toWake \in [Fiber -> Seq(Fiber)] /\ m_waiters \in Seq(Fiber)
    OBVIOUS
  <2> QED
    BY <2>1, WaitGroupAssumption DEF TypeOK, Labels
<1>2. ToSet(m_waiters) = {} /\ \A g \in Fiber : ToNotify(g) = {}
  BY EmptyQueue DEF ToNotify
<1>3. NotifierInv /\ ListedInv
  BY <1>2, LabelProperties DEF NotifierInv, ListedInv
<1>4. WaiterInOnePlace
  BY <1>2, EmptyQueue DEF WaiterInOnePlace
<1>5. NoLostWakeup
  BY LabelProperties DEF NoLostWakeup, WakeupsKept, InWait
<1> QED
  BY <1>1, <1>3, <1>4, <1>5 DEF IInv

\* A step that moves one fiber between labels outside its notifications, and
\* leaves the queue and the flags alone.
LEMMA MoveInv ==
    ASSUME IInv, TypeOK', NEW f \in Fiber, pc[f] \notin Notifying, pc'[f] \notin Notifying,
           \A g \in Fiber \ {f} : pc'[g] = pc[g],
           UNCHANGED <<notified, toWake, m_waiters>>,
           m_count' = 0 => m_waiters = <<>>,
           \A g \in Fiber \ {f} : resumes[g] > 0 => resumes'[g] > 0,
           pc'[f] \in Waiting => pc[f] \in Waiting,
           pc[f] \in Waiting /\ ~notified[f] => pc'[f] \in Waiting,
           notified[f] /\ pc'[f] \in {"yield", "parked"} =>
               resumes'[f] > 0 \/ (pc[f] \in {"yield", "parked"} /\ resumes'[f] = resumes[f])
    PROVE  IInv'
<1>1. \A g \in Fiber : ToNotify(g)' = ToNotify(g) /\ ToSchedule(g)' = ToSchedule(g)
  BY MoveFacts
<1>2. NotifierInv'
  BY DEF IInv, NotifierInv
<1>3. ListedInv'
  BY <1>1 DEF IInv, ListedInv
<1>4. WaiterInOnePlace'
  BY <1>1 DEF IInv, WaiterInOnePlace
<1>5. NoLostWakeup'
  BY <1>1 DEF IInv, NoLostWakeup, WakeupsKept, InWait
<1> QED
  BY <1>2, <1>3, <1>4, <1>5 DEF IInv

LEMMA AddToZeroInv ==
    ASSUME IInv, NEW f \in Fiber, NEW delta \in Delta, AddToZero(f, delta)
    PROVE  IInv'
<1>0. /\ pc[f] = "run" /\ UNCHANGED <<notified, resumes>>
      /\ m_count' = 0 /\ m_waiters' = <<>>
      /\ toWake'[f] = m_waiters
      /\ pc'[f] = IF m_waiters = <<>> THEN "run" ELSE "notify"
      /\ \A g \in Fiber \ {f} : pc'[g] = pc[g] /\ toWake'[g] = toWake[g]
  BY DEF AddToZero, Goto, IInv, TypeOK
<1>1. TypeOK'
  BY WaitGroupAssumption DEF IInv, AddToZero, Goto, TypeOK, Labels, Notifying
<1>2. /\ ToNotify(f) = {} /\ ToNotify(f)' = ToSet(m_waiters)
      /\ ToSchedule(f) = {} /\ ToSchedule(f)' = {}
      /\ \A g \in Fiber \ {f} : ToNotify(g)' = ToNotify(g) /\ ToSchedule(g)' = ToSchedule(g)
  BY <1>0, PopFacts, LabelProperties
<1>3. ToSet(m_waiters') = {} /\ IsInjective(m_waiters')
  BY <1>0, EmptyQueue
<1>4. NotifierInv'
  BY <1>0, LabelProperties DEF IInv, NotifierInv
<1>5. ListedInv'
  <2>1. ASSUME NEW g \in Fiber, pc[g] \in Waiting PROVE pc'[g] = pc[g]
    BY <1>0, <2>1, LabelProperties
  <2> QED
    BY <1>0, <1>2, <1>3, <2>1 DEF IInv, ListedInv
<1>6. WaiterInOnePlace'
  BY <1>0, <1>2, <1>3 DEF IInv, WaiterInOnePlace
<1>7. NoLostWakeup'
  <2>1. \A g \in Fiber : pc'[g] \in Waiting => g # f /\ pc[g] = pc'[g]
    BY <1>0, LabelProperties
  <2> QED
    BY <1>0, <1>2, <2>1 DEF IInv, NoLostWakeup, WakeupsKept, InWait
<1> QED
  BY <1>1, <1>4, <1>5, <1>6, <1>7 DEF IInv

LEMMA WaitQueueInv ==
    ASSUME IInv, NEW f \in Fiber, WaitQueue(f)
    PROVE  IInv'
<1>0. /\ pc[f] = "wait" /\ pc'[f] = "test" /\ m_count # 0
      /\ notified'[f] = FALSE
      /\ \A g \in Fiber \ {f} : pc'[g] = pc[g] /\ notified'[g] = notified[g]
      /\ UNCHANGED <<resumes, toWake, m_count>>
      /\ m_waiters' = Append(m_waiters, f)
  BY DEF WaitQueue, Goto, IInv, TypeOK
<1>1. /\ ToSet(m_waiters') = ToSet(m_waiters) \cup {f}
      /\ m_waiters' \in Seq(Fiber)
      /\ IsInjective(m_waiters) /\ f \notin ToSet(m_waiters) => IsInjective(m_waiters')
  BY <1>0, PushBack DEF IInv, TypeOK
<1>2. TypeOK'
  BY <1>0, <1>1 DEF IInv, WaitQueue, Goto, TypeOK, Labels, Waiting
<1>3. \A g \in Fiber : ToNotify(g)' = ToNotify(g) /\ ToSchedule(g)' = ToSchedule(g)
  BY <1>0, MoveFacts, LabelProperties
<1>4. f \notin ToSet(m_waiters) /\ \A g \in Fiber : f \notin ToNotify(g)
  BY <1>0, LabelProperties DEF IInv, ListedInv
<1>5. NotifierInv'
  BY <1>0, LabelProperties DEF IInv, NotifierInv
<1>6. ListedInv'
  BY <1>0, <1>1, <1>3, LabelProperties DEF IInv, ListedInv
<1>7. WaiterInOnePlace'
  BY <1>0, <1>1, <1>3, <1>4 DEF IInv, WaiterInOnePlace
<1>8. NoLostWakeup'
  BY <1>0, <1>1, <1>3 DEF IInv, NoLostWakeup, WakeupsKept, InWait
<1> QED
  BY <1>2, <1>5, <1>6, <1>7, <1>8 DEF IInv

LEMMA StoreNotifiedInv ==
    ASSUME IInv, NEW f \in Fiber, StoreNotified(f), UNCHANGED groupVars
    PROVE  IInv'
<1>0. PICK w \in Fiber :
           /\ w \in ToNotify(f) /\ ToNotify(f)' = ToNotify(f) \ {w}
           /\ ToSchedule(f) = {} /\ ToSchedule(f)' = {w}
           /\ \A g \in Fiber \ {f} :
                 ToNotify(g)' = ToNotify(g) /\ ToSchedule(g)' = ToSchedule(g)
           /\ notified' = [notified EXCEPT ![w] = TRUE]
           /\ pc[f] = "notify" /\ pc'[f] = "schedule"
           /\ \A g \in Fiber \ {f} : pc'[g] = pc[g]
           /\ UNCHANGED <<resumes, toWake>>
  <2>1. WaiterTypeOK /\ pc \in [Fiber -> Labels] /\ toWake[f] # <<>> /\ IsInjective(toWake[f])
    BY LabelProperties
       DEF IInv, TypeOK, WaiterTypeOK, NotifierInv, WaiterInOnePlace, StoreNotified
  <2> QED
    BY <2>1, StoreFacts
<1>1. /\ notified'[w] = TRUE /\ \A g \in Fiber \ {w} : notified'[g] = notified[g]
      /\ m_waiters' = m_waiters /\ m_count' = m_count
      /\ notified' \in [Fiber -> BOOLEAN]
  BY <1>0 DEF IInv, TypeOK, groupVars
<1>2. TypeOK'
  BY <1>0, <1>1 DEF IInv, TypeOK, StoreNotified, Goto, Labels, Notifying
\* w was in this one place.
<1>3. /\ w \notin ToSet(m_waiters) /\ w \notin ToNotify(f)'
      /\ \A g \in Fiber \ {f} : w \notin ToNotify(g)
      /\ pc[w] \in Waiting /\ w # f
  BY <1>0, LabelProperties DEF IInv, WaiterInOnePlace, ListedInv
<1>4. NotifierInv'
  BY <1>0, LabelProperties DEF IInv, NotifierInv
<1>5. ListedInv'
  <2>1. ASSUME NEW g \in Fiber, g \in ToSet(m_waiters') \/ \E h \in Fiber : g \in ToNotify(h)'
        PROVE  pc'[g] \in Waiting /\ ~notified'[g]
    <3>1. g # w /\ (g \in ToSet(m_waiters) \/ \E h \in Fiber : g \in ToNotify(h))
      BY <1>0, <1>1, <1>3, <2>1
    <3>2. pc[g] \in Waiting /\ ~notified[g] /\ g # f
      BY <1>0, <3>1, LabelProperties DEF IInv, ListedInv
    <3> QED
      BY <1>0, <1>1, <3>1, <3>2
  <2> QED
    BY <2>1 DEF ListedInv
<1>6. WaiterInOnePlace'
  BY <1>0, <1>1 DEF IInv, WaiterInOnePlace
<1>7. NoLostWakeup'
  <2>1. m_count' = 0 => m_waiters' = <<>>
    BY <1>1 DEF IInv, NoLostWakeup
  <2>2. ASSUME NEW g \in Fiber, pc'[g] \in Waiting
        PROVE  /\ \/ g \in ToSet(m_waiters')
                  \/ notified'[g]
                  \/ \E h \in Fiber : g \in ToNotify(h)'
               /\ notified'[g] /\ pc'[g] \in {"yield", "parked"} =>
                      resumes'[g] > 0 \/ \E h \in Fiber : g \in ToSchedule(h)'
    <3>1. CASE g = w
      BY <1>0, <1>1, <3>1
    <3>2. CASE g # w
      <4>1. g # f /\ pc[g] = pc'[g] /\ notified'[g] = notified[g]
        BY <1>0, <1>1, <2>2, <3>2, LabelProperties
      <4> QED
        BY <1>0, <1>1, <2>2, <3>2, <4>1 DEF IInv, NoLostWakeup, WakeupsKept, InWait
    <3> QED
      BY <3>1, <3>2
  <2> QED
    BY <2>1, <2>2 DEF NoLostWakeup, WakeupsKept, InWait
<1> QED
  BY <1>2, <1>4, <1>5, <1>6, <1>7 DEF IInv

LEMMA ScheduleWaiterInv ==
    ASSUME IInv, NEW f \in Fiber, ScheduleWaiter(f, "run"), UNCHANGED groupVars
    PROVE  IInv'
<1>0. toWake[f] # <<>> /\ pc[f] = "schedule" /\ "run" \in Labels \ Notifying /\ TypeOK
  BY LabelProperties DEF IInv, NotifierInv, ScheduleWaiter
<1>1. /\ \A g \in Fiber : ToNotify(g)' = ToNotify(g)
      /\ ToSchedule(f)' = {}
      /\ \A g \in Fiber \ {f} : ToSchedule(g)' = ToSchedule(g)
      /\ \A g \in ToSchedule(f) : g \in Fiber /\ resumes'[g] > 0
      /\ resumes' \in [Fiber -> Nat]
      /\ \A g \in Fiber : resumes[g] > 0 => resumes'[g] > 0
      /\ toWake' = [toWake EXCEPT ![f] = Tail(@)]
      /\ \/ pc'[f] = "run" /\ toWake'[f] = <<>>
         \/ pc'[f] = "notify" /\ toWake'[f] # <<>>
      /\ \A g \in Fiber \ {f} : pc'[g] = pc[g]
      /\ UNCHANGED notified
  <2>1. WaiterTypeOK /\ pc \in [Fiber -> Labels]
    BY <1>0 DEF TypeOK, WaiterTypeOK
  <2> QED
    BY <1>0, <2>1, ScheduleFacts
<1>2. /\ Tail(toWake[f]) \in Seq(Fiber) /\ IsInjective(Tail(toWake[f]))
      /\ toWake'[f] = Tail(toWake[f]) /\ \A g \in Fiber \ {f} : toWake'[g] = toWake[g]
      /\ UNCHANGED <<m_waiters, m_count>>
  BY <1>0, <1>1, PopFront DEF TypeOK, IInv, WaiterInOnePlace, groupVars
<1>3. TypeOK'
  <2>1. toWake' \in [Fiber -> Seq(Fiber)]
    BY <1>0, <1>1, <1>2 DEF TypeOK
  <2>2. pc' \in [Fiber -> Labels]
    BY <1>0, LabelProperties DEF TypeOK, ScheduleWaiter, Goto
  <2> QED
    BY <1>0, <1>1, <1>2, <2>1, <2>2 DEF TypeOK
<1>4. NotifierInv'
  BY <1>1, <1>2, LabelProperties DEF IInv, NotifierInv
<1>5. \A g \in Fiber : pc[g] \in Waiting \/ pc'[g] \in Waiting => pc'[g] = pc[g] /\ g # f
  BY <1>0, <1>1, LabelProperties
<1>6. ListedInv'
  BY <1>1, <1>2, <1>5 DEF IInv, ListedInv
<1>7. WaiterInOnePlace'
  BY <1>1, <1>2 DEF IInv, WaiterInOnePlace
<1>8. NoLostWakeup'
  <2>1. m_count' = 0 => m_waiters' = <<>>
    BY <1>2 DEF IInv, NoLostWakeup
  <2>2. ASSUME NEW g \in Fiber, pc'[g] \in Waiting
        PROVE  /\ \/ g \in ToSet(m_waiters')
                  \/ notified'[g]
                  \/ \E h \in Fiber : g \in ToNotify(h)'
               /\ notified'[g] /\ pc'[g] \in {"yield", "parked"} =>
                      resumes'[g] > 0 \/ \E h \in Fiber : g \in ToSchedule(h)'
    <3>1. /\ \/ g \in ToSet(m_waiters)
             \/ notified[g]
             \/ \E h \in Fiber : g \in ToNotify(h)
          /\ notified[g] /\ pc[g] \in {"yield", "parked"} =>
                 resumes[g] > 0 \/ \E h \in Fiber : g \in ToSchedule(h)
      BY <1>5, <2>2 DEF IInv, NoLostWakeup, WakeupsKept, InWait
    <3>2. \A h \in Fiber : g \in ToSchedule(h) => g \in ToSchedule(h)' \/ resumes'[g] > 0
      BY <1>1
    <3> QED
      BY <1>1, <1>2, <1>5, <2>2, <3>1, <3>2
  <2> QED
    BY <2>1, <2>2 DEF NoLostWakeup, WakeupsKept, InWait
<1> QED
  BY <1>3, <1>4, <1>6, <1>7, <1>8 DEF IInv

\* The other steps of the machinery move one fiber, or change its tasks.
LEMMA OtherWaitStepInv ==
    ASSUME IInv, NEW f \in Fiber, UNCHANGED groupVars,
           \/ TestNotified(f, "wait") \/ Yield(f) \/ Resume(f)
           \/ DropTask(f) \/ Requeue(f) \/ Finish(f)
    PROVE  IInv'
<1>0. TypeOK /\ (m_count = 0 => m_waiters = <<>>)
  BY DEF IInv, NoLostWakeup
<1>1. CASE TestNotified(f, "wait")
  <2>1. /\ pc[f] = "test" /\ pc'[f] = IF notified[f] THEN "wait" ELSE "yield"
        /\ \A g \in Fiber \ {f} : pc'[g] = pc[g]
        /\ UNCHANGED <<notified, resumes, toWake, m_waiters, m_count>>
    BY <1>0, <1>1 DEF TestNotified, Goto, TypeOK, groupVars
  <2>2. TypeOK'
    BY <1>0, <1>1, <2>1, LabelProperties DEF TestNotified, Goto, TypeOK
  <2> QED
    BY <1>0, <2>1, <2>2, MoveInv, LabelProperties
<1>2. CASE Yield(f) \/ Finish(f)
  <2>1. /\ \/ pc[f] = "yield" /\ pc'[f] = "parked"
           \/ pc[f] = "run" /\ pc'[f] = "done"
        /\ \A g \in Fiber \ {f} : pc'[g] = pc[g]
        /\ UNCHANGED <<notified, resumes, toWake, m_waiters, m_count>>
    BY <1>0, <1>2 DEF Yield, Finish, Goto, TypeOK, groupVars
  <2>2. TypeOK'
    BY <1>0, <1>2, <2>1, LabelProperties DEF Yield, Finish, Goto, TypeOK
  <2> QED
    BY <1>0, <2>1, <2>2, MoveInv, LabelProperties
<1>3. CASE Resume(f)
  <2>1. /\ pc[f] = "parked" /\ pc'[f] = "test"
        /\ \A g \in Fiber \ {f} : pc'[g] = pc[g] /\ resumes'[g] = resumes[g]
        /\ UNCHANGED <<notified, toWake, m_waiters, m_count>>
    BY <1>0, <1>3 DEF Resume, Goto, TypeOK, groupVars
  <2>2. TypeOK'
    <3>1. /\ pc' = [pc EXCEPT ![f] = "test"] /\ resumes' = [resumes EXCEPT ![f] = @ - 1]
          /\ resumes[f] > 0 /\ resumes[f] \in Nat
      BY <1>0, <1>3 DEF Resume, Goto, TypeOK
    <3>2. resumes[f] - 1 \in Nat
      BY <3>1
    <3> QED
      BY <1>0, <2>1, <3>1, <3>2, LabelProperties DEF TypeOK
  <2> QED
    BY <1>0, <2>1, <2>2, MoveInv, LabelProperties
<1>4. CASE DropTask(f) \/ Requeue(f)
  <2>1. /\ \/ pc[f] = "done"
           \/ pc[f] = "parked" /\ resumes'[f] > 0
        /\ \A g \in Fiber \ {f} : resumes'[g] = resumes[g]
        /\ UNCHANGED <<pc, notified, toWake, m_waiters, m_count>>
    BY <1>0, <1>4 DEF DropTask, Requeue, TypeOK, groupVars
  <2>2. TypeOK'
    <3>1. PICK n : resumes' = [resumes EXCEPT ![f] = n] /\ n \in Nat
      <4>1. resumes[f] \in Nat
        BY <1>0 DEF TypeOK
      <4>2. CASE DropTask(f)
        <5>1. resumes[f] - 1 \in Nat /\ resumes' = [resumes EXCEPT ![f] = resumes[f] - 1]
          BY <4>1, <4>2 DEF DropTask
        <5> QED
          BY <5>1
      <4>3. CASE Requeue(f)
        <5>1. resumes[f] + 1 \in Nat /\ resumes' = [resumes EXCEPT ![f] = resumes[f] + 1]
          BY <4>1, <4>3 DEF Requeue
        <5> QED
          BY <5>1
      <4> QED
        BY <1>4, <4>2, <4>3
    <3> QED
      BY <1>0, <2>1, <3>1 DEF TypeOK
  <2> QED
    BY <1>0, <2>1, <2>2, MoveInv, LabelProperties
<1> QED
  BY <1>1, <1>2, <1>3, <1>4

LEMMA NextInv == IInv /\ [Next]_vars => IInv'
<1> SUFFICES ASSUME IInv, [Next]_vars PROVE IInv'
  OBVIOUS
<1>0. TypeOK /\ (m_count = 0 => m_waiters = <<>>)
  BY DEF IInv, NoLostWakeup
<1>1. ASSUME NEW f \in Fiber, NEW delta \in Delta, AddAbove(f, delta) PROVE IInv'
  <2>1. /\ pc[f] = "run" /\ m_count' # 0
        /\ UNCHANGED <<pc, notified, resumes, toWake, m_waiters>>
    BY <1>1, WaitGroupAssumption DEF AddAbove, waiterVars
  <2>2. TypeOK'
    BY <1>0, <1>1, <2>1, WaitGroupAssumption DEF AddAbove, TypeOK
  <2> QED
    BY <1>0, <2>1, <2>2, MoveInv, LabelProperties
<1>2. ASSUME NEW f \in Fiber, NEW delta \in Delta, AddToZero(f, delta) PROVE IInv'
  BY <1>2, AddToZeroInv
<1>3. ASSUME NEW f \in Fiber, CallWait(f) \/ WaitReturn(f) PROVE IInv'
  <2>1. /\ pc[f] \in {"run", "wait"} /\ pc'[f] \in {"run", "wait"}
        /\ \A g \in Fiber \ {f} : pc'[g] = pc[g]
        /\ UNCHANGED <<notified, resumes, toWake, m_waiters, m_count>>
    BY <1>0, <1>3 DEF CallWait, WaitReturn, Goto, TypeOK, groupVars
  <2>2. TypeOK'
    BY <1>0, <1>3, <2>1, LabelProperties DEF CallWait, WaitReturn, Goto, TypeOK
  <2> QED
    BY <1>0, <2>1, <2>2, MoveInv, LabelProperties
<1>4. ASSUME NEW f \in Fiber, WaitQueue(f) PROVE IInv'
  BY <1>4, WaitQueueInv
<1>5. ASSUME NEW f \in Fiber, WaitStep(f) PROVE IInv'
  BY <1>5, StoreNotifiedInv, ScheduleWaiterInv, OtherWaitStepInv DEF WaitStep
<1>6. CASE UNCHANGED vars
  <2>1. UNCHANGED <<pc, notified, resumes, toWake, m_waiters, m_count>>
    BY <1>6 DEF vars, waiterVars, groupVars
  <2>2. \A g \in Fiber : ToNotify(g)' = ToNotify(g) /\ ToSchedule(g)' = ToSchedule(g)
    BY <2>1 DEF ToNotify, ToSchedule
  <2> QED
    BY <2>1, <2>2
       DEF IInv, TypeOK, NotifierInv, ListedInv, WaiterInOnePlace, NoLostWakeup,
           WakeupsKept, InWait
<1> QED
  BY <1>1, <1>2, <1>3, <1>4, <1>5, <1>6 DEF Next, Quiescent

LEMMA Invariant == Spec => []IInv
BY InitInv, NextInv, PTL DEF Spec

-----------------------------------------------------------------------------
\* Every variable of WaitGroup and of the wait machinery keeps its type: the
\* count stays in its range and no task is consumed that was not posted.
THEOREM TypeCorrect == Spec => []TypeOK
<1>1. IInv => TypeOK
  BY DEF IInv
<1> QED
  BY <1>1, Invariant, PTL

\* No wakeup is lost: whatever the order of the last done(), the test of the
\* flag, the yield and the task, whoever waits is queued, in the list of an
\* add() or told, and once it can no longer see its flag a task is on the way.
THEOREM WakeupsAreKept == Spec => []NoLostWakeup
<1>1. IInv => NoLostWakeup
  BY DEF IInv
<1> QED
  BY <1>1, Invariant, PTL

\* Though several add()s may notify at once, and a woken wait() may queue
\* again, nobody is told for a wait() it is not in.
THEOREM OnePlacePerWaiter == Spec => []WaiterInOnePlace
<1>1. IInv => WaiterInOnePlace
  BY DEF IInv
<1> QED
  BY <1>1, Invariant, PTL
=============================================================================
