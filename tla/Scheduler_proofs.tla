-------------------------- MODULE Scheduler_proofs --------------------------
(***************************************************************************)
(* Proofs about Scheduler for any workers, fibers, policies, budgets and   *)
(* pool size; the last parts are about callbacks that do not yield, and    *)
(* about one worker.                                                       *)
(***************************************************************************)
EXTENDS TLAPS, Scheduler, FiniteSetTheorems

Busy == {w \in Worker : task[w] # None}
Loose == {"off", "pick", "idle", "exited"}

\* What a worker has in hand at each point of run(), and what a notifier owes.
WorkInv ==
    /\ \A w \in Worker :
          /\ task[w] = None <=> wpc[w] \in Loose
          /\ task[w] # None /\ wpc[w] # "acquire" => task[w].fiber \in Fiber
          /\ wpc[w] = "acquire" => task[w].fiber = Callback
          /\ wpc[w] \in {"acquire", "release"} => isCallback[w]
          /\ wpc[w] = "requeue" => ~isCallback[w]
          /\ isCallback[w] => task[w] # None
          /\ wpc[w] = "off" <=> w = Caller /\ main = "submit"
    /\ \A f \in Fiber : at[f] = "post" => owes[f] # None

\* The count is the number of tasks in hand.
CountInv == m_activeThreadCount = Cardinality(Busy)

\* Once an idle fiber has ended, nothing is left, and nobody submits.
DoneInv ==
    /\ m_stopping => main # "submit"
    /\ \A w \in Worker : wpc[w] = "exited" => idleTerm[w]
    /\ (\E w \in Worker : idleTerm[w]) => m_stopping /\ m_tasks = <<>> /\ Busy = {}

-----------------------------------------------------------------------------
\* Two sequences one after the other, and what erasing an entry leaves of the rest.
LEMMA ConcatFacts ==
    ASSUME NEW S, NEW a \in Seq(S), NEW b \in Seq(S)
    PROVE  /\ a \o b \in Seq(S) /\ Len(a \o b) = Len(a) + Len(b)
           /\ \A k \in 1 .. Len(a) : (a \o b)[k] = a[k]
           /\ \A k \in Len(a) + 1 .. Len(a) + Len(b) : (a \o b)[k] = b[k - Len(a)]
OBVIOUS

LEMMA RemoveAtFacts ==
    ASSUME NEW S, NEW s \in Seq(S), NEW i \in DOMAIN s
    PROVE  /\ RemoveAt(s, i) \in Seq(S)
           /\ \A k \in DOMAIN RemoveAt(s, i) : \E j \in DOMAIN s : RemoveAt(s, i)[k] = s[j]
<1> DEFINE a == SubSeq(s, 1, i - 1)
           b == SubSeq(s, i + 1, Len(s))
<1>1. i \in 1 .. Len(s) /\ Len(s) \in Nat
  OBVIOUS
<1>2. /\ a \in Seq(S) /\ Len(a) = i - 1
      /\ \A k \in 1 .. i - 1 : a[k] = s[k]
  BY <1>1
<1>3. /\ b \in Seq(S) /\ Len(b) = Len(s) - i
      /\ \A k \in 1 .. Len(s) - i : b[k] = s[i + k]
  BY <1>1
<1> HIDE DEF a, b
<1>4. RemoveAt(s, i) = a \o b
  BY DEF RemoveAt, a, b
<1>5. a \o b \in Seq(S) /\ Len(a \o b) = Len(s) - 1
  BY <1>1, <1>2, <1>3
<1>6. ASSUME NEW k \in DOMAIN (a \o b) PROVE \E j \in DOMAIN s : (a \o b)[k] = s[j]
  <2>0. k \in 1 .. Len(s) - 1
    BY <1>5
  <2>1. CASE k <= i - 1
    <3>1. k \in 1 .. i - 1
      BY <1>1, <2>0, <2>1
    <3>2. (a \o b)[k] = s[k]
      BY <1>2, <1>3, <3>1, ConcatFacts
    <3> QED
      BY <1>1, <2>0, <3>2
  <2>2. CASE k > i - 1
    <3>1. k \in Len(a) + 1 .. Len(a) + Len(b)
      <4>1. k \in (i - 1) + 1 .. (i - 1) + (Len(s) - i)
        BY <1>1, <2>0, <2>2
      <4> QED
        BY <1>2, <1>3, <4>1
    <3>2. \A j \in Len(a) + 1 .. Len(a) + Len(b) : (a \o b)[j] = b[j - Len(a)]
      <4>1. a \in Seq(S) /\ b \in Seq(S)
        BY <1>2, <1>3
      <4> QED
        BY <4>1, ConcatFacts
    <3>3. (a \o b)[k] = b[k - (i - 1)]
      BY <1>2, <3>1, <3>2
    <3>4. k - (i - 1) \in 1 .. Len(s) - i
      BY <1>1, <2>0, <2>2
    <3>5. b[k - (i - 1)] = s[k + 1]
      <4>1. b[k - (i - 1)] = s[i + (k - (i - 1))]
        BY <1>3, <3>4
      <4>2. i + (k - (i - 1)) = k + 1
        BY <1>1, <2>0
      <4> QED
        BY <4>1, <4>2
    <3>6. k + 1 \in DOMAIN s
      BY <1>1, <2>0
    <3> QED
      BY <3>3, <3>5, <3>6
  <2> QED
    BY <1>1, <2>0, <2>1, <2>2
<1> QED
  BY <1>4, <1>5, <1>6

\* What Pick does to the task queue and its worker.
LEMMA PickFacts ==
    ASSUME TypeOK, NEW w \in Worker, Pick(w)
    PROVE  \E i \in DOMAIN m_tasks :
              /\ m_tasks[i] \in Task /\ m_tasks[i] # None
              /\ m_tasks' \in Seq(Task)
              /\ \A k \in DOMAIN m_tasks' : \E j \in DOMAIN m_tasks : m_tasks'[k] = m_tasks[j]
              /\ task' = [task EXCEPT ![w] = m_tasks[i]]
              /\ isCallback' = [isCallback EXCEPT ![w] = m_tasks[i].fiber = Callback]
              /\ wpc' = [wpc EXCEPT ![w] = IF m_tasks[i].fiber = Callback
                                           THEN "acquire" ELSE "lock"]
<1>1. PICK i \in Eligible(w) :
           /\ m_tasks' = RemoveAt(m_tasks, i)
           /\ task' = [task EXCEPT ![w] = m_tasks[i]]
           /\ isCallback' = [isCallback EXCEPT ![w] = m_tasks[i].fiber = Callback]
           /\ wpc' = [wpc EXCEPT ![w] = IF m_tasks[i].fiber = Callback
                                        THEN "acquire" ELSE "lock"]
  BY DEF Pick, GotoW
<1>2. i \in DOMAIN m_tasks /\ m_tasks \in Seq(Task)
  BY DEF Eligible, TypeOK
<1>3. m_tasks[i] \in Task /\ m_tasks[i] # None
  BY <1>2, SchedulerAssumption
<1>4. /\ m_tasks' \in Seq(Task)
      /\ \A k \in DOMAIN m_tasks' : \E j \in DOMAIN m_tasks : m_tasks'[k] = m_tasks[j]
  BY <1>1, <1>2, RemoveAtFacts
<1> QED
  BY <1>1, <1>2, <1>3, <1>4

LEMMA CallbackIsNoFiber == Callback \notin Fiber /\ Callback \notin Task
BY SchedulerAssumption DEF Callback

-----------------------------------------------------------------------------
(* Types, and what a worker has in hand.                                   *)

LEMMA InitWork == Init => TypeOK /\ WorkInv
<1> SUFFICES ASSUME Init PROVE TypeOK /\ WorkInv
  OBVIOUS
<1>1. /\ m_tasks \in Seq(Task) /\ m_cache \in Seq(Fiber) /\ Len(m_cache) <= MaxCachedPerKey
      /\ m_activeThreadCount \in Nat
  BY SchedulerAssumption DEF Init
<1>2. /\ wpc \in [Worker -> {"off", "pick"}] /\ at \in [Fiber -> {"run"}]
      /\ task \in [Worker -> {None}] /\ owes \in [Fiber -> {None}]
      /\ m_mutex \in [Fiber -> {None}] /\ waiterThread \in [Fiber -> {AnyThread}]
  BY DEF Init
<1>3. TypeOK
  BY <1>1, <1>2 DEF Init, TypeOK
<1>4. WorkInv
  BY DEF Init, WorkInv, Loose
<1> QED
  BY <1>3, <1>4

\* A task at the back of the queue.
LEMMA ScheduleFacts ==
    ASSUME m_tasks \in Seq(Task), NEW f \in Fiber \cup {None},
           NEW thread \in Worker \cup {AnyThread}, Schedule(f, thread)
    PROVE  /\ m_tasks' \in Seq(Task)
           /\ \A k \in DOMAIN m_tasks' :
                 \/ \E j \in DOMAIN m_tasks : m_tasks'[k] = m_tasks[j]
                 \/ m_tasks'[k] = [fiber |-> f, thread |-> thread]
<1>1. [fiber |-> f, thread |-> thread] \in Task
  BY DEF Task
<1> QED
  BY <1>1 DEF Schedule

\* The main thread.
LEMMA MainWork ==
    ASSUME TypeOK, WorkInv,
           \/ \E f \in Fiber, thread \in Worker \cup {AnyThread} : SubmitFiber(f, thread)
           \/ \E thread \in Worker \cup {AnyThread} : SubmitCallback(thread)
           \/ Join \/ Stopped
    PROVE  TypeOK' /\ WorkInv'
<1>1. CASE Join \/ Stopped
  <2>1. /\ m_cache' = m_cache \/ m_cache' = <<>>
        /\ main' \in {main, "stopped"} /\ (main' # main => main = "join")
        /\ UNCHANGED <<queueVars, fiberVars, workerVars>>
    BY <1>1 DEF Join, Stopped, vars
  <2>2. m_cache' \in Seq(Fiber) /\ Len(m_cache') <= MaxCachedPerKey
    <3>1. <<>> \in Seq(Fiber) /\ Len(<<>>) = 0
      OBVIOUS
    <3>2. CASE m_cache' = m_cache
      BY <3>2 DEF TypeOK
    <3>3. CASE m_cache' = <<>>
      BY <3>1, <3>3, SchedulerAssumption
    <3> QED
      BY <2>1, <3>2, <3>3
  <2> QED
    BY <2>1, <2>2 DEF queueVars, fiberVars, workerVars, TypeOK, WorkInv
<1>2. CASE \E f \in Fiber, thread \in Worker \cup {AnyThread} : SubmitFiber(f, thread)
  <2>1. PICK f \in Fiber, thread \in Worker \cup {AnyThread} : SubmitFiber(f, thread)
    BY <1>2
  <2>2. m_tasks' \in Seq(Task)
    BY <2>1, ScheduleFacts DEF SubmitFiber, TypeOK
  <2> QED
    BY <2>1, <2>2 DEF SubmitFiber, workerVars, TypeOK, WorkInv
<1>3. CASE \E thread \in Worker \cup {AnyThread} : SubmitCallback(thread)
  <2>1. PICK thread \in Worker \cup {AnyThread} : SubmitCallback(thread)
    BY <1>3
  <2>2. m_tasks' \in Seq(Task)
    BY <2>1, ScheduleFacts DEF SubmitCallback, TypeOK, Callback
  <2> QED
    BY <2>1, <2>2 DEF SubmitCallback, workerVars, fiberVars, TypeOK, WorkInv
<1> QED
  BY <1>1, <1>2, <1>3

LEMMA StopWork == TypeOK /\ WorkInv /\ Stop => TypeOK' /\ WorkInv'
<1> SUFFICES ASSUME TypeOK, WorkInv, Stop PROVE TypeOK' /\ WorkInv'
  OBVIOUS
<1>1. TypeOK'
  BY DEF Stop, fiberVars, TypeOK
<1>2. WorkInv'
  BY DEF Stop, fiberVars, TypeOK, WorkInv, Loose
<1> QED
  BY <1>1, <1>2

LEMMA PickWork ==
    ASSUME TypeOK, WorkInv, NEW w \in Worker, Pick(w)
    PROVE  TypeOK' /\ WorkInv'
<1>1. PICK i \in DOMAIN m_tasks :
           /\ m_tasks[i] \in Task /\ m_tasks[i] # None
           /\ m_tasks' \in Seq(Task)
           /\ task' = [task EXCEPT ![w] = m_tasks[i]]
           /\ isCallback' = [isCallback EXCEPT ![w] = m_tasks[i].fiber = Callback]
           /\ wpc' = [wpc EXCEPT ![w] = IF m_tasks[i].fiber = Callback
                                        THEN "acquire" ELSE "lock"]
  BY PickFacts
<1>2. m_tasks[i].fiber \in Fiber \cup {Callback}
  BY <1>1 DEF Task, Callback
<1>3. TypeOK'
  BY <1>1 DEF Pick, fiberVars, TypeOK
<1>4. WorkInv'
  <2>1. /\ wpc[w] = "pick" /\ UNCHANGED <<main, fiberVars>>
        /\ DOMAIN wpc = Worker /\ DOMAIN task = Worker /\ DOMAIN isCallback = Worker
    BY DEF Pick, TypeOK
  <2>2. /\ task'[w] = m_tasks[i] /\ isCallback'[w] = (m_tasks[i].fiber = Callback)
        /\ wpc'[w] = IF m_tasks[i].fiber = Callback THEN "acquire" ELSE "lock"
        /\ \A v \in Worker \ {w} : /\ task'[v] = task[v] /\ wpc'[v] = wpc[v]
                                  /\ isCallback'[v] = isCallback[v]
    BY <1>1, <2>1
  <2> QED
    BY <1>1, <1>2, <2>1, <2>2 DEF fiberVars, WorkInv, Loose
<1> QED
  BY <1>3, <1>4

LEMMA CallbackWork ==
    ASSUME TypeOK, WorkInv, NEW w \in Worker,
           AcquireCached(w) \/ AcquireNew(w) \/ Release(w)
    PROVE  TypeOK' /\ WorkInv'
<1>1. CASE AcquireCached(w)
  <2>1. Last(m_cache) \in Fiber /\ Front(m_cache) \in Seq(Fiber)
        /\ Len(Front(m_cache)) <= MaxCachedPerKey
    BY <1>1, SchedulerAssumption DEF AcquireCached, TypeOK, Last, Front
  <2>2. task[w] \in Task
    BY <1>1 DEF AcquireCached, TypeOK, WorkInv, Loose
  <2>3. [task[w] EXCEPT !.fiber = Last(m_cache)] \in Task
    BY <2>1, <2>2 DEF Task
  <2>4. TypeOK'
    BY <1>1, <2>1, <2>3 DEF AcquireCached, GotoW, GotoF, queueVars, TypeOK
  <2>5. WorkInv'
    BY <1>1, <2>1, <2>2, <2>3, CallbackIsNoFiber
       DEF AcquireCached, GotoW, GotoF, queueVars, TypeOK, WorkInv, Loose, Task
  <2> QED
    BY <2>4, <2>5
<1>2. CASE AcquireNew(w)
  <2>1. PICK f \in Fiber : /\ m_state' = [m_state EXCEPT ![f] = "READY"]
                           /\ task' = [task EXCEPT ![w].fiber = f]
    BY <1>2 DEF AcquireNew
  <2>2. task[w] \in Task
    BY <1>2 DEF AcquireNew, TypeOK, WorkInv, Loose
  <2>3. [task[w] EXCEPT !.fiber = f] \in Task
    BY <2>1, <2>2 DEF Task
  <2>4. TypeOK'
    BY <1>2, <2>1, <2>3 DEF AcquireNew, GotoW, queueVars, TypeOK
  <2>5. WorkInv'
    <3>1. /\ wpc[w] = "acquire" /\ UNCHANGED <<main, at, owes, isCallback>>
          /\ task[w] # None /\ wpc' = [wpc EXCEPT ![w] = "lock"]
          /\ DOMAIN wpc = Worker /\ DOMAIN task = Worker
      BY <1>2 DEF AcquireNew, GotoW, TypeOK, WorkInv, Loose
    <3>2. task'[w] = [task[w] EXCEPT !.fiber = f] /\ task'[w].fiber = f
      BY <2>1, <2>2, <3>1 DEF Task
    <3>3. task'[w] # None
      BY <2>3, <3>2, CallbackIsNoFiber DEF Callback
    <3>4. \A v \in Worker \ {w} : task'[v] = task[v] /\ wpc'[v] = wpc[v]
      BY <2>1, <3>1
    <3>5. wpc'[w] = "lock"
      BY <3>1
    <3> QED
      BY <2>1, <3>1, <3>2, <3>3, <3>4, <3>5 DEF WorkInv, Loose
  <2> QED
    BY <2>4, <2>5
<1>3. CASE Release(w)
  <2>1. task[w] # None /\ task[w].fiber \in Fiber
    BY <1>3 DEF Release, WorkInv, Loose
  <2>2. m_cache' \in Seq(Fiber) /\ Len(m_cache') <= MaxCachedPerKey
    BY <1>3, <2>1, SchedulerAssumption DEF Release, TypeOK
  <2>3. TypeOK'
    BY <1>3, <2>2 DEF Release, GotoW, queueVars, fiberVars, TypeOK
  <2>4. WorkInv'
    BY <1>3 DEF Release, GotoW, queueVars, fiberVars, TypeOK, WorkInv, Loose
  <2> QED
    BY <2>3, <2>4
<1> QED
  BY <1>1, <1>2, <1>3

LEMMA LockWork ==
    ASSUME TypeOK, WorkInv, NEW w \in Worker,
           LockFiber(w) \/ SkipTerminated(w) \/ ResumeFiber(w) \/ UnlockFiber(w)
    PROVE  TypeOK' /\ WorkInv'
<1>1. TypeOK'
  <2>1. CASE LockFiber(w)
    BY <2>1 DEF LockFiber, GotoW, queueVars, TypeOK
  <2>2. CASE SkipTerminated(w)
    BY <2>2 DEF SkipTerminated, GotoW, queueVars, fiberVars, TypeOK
  <2>3. CASE ResumeFiber(w)
    BY <2>3 DEF ResumeFiber, GotoW, queueVars, TypeOK
  <2>4. CASE UnlockFiber(w)
    BY <2>4 DEF UnlockFiber, GotoW, queueVars, TypeOK
  <2> QED
    BY <2>1, <2>2, <2>3, <2>4
<1>2. WorkInv'
  BY DEF LockFiber, SkipTerminated, ResumeFiber, UnlockFiber, GotoW, queueVars, fiberVars,
         TypeOK, WorkInv, Loose
<1> QED
  BY <1>1, <1>2

\* A worker with a task is counted.
LEMMA BusyFacts ==
    ASSUME TypeOK
    PROVE  /\ IsFiniteSet(Busy) /\ Cardinality(Busy) \in Nat
           /\ Cardinality(Busy) = 0 <=> Busy = {}
<1>1. Busy \subseteq Worker
  BY DEF Busy
<1>2. IsFiniteSet(Busy)
  BY <1>1, FS_Subset, SchedulerAssumption
<1> QED
  BY <1>2, FS_CardinalityType, FS_EmptySet

LEMMA LoopWork ==
    ASSUME TypeOK, WorkInv, CountInv, NEW w \in Worker,
           PickNone(w) \/ Idle(w) \/ Requeue(w) \/ Decrement(w)
    PROVE  TypeOK' /\ WorkInv'
<1>1. CASE PickNone(w)
  <2>1. TypeOK'
    BY <1>1 DEF PickNone, GotoW, queueVars, fiberVars, TypeOK
  <2>2. WorkInv'
    BY <1>1 DEF PickNone, GotoW, queueVars, fiberVars, TypeOK, WorkInv, Loose
  <2> QED
    BY <2>1, <2>2
<1>2. CASE Idle(w)
  <2>1. TypeOK'
    BY <1>2 DEF Idle, Stopping, GotoW, queueVars, fiberVars, TypeOK
  <2>2. WorkInv'
    BY <1>2 DEF Idle, GotoW, queueVars, fiberVars, TypeOK, WorkInv, Loose
  <2> QED
    BY <2>1, <2>2
<1>3. CASE Requeue(w)
  <2>1. task[w] \in Task /\ task[w].fiber \in Fiber
        /\ task[w].thread \in Worker \cup {AnyThread}
    BY <1>3 DEF Requeue, TypeOK, WorkInv, Loose, Task
  <2>2. m_tasks' \in Seq(Task)
    BY <1>3, <2>1, ScheduleFacts DEF Requeue, TypeOK
  <2>3. TypeOK'
    BY <1>3, <2>2 DEF Requeue, GotoW, fiberVars, TypeOK
  <2>4. WorkInv'
    BY <1>3 DEF Requeue, GotoW, fiberVars, TypeOK, WorkInv, Loose
  <2> QED
    BY <2>3, <2>4
<1>4. CASE Decrement(w)
  <2>1. w \in Busy
    BY <1>4 DEF Decrement, WorkInv, Loose, Busy
  <2>2. m_activeThreadCount \in Nat /\ m_activeThreadCount # 0
    BY <2>1, BusyFacts DEF CountInv
  <2>3. m_activeThreadCount' \in Nat
    BY <1>4, <2>2 DEF Decrement
  <2>4. TypeOK'
    BY <1>4, <2>3 DEF Decrement, GotoW, fiberVars, TypeOK
  <2>5. WorkInv'
    BY <1>4 DEF Decrement, GotoW, fiberVars, TypeOK, WorkInv, Loose
  <2> QED
    BY <2>4, <2>5
<1> QED
  BY <1>1, <1>2, <1>3, <1>4

LEMMA UserWork ==
    ASSUME TypeOK, WorkInv, NEW w \in Worker, NEW f \in Fiber,
           \/ StartWait(w, f) \/ Test(w, f) \/ Reschedule(w, f) \/ Spawn(w, f)
           \/ (\E g \in Fiber : Notify(w, f, g)) \/ Post(w, f)
    PROVE  TypeOK' /\ WorkInv'
<1>1. CASE StartWait(w, f)
  BY <1>1 DEF StartWait, GotoF, queueVars, workerVars, TypeOK, WorkInv
<1>2. CASE Test(w, f)
  BY <1>2 DEF Test, GotoF, queueVars, workerVars, TypeOK, WorkInv
<1>3. CASE Reschedule(w, f)
  <2>1. m_tasks' \in Seq(Task)
    BY <1>3, ScheduleFacts DEF Reschedule, TypeOK
  <2> QED
    BY <1>3, <2>1 DEF Reschedule, GotoF, workerVars, TypeOK, WorkInv
<1>4. CASE Spawn(w, f)
  <2>1. m_tasks' \in Seq(Task)
    BY <1>4, ScheduleFacts DEF Spawn, TypeOK, Callback
  <2> QED
    BY <1>4, <2>1 DEF Spawn, fiberVars, workerVars, TypeOK, WorkInv
<1>5. CASE \E g \in Fiber : Notify(w, f, g)
  <2>1. PICK g \in Fiber : Notify(w, f, g)
    BY <1>5
  <2>2. [fiber |-> g, thread |-> waiterThread[g]] \in Task
    BY DEF Task, TypeOK
  <2>3. [fiber |-> g, thread |-> waiterThread[g]] # None
    BY <2>2, SchedulerAssumption
  <2>4. TypeOK'
    BY <2>1, <2>2 DEF Notify, GotoF, queueVars, workerVars, TypeOK
  <2>5. WorkInv'
    BY <2>1, <2>3 DEF Notify, GotoF, queueVars, workerVars, TypeOK, WorkInv
  <2> QED
    BY <2>4, <2>5
<1>6. CASE Post(w, f)
  <2>1. owes[f] \in Task
    BY <1>6 DEF Post, TypeOK, WorkInv
  <2>2. owes[f].fiber \in Fiber \cup {None} /\ owes[f].thread \in Worker \cup {AnyThread}
    BY <2>1 DEF Task
  <2>3. m_tasks' \in Seq(Task)
    BY <1>6, <2>2, ScheduleFacts DEF Post, TypeOK
  <2> QED
    BY <1>6, <2>3 DEF Post, GotoF, workerVars, TypeOK, WorkInv
<1> QED
  BY <1>1, <1>2, <1>3, <1>4, <1>5, <1>6

LEMMA SwitchWork ==
    ASSUME TypeOK, WorkInv, NEW w \in Worker, NEW f \in Fiber,
           Yield(w, f) \/ Switch(w, f) \/ Finish(w, f) \/ Leave(w, f)
    PROVE  TypeOK' /\ WorkInv'
<1>1. TypeOK'
  <2>1. CASE Yield(w, f) \/ Switch(w, f)
    BY <2>1 DEF Yield, Switch, GotoW, GotoF, queueVars, workerVars, TypeOK
  <2>2. CASE Finish(w, f) \/ Leave(w, f)
    BY <2>2 DEF Finish, Leave, GotoW, GotoF, queueVars, workerVars, TypeOK
  <2> QED
    BY <2>1, <2>2
<1>2. WorkInv'
  <2>1. CASE Yield(w, f)
    BY <2>1 DEF Yield, Executes, GotoF, workerVars, TypeOK, WorkInv, Loose
  <2>2. CASE Switch(w, f)
    BY <2>2 DEF Switch, Executes, GotoW, GotoF, TypeOK, WorkInv, Loose
  <2>3. CASE Finish(w, f)
    BY <2>3 DEF Finish, Executes, GotoF, workerVars, TypeOK, WorkInv, Loose
  <2>4. CASE Leave(w, f)
    BY <2>4 DEF Leave, Executes, GotoW, GotoF, TypeOK, WorkInv, Loose
  <2> QED
    BY <2>1, <2>2, <2>3, <2>4
<1> QED
  BY <1>1, <1>2

LEMMA NextWork == TypeOK /\ WorkInv /\ CountInv /\ [Next]_vars => TypeOK' /\ WorkInv'
<1> SUFFICES ASSUME TypeOK, WorkInv, CountInv, [Next]_vars PROVE TypeOK' /\ WorkInv'
  OBVIOUS
<1>1. ASSUME NEW w \in Worker, WorkerStep(w) PROVE TypeOK' /\ WorkInv'
  BY <1>1, PickWork, CallbackWork, LockWork, LoopWork DEF WorkerStep
<1>2. ASSUME NEW w \in Worker, FiberStep(w) PROVE TypeOK' /\ WorkInv'
  BY <1>2, UserWork, SwitchWork DEF FiberStep
<1>3. CASE UNCHANGED vars
  BY <1>3 DEF vars, queueVars, fiberVars, workerVars, TypeOK, WorkInv
<1> QED
  BY <1>1, <1>2, <1>3, MainWork, StopWork DEF Next

-----------------------------------------------------------------------------
(* The count of tasks in hand, and leaving.                                *)

LEMMA NextCount == TypeOK /\ WorkInv /\ CountInv /\ [Next]_vars => CountInv'
<1> SUFFICES ASSUME TypeOK, WorkInv, CountInv, [Next]_vars PROVE CountInv'
  OBVIOUS
<1>1. ASSUME NEW w \in Worker, Pick(w) PROVE CountInv'
  <2>1. w \notin Busy
    BY <1>1 DEF Pick, WorkInv, Loose, Busy
  <2>2. Busy' = Busy \cup {w}
    BY <1>1, PickFacts DEF TypeOK, Busy
  <2>3. Cardinality(Busy') = Cardinality(Busy) + 1
    BY <2>1, <2>2, BusyFacts, FS_AddElement
  <2> QED
    BY <1>1, <2>3 DEF Pick, CountInv
<1>2. ASSUME NEW w \in Worker, Decrement(w) PROVE CountInv'
  <2>1. w \in Busy
    BY <1>2 DEF Decrement, WorkInv, Loose, Busy
  <2>2. Busy' = Busy \ {w}
    BY <1>2 DEF Decrement, TypeOK, Busy
  <2>3. Cardinality(Busy') = Cardinality(Busy) - 1
    BY <2>1, <2>2, BusyFacts, FS_RemoveElement
  <2> QED
    BY <1>2, <2>3 DEF Decrement, CountInv
<1>3. ASSUME m_activeThreadCount' = m_activeThreadCount, task' = task PROVE CountInv'
  BY <1>3 DEF CountInv, Busy
<1>4. ASSUME NEW w \in Worker, AcquireCached(w) \/ AcquireNew(w) PROVE CountInv'
  <2>1. task[w] \in Task
    BY <1>4 DEF AcquireCached, AcquireNew, TypeOK, WorkInv, Loose
  <2>2. PICK g : task' = [task EXCEPT ![w].fiber = g]
    BY <1>4 DEF AcquireCached, AcquireNew
  <2>3. task'[w] # None
    <3>1. WorkInv'
      BY <1>4, CallbackWork
    <3>2. wpc'[w] = "lock"
      BY <1>4 DEF AcquireCached, AcquireNew, GotoW, TypeOK
    <3> QED
      BY <3>1, <3>2 DEF WorkInv, Loose
  <2>4. Busy' = Busy
    BY <2>1, <2>2, <2>3, CallbackIsNoFiber DEF TypeOK, Busy, Callback
  <2> QED
    BY <1>4, <2>4 DEF AcquireCached, AcquireNew, queueVars, CountInv
<1>5. ASSUME NEW w \in Worker, WorkerStep(w) PROVE CountInv'
  <2>1. ASSUME PickNone(w) \/ Idle(w) \/ LockFiber(w) \/ SkipTerminated(w) \/ ResumeFiber(w)
               \/ UnlockFiber(w) \/ Requeue(w) \/ Release(w)
        PROVE  m_activeThreadCount' = m_activeThreadCount /\ task' = task
    BY <2>1 DEF PickNone, Idle, LockFiber, SkipTerminated, ResumeFiber, UnlockFiber, Requeue,
                Release, queueVars
  <2> QED
    BY <1>1, <1>2, <1>3, <1>4, <1>5, <2>1 DEF WorkerStep
<1>6. ASSUME NEW w \in Worker, FiberStep(w) PROVE CountInv'
  BY <1>3, <1>6 DEF FiberStep, StartWait, Test, Notify, Post, Reschedule, Spawn, Yield,
                    Switch, Finish, Leave, queueVars, workerVars
<1>7. CASE \/ \E f \in Fiber, thread \in Worker \cup {AnyThread} : SubmitFiber(f, thread)
           \/ \E thread \in Worker \cup {AnyThread} : SubmitCallback(thread)
           \/ Stop \/ Join \/ Stopped \/ UNCHANGED vars
  BY <1>3, <1>7 DEF SubmitFiber, SubmitCallback, Stop, Join, Stopped, vars, queueVars, workerVars
<1> QED
  BY <1>5, <1>6, <1>7 DEF Next

\* Whoever has a task keeps every idle fiber from having ended.
LEMMA BusyStep ==
    ASSUME DoneInv, Busy # {} \/ m_tasks # <<>>, UNCHANGED <<m_stopping, main, idleTerm>>,
           \A w \in Worker : wpc'[w] = "exited" => wpc[w] = "exited"
    PROVE  DoneInv'
BY DEF DoneInv

LEMMA NextDone == TypeOK /\ WorkInv /\ CountInv /\ DoneInv /\ [Next]_vars => DoneInv'
<1> SUFFICES ASSUME TypeOK, WorkInv, CountInv, DoneInv, [Next]_vars PROVE DoneInv'
  OBVIOUS
<1>1. ASSUME NEW w \in Worker, Pick(w) PROVE DoneInv'
  <2>1. m_tasks # <<>>
    BY <1>1, PickFacts
  <2>2. UNCHANGED <<m_stopping, main, idleTerm>> /\ DOMAIN wpc = Worker
    BY <1>1 DEF Pick, TypeOK
  <2>3. PICK label \in {"acquire", "lock"} : wpc' = [wpc EXCEPT ![w] = label]
    BY <1>1, PickFacts
  <2>4. \A v \in Worker : wpc'[v] = "exited" => wpc[v] = "exited"
    BY <2>2, <2>3
  <2> QED
    BY <2>1, <2>2, <2>4, BusyStep
<1>2. ASSUME NEW w \in Worker, PickNone(w) PROVE DoneInv'
  BY <1>2 DEF PickNone, GotoW, queueVars, TypeOK, DoneInv, Busy
<1>3. ASSUME NEW w \in Worker, Idle(w) PROVE DoneInv'
  <2>1. Stopping => Busy = {}
    BY BusyFacts DEF Stopping, CountInv
  <2> QED
    BY <1>3, <2>1 DEF Idle, Stopping, GotoW, queueVars, TypeOK, DoneInv, Busy
<1>4. ASSUME NEW w \in Worker, WorkerStep(w), wpc[w] \notin Loose PROVE DoneInv'
  <2>1. w \in Busy
    BY <1>4 DEF WorkInv, Busy
  <2>2. /\ UNCHANGED <<m_stopping, main, idleTerm>>
        /\ \A v \in Worker : wpc'[v] = "exited" => wpc[v] = "exited"
    <3>1. CASE Pick(w) \/ PickNone(w) \/ Idle(w)
      BY <1>4, <3>1 DEF Pick, PickNone, Idle, Loose
    <3>2. CASE AcquireCached(w) \/ AcquireNew(w)
      BY <3>2 DEF AcquireCached, AcquireNew, GotoW, queueVars, TypeOK
    <3>3. CASE LockFiber(w) \/ SkipTerminated(w) \/ ResumeFiber(w) \/ UnlockFiber(w)
      BY <3>3 DEF LockFiber, SkipTerminated, ResumeFiber, UnlockFiber, GotoW, queueVars, TypeOK
    <3>4. CASE Requeue(w) \/ Release(w) \/ Decrement(w)
      BY <3>4 DEF Requeue, Release, Decrement, GotoW, queueVars, TypeOK
    <3> QED
      BY <1>4, <3>1, <3>2, <3>3, <3>4 DEF WorkerStep
  <2> QED
    BY <2>1, <2>2, BusyStep
<1>5. ASSUME NEW w \in Worker, WorkerStep(w), wpc[w] \in Loose PROVE DoneInv'
  BY <1>1, <1>2, <1>3, <1>5
     DEF WorkerStep, AcquireCached, AcquireNew, LockFiber, SkipTerminated, ResumeFiber,
         UnlockFiber, Requeue, Release, Decrement, Loose
<1>6. ASSUME NEW w \in Worker, FiberStep(w) PROVE DoneInv'
  <2>1. PICK f \in Fiber :
           \/ StartWait(w, f) \/ Test(w, f) \/ Reschedule(w, f) \/ Spawn(w, f)
           \/ (\E g \in Fiber : Notify(w, f, g)) \/ Post(w, f)
           \/ Yield(w, f) \/ Switch(w, f) \/ Finish(w, f) \/ Leave(w, f)
    BY <1>6 DEF FiberStep
  <2>2. wpc[w] = "inside"
    BY <2>1 DEF StartWait, Test, Reschedule, Spawn, Notify, Post, Yield, Switch, Finish,
                Leave, Executes
  <2>3. w \in Busy
    BY <2>2 DEF WorkInv, Loose, Busy
  <2>4. /\ UNCHANGED <<m_stopping, main, idleTerm>>
        /\ \A v \in Worker : wpc'[v] = "exited" => wpc[v] = "exited"
    BY <2>1 DEF StartWait, Test, Reschedule, Spawn, Notify, Post, Yield, Switch, Finish,
                Leave, GotoW, queueVars, workerVars, TypeOK
  <2> QED
    BY <2>3, <2>4, BusyStep
<1>7. CASE \/ \E f \in Fiber, thread \in Worker \cup {AnyThread} : SubmitFiber(f, thread)
           \/ \E thread \in Worker \cup {AnyThread} : SubmitCallback(thread)
           \/ Stop
  BY <1>7 DEF SubmitFiber, SubmitCallback, Stop, workerVars, DoneInv, Busy
<1>8. CASE Join \/ Stopped \/ UNCHANGED vars
  BY <1>8 DEF Join, Stopped, vars, queueVars, workerVars, DoneInv, Busy
<1> QED
  BY <1>4, <1>5, <1>6, <1>7, <1>8 DEF Next

LEMMA Work == Spec => [](TypeOK /\ WorkInv /\ CountInv /\ DoneInv)
<1>1. Init => CountInv /\ DoneInv
  <2> SUFFICES ASSUME Init PROVE CountInv /\ DoneInv
    OBVIOUS
  <2>1. Busy = {}
    BY DEF Init, Busy
  <2> QED
    BY <2>1, FS_EmptySet DEF Init, CountInv, DoneInv
<1> QED
  BY <1>1, InitWork, NextWork, NextCount, NextDone, PTL DEF Spec

-----------------------------------------------------------------------------
\* Every variable of the scheduler keeps its type: the unsigned count of active
\* threads does not go below zero, and the pool stays within its bound.
THEOREM TypeCorrect == Spec => []TypeOK
<1>1. TypeOK /\ WorkInv /\ CountInv /\ DoneInv => TypeOK
  OBVIOUS
<1> QED
  BY <1>1, Work, PTL

\* A worker leaves Scheduler::run only when stop() was called and every task that
\* was queued or in hand, and all that these queued in turn, is done.
THEOREM LeavesNothingUndone == Spec => []ExitsOnlyWhenDone
<1>1. TypeOK /\ WorkInv /\ CountInv /\ DoneInv => ExitsOnlyWhenDone
  BY DEF DoneInv, ExitsOnlyWhenDone, Busy
<1> QED
  BY <1>1, Work, PTL

-----------------------------------------------------------------------------
(* Fibers: who may be on which stack, if callbacks do not yield.           *)

Queued(f) == \E i \in DOMAIN m_tasks : m_tasks[i].fiber = f
Pooled(f) == \E i \in DOMAIN m_cache : m_cache[i] = f

\* w has f as the fiber of its fiber task, or of its callback until it is released.
Handles(w, f) == task[w] # None /\ ~isCallback[w] /\ task[w].fiber = f
Hosts(w, f) == isCallback[w] /\ wpc[w] # "decrement" /\ task[w].fiber = f

\* There is, or may come, a fiber task for f.
Meant(f) ==
    \/ Queued(f)
    \/ \E w \in Worker : Handles(w, f)
    \/ waiter[f] # "none"
    \/ \E g \in Fiber : owes[g] # None /\ owes[g].fiber = f

\* A fiber is meant for tasks of its own, or hosts a callback, or is pooled: one
\* of the three at a time; and none before it was made.
RoleInv ==
    \A f \in Fiber :
        /\ Meant(f) => ~Pooled(f)
        /\ Meant(f) \/ Pooled(f) => \A w \in Worker : ~Hosts(w, f)
        /\ \A w, v \in Worker : Hosts(w, f) /\ Hosts(v, f) => w = v
        /\ m_state[f] = "NONE" =>
               /\ ~Meant(f) /\ ~Pooled(f) /\ \A w \in Worker : ~Hosts(w, f)
               /\ at[f] = "run"
        /\ Pooled(f) => m_state[f] = "TERM"

\* Whoever is to resume a fiber, or is inside it, holds its mutex.
MutexInv ==
    \A w \in Worker : wpc[w] \in {"resume", "inside", "unlock"} => m_mutex[task[w].fiber] = w

\* The state of a fiber tells whether a worker is inside it, and where.
StateFits(f) ==
    /\ m_state[f] = "RUNNING" => \E w \in Worker : Executes(w, f)
    /\ m_state[f] = "READY" => at[f] \in {"run", "test", "switch"}
    /\ m_state[f] = "READY" /\ at[f] = "switch" => \E w \in Worker : Executes(w, f)
    /\ (\E w \in Worker : Executes(w, f)) =>
           \/ m_state[f] = "RUNNING" /\ at[f] \in {"run", "test", "yield", "post"}
           \/ m_state[f] = "READY" /\ at[f] = "switch"
           \/ m_state[f] = "TERM" /\ at[f] = "leave"

StateInv == \A f \in Fiber : StateFits(f)

\* A callback's fiber is fresh when the worker enters it, and has ended when it leaves.
HostInv ==
    \A w \in Worker, f \in Fiber : Hosts(w, f) =>
        /\ wpc[w] \in {"lock", "resume"} => m_state[f] = "READY" /\ at[f] = "run"
        /\ wpc[w] = "inside" => at[f] \in {"run", "post", "leave"}
        /\ wpc[w] \in {"unlock", "release"} => m_state[f] = "TERM"

PoolInv == IsInjective(m_cache)

FiberInv == RoleInv /\ MutexInv /\ StateInv /\ HostInv /\ PoolInv

-----------------------------------------------------------------------------
LEMMA OneInside ==
    ASSUME MutexInv, NEW f, NEW w \in Worker, NEW v \in Worker, Executes(w, f), Executes(v, f)
    PROVE  w = v
BY DEF MutexInv, Executes

\* A worker inside a fiber, or about to be, handles or hosts it.
LEMMA InHand ==
    ASSUME WorkInv, NEW w \in Worker, wpc[w] \in {"lock", "resume", "inside", "unlock"}
    PROVE  /\ task[w].fiber \in Fiber /\ task[w] # None
           /\ Handles(w, task[w].fiber) \/ Hosts(w, task[w].fiber)
BY DEF WorkInv, Loose, Handles, Hosts

\* A step that gives no fiber a role it did not have.
LEMMA RolesKept ==
    ASSUME RoleInv,
           \A f \in Fiber :
              /\ Meant(f)' => Meant(f)
              /\ Pooled(f)' => Pooled(f)
              /\ \A w \in Worker : Hosts(w, f)' => Hosts(w, f)
              /\ m_state'[f] = "NONE" => m_state[f] = "NONE" /\ at'[f] = at[f]
              /\ Pooled(f) => m_state'[f] = m_state[f]
    PROVE  RoleInv'
BY DEF RoleInv

\* What leaves waiter and owes alone is meant for no more fibers than before if its
\* tasks come from the queue or a hand.
LEMMA MeantKept ==
    ASSUME UNCHANGED <<waiter, owes>>, NEW f \in Fiber,
           Queued(f)' => Meant(f),
           \A w \in Worker : Handles(w, f)' => Meant(f)
    PROVE  Meant(f)' => Meant(f)
BY DEF Meant

\* A step that moves no worker into or out of a fiber, and gives no fiber a role.
Quiet ==
    /\ UNCHANGED <<m_state, at, m_mutex>> /\ (m_cache' = m_cache \/ m_cache' = <<>>)
    /\ \A f \in Fiber :
          /\ Meant(f)' => Meant(f)
          /\ \A w \in Worker :
                /\ Hosts(w, f)' => Hosts(w, f) /\ wpc'[w] = wpc[w]
                /\ Executes(w, f)' <=> Executes(w, f)
    /\ \A w \in Worker : wpc'[w] \in {"resume", "inside", "unlock"} =>
          wpc[w] \in {"resume", "inside", "unlock"} /\ task'[w] = task[w]

LEMMA QuietStep == FiberInv /\ Quiet => FiberInv'
<1> SUFFICES ASSUME FiberInv, Quiet PROVE FiberInv'
  OBVIOUS
<1> USE DEF Quiet
<1>1. \A f \in Fiber : Pooled(f)' => Pooled(f)
  BY DEF Pooled
<1>2. RoleInv'
  BY <1>1, RolesKept DEF FiberInv
<1>3. MutexInv'
  BY DEF FiberInv, MutexInv
<1>4. StateInv'
  BY DEF FiberInv, StateInv, StateFits
<1>5. HostInv'
  BY DEF FiberInv, HostInv
<1>6. PoolInv'
  BY DEF FiberInv, PoolInv, IsInjective
<1> QED
  BY <1>2, <1>3, <1>4, <1>5, <1>6 DEF FiberInv

LEMMA MainQuiet ==
    ASSUME TypeOK, WorkInv,
           \/ \E thread \in Worker \cup {AnyThread} : SubmitCallback(thread)
           \/ Stop \/ Join \/ Stopped \/ UNCHANGED vars
    PROVE  Quiet
<1>1. /\ UNCHANGED <<m_state, at, m_mutex, waiter, owes, task, isCallback>>
      /\ m_cache' = m_cache \/ m_cache' = <<>>
  BY DEF SubmitCallback, Stop, Join, Stopped, vars, fiberVars, workerVars
<1>2. \A w \in Worker : wpc'[w] # wpc[w] => wpc[w] = "off" /\ wpc'[w] = "pick"
  BY DEF SubmitCallback, Stop, Join, Stopped, vars, workerVars, WorkInv
<1>3. \A f \in Fiber : Queued(f)' => Queued(f)
  <2>1. CASE m_tasks' = m_tasks
    BY <2>1 DEF Queued
  <2>2. CASE \E thread \in Worker \cup {AnyThread} : SubmitCallback(thread)
    <3>1. PICK thread \in Worker \cup {AnyThread} : SubmitCallback(thread)
      BY <2>2
    <3>2. \A k \in DOMAIN m_tasks' :
             \/ \E j \in DOMAIN m_tasks : m_tasks'[k] = m_tasks[j]
             \/ m_tasks'[k] = [fiber |-> None, thread |-> thread]
      BY <3>1, ScheduleFacts DEF SubmitCallback, TypeOK, Callback
    <3> QED
      BY <3>2, CallbackIsNoFiber DEF Queued, Callback
  <2> QED
    BY <2>1, <2>2 DEF Stop, Join, Stopped, vars, queueVars
<1>4. \A f \in Fiber : Meant(f)' => Meant(f)
  BY <1>1, <1>3 DEF Meant, Handles
<1>5. \A f \in Fiber, w \in Worker : Hosts(w, f)' => Hosts(w, f) /\ wpc'[w] = wpc[w]
  BY <1>1, <1>2 DEF Hosts, WorkInv, Loose
<1>6. \A f \in Fiber, w \in Worker : Executes(w, f)' <=> Executes(w, f)
  BY <1>1, <1>2 DEF Executes
<1> QED
  BY <1>1, <1>2, <1>4, <1>5, <1>6 DEF Quiet

LEMMA PickQuiet ==
    ASSUME TypeOK, WorkInv, NEW w \in Worker, Pick(w)
    PROVE  Quiet
<1>1. PICK i \in DOMAIN m_tasks :
           /\ m_tasks[i] \in Task
           /\ \A k \in DOMAIN m_tasks' : \E j \in DOMAIN m_tasks : m_tasks'[k] = m_tasks[j]
           /\ task' = [task EXCEPT ![w] = m_tasks[i]]
           /\ isCallback' = [isCallback EXCEPT ![w] = m_tasks[i].fiber = Callback]
           /\ wpc' = [wpc EXCEPT ![w] = IF m_tasks[i].fiber = Callback
                                        THEN "acquire" ELSE "lock"]
  BY PickFacts
<1>2. UNCHANGED <<m_state, at, m_mutex, waiter, owes, m_cache>> /\ wpc[w] = "pick"
  BY DEF Pick, fiberVars
<1>3. /\ task'[w] = m_tasks[i] /\ wpc'[w] \in {"acquire", "lock"}
      /\ isCallback'[w] <=> m_tasks[i].fiber = Callback
      /\ \A v \in Worker \ {w} : task'[v] = task[v] /\ wpc'[v] = wpc[v]
                                /\ isCallback'[v] = isCallback[v]
  BY <1>1 DEF TypeOK
<1>4. ASSUME NEW f \in Fiber PROVE Meant(f)' => Meant(f)
  <2>1. Queued(f)' => Meant(f)
    BY <1>1 DEF Queued, Meant
  <2>2. ASSUME NEW v \in Worker, Handles(v, f)' PROVE Meant(f)
    BY <1>3, <2>2 DEF Handles, Meant, Queued
  <2> QED
    BY <1>2, <2>1, <2>2, MeantKept
<1>5. ASSUME NEW f \in Fiber, NEW v \in Worker, Hosts(v, f)'
      PROVE  Hosts(v, f) /\ wpc'[v] = wpc[v]
  BY <1>3, <1>5, CallbackIsNoFiber DEF Hosts
<1>6. \A f \in Fiber, v \in Worker : Executes(v, f)' <=> Executes(v, f)
  BY <1>2, <1>3 DEF Executes
<1> QED
  BY <1>2, <1>3, <1>4, <1>5, <1>6 DEF Quiet

\* A new task in the queue makes nobody else queued.
LEMMA QueuedBy ==
    ASSUME TypeOK, NEW g \in Fiber \cup {None}, NEW thread \in Worker \cup {AnyThread},
           Schedule(g, thread)
    PROVE  \A f \in Fiber : Queued(f)' => Queued(f) \/ f = g
<1>1. \A k \in DOMAIN m_tasks' :
         \/ \E j \in DOMAIN m_tasks : m_tasks'[k] = m_tasks[j]
         \/ m_tasks'[k] = [fiber |-> g, thread |-> thread]
  BY ScheduleFacts DEF TypeOK
<1> QED
  BY <1>1 DEF Queued

LEMMA LoopQuiet ==
    ASSUME TypeOK, WorkInv, NEW w \in Worker,
           PickNone(w) \/ Idle(w) \/ SkipTerminated(w) \/ Requeue(w) \/ Decrement(w)
    PROVE  Quiet
<1>1. /\ UNCHANGED <<m_state, at, m_mutex, waiter, owes, m_cache>>
      /\ \A v \in Worker \ {w} : task'[v] = task[v] /\ wpc'[v] = wpc[v]
                                /\ isCallback'[v] = isCallback[v]
  BY DEF PickNone, Idle, SkipTerminated, Requeue, Decrement, GotoW, fiberVars, TypeOK
<1>2. \/ wpc[w] = "resume" /\ wpc'[w] = "unlock" /\ ~isCallback[w]
      \/ /\ wpc[w] \in {"pick", "idle", "requeue", "decrement"}
         /\ wpc'[w] \in {"pick", "idle", "exited", "decrement"}
         /\ wpc[w] = "decrement" => wpc'[w] = "pick" /\ ~isCallback'[w]
  BY DEF PickNone, Idle, SkipTerminated, Requeue, Decrement, GotoW, TypeOK
<1>3. \/ task'[w] = task[w] /\ isCallback'[w] = isCallback[w]
      \/ task'[w] = None /\ ~isCallback'[w] /\ wpc[w] = "decrement" /\ wpc'[w] = "pick"
  BY DEF PickNone, Idle, SkipTerminated, Requeue, Decrement, GotoW, fiberVars, TypeOK
<1>4. ASSUME NEW f \in Fiber PROVE Meant(f)' => Meant(f)
  <2>1. Queued(f)' => Meant(f)
    <3>1. CASE Requeue(w) /\ m_tasks' # m_tasks
      <4>1. /\ task[w] # None /\ task[w].fiber \in Fiber /\ ~isCallback[w]
            /\ task[w].thread \in Worker \cup {AnyThread}
        BY <3>1 DEF Requeue, TypeOK, WorkInv, Loose, Task
      <4>2. Schedule(task[w].fiber, task[w].thread)
        BY <3>1 DEF Requeue
      <4>3. Queued(f)' => Queued(f) \/ f = task[w].fiber
        BY <4>1, <4>2, QueuedBy
      <4> QED
        BY <4>1, <4>3 DEF Meant, Handles
    <3>2. CASE m_tasks' = m_tasks
      BY <3>2 DEF Queued, Meant
    <3> QED
      BY <3>1, <3>2 DEF PickNone, Idle, SkipTerminated, Requeue, Decrement, queueVars
  <2>2. ASSUME NEW v \in Worker, Handles(v, f)' PROVE Meant(f)
    BY <1>1, <1>3, <2>2 DEF Handles, Meant
  <2> QED
    BY <1>1, <2>1, <2>2, MeantKept
<1>5. ASSUME NEW f \in Fiber, NEW v \in Worker, Hosts(v, f)'
      PROVE  Hosts(v, f) /\ wpc'[v] = wpc[v]
  BY <1>1, <1>2, <1>3, <1>5 DEF Hosts, WorkInv, Loose
<1>6. \A f \in Fiber, v \in Worker : Executes(v, f)' <=> Executes(v, f)
  BY <1>1, <1>2, <1>3 DEF Executes
<1>7. \A v \in Worker : wpc'[v] \in {"resume", "inside", "unlock"} =>
         /\ wpc[v] \in {"resume", "inside", "unlock"}
         /\ task'[v] = task[v]
  BY <1>1, <1>2, <1>3
<1> QED
  BY <1>1, <1>4, <1>5, <1>6, <1>7 DEF Quiet

\* A step of a worker that takes it on along its task, with the queue left alone.
LEMMA HandsKept ==
    ASSUME WorkInv, NEW w \in Worker, UNCHANGED <<m_tasks, waiter, owes, task, isCallback>>,
           wpc[w] \notin {"acquire", "decrement"},
           \A v \in Worker \ {w} : wpc'[v] = wpc[v]
    PROVE  \A f \in Fiber :
              /\ Meant(f)' => Meant(f)
              /\ \A v \in Worker : Hosts(v, f)' => Hosts(v, f)
BY DEF Meant, Queued, Handles, Hosts

LEMMA LockFibers ==
    ASSUME TypeOK, WorkInv, FiberInv, NEW w \in Worker, LockFiber(w)
    PROVE  FiberInv'
<1> DEFINE f == task[w].fiber
<1>0. /\ wpc[w] = "lock" /\ wpc'[w] = "resume" /\ f \in Fiber
      /\ \A v \in Worker \ {w} : wpc'[v] = wpc[v]
      /\ m_mutex[f] = None /\ m_mutex'[f] = w
      /\ \A g \in Fiber \ {f} : m_mutex'[g] = m_mutex[g]
      /\ UNCHANGED <<m_tasks, m_state, at, waiter, owes, m_cache, task, isCallback>>
  BY InHand DEF LockFiber, GotoW, queueVars, TypeOK
<1> HIDE DEF f
<1>1. RoleInv'
  BY <1>0, HandsKept, RolesKept DEF FiberInv, Pooled
<1>2. MutexInv'
  <2>1. ASSUME NEW v \in Worker \ {w}, wpc'[v] \in {"resume", "inside", "unlock"}
        PROVE  m_mutex'[task'[v].fiber] = v
    BY <1>0, <2>1, InHand, SchedulerAssumption DEF FiberInv, MutexInv
  <2> QED
    BY <1>0, <2>1 DEF MutexInv, f
<1>3. \A g \in Fiber, v \in Worker : Executes(v, g)' <=> Executes(v, g)
  BY <1>0 DEF Executes
<1>4. StateInv'
  BY <1>0, <1>3 DEF FiberInv, StateInv, StateFits
<1>5. HostInv'
  BY <1>0 DEF FiberInv, HostInv, Hosts
<1>6. PoolInv'
  BY <1>0 DEF FiberInv, PoolInv
<1> QED
  BY <1>1, <1>2, <1>4, <1>5, <1>6 DEF FiberInv

LEMMA ResumeFibers ==
    ASSUME TypeOK, WorkInv, FiberInv, NEW w \in Worker, ResumeFiber(w)
    PROVE  FiberInv'
<1>0. PICK f \in Fiber :
      /\ wpc[w] = "resume" /\ wpc'[w] = "inside" /\ f = task[w].fiber
      /\ \A v \in Worker \ {w} : wpc'[v] = wpc[v]
      /\ m_state[f] = "READY" /\ m_state'[f] = "RUNNING"
      /\ \A g \in Fiber \ {f} : m_state'[g] = m_state[g]
      /\ UNCHANGED <<m_tasks, m_mutex, at, waiter, owes, m_cache, task, isCallback>>
  BY InHand DEF ResumeFiber, GotoW, queueVars, TypeOK
<1>1. Executes(w, f)' /\ \A v \in Worker : ~Executes(v, f)
  BY <1>0 DEF Executes, FiberInv, MutexInv
<1>2. \A g \in Fiber, v \in Worker : g # f \/ v # w => (Executes(v, g)' <=> Executes(v, g))
  BY <1>0 DEF Executes
<1>3. RoleInv'
  BY <1>0, HandsKept, RolesKept DEF FiberInv, Pooled, RoleInv
<1>4. MutexInv'
  BY <1>0 DEF FiberInv, MutexInv
<1>5. at[f] \in {"run", "test"}
  BY <1>0, <1>1 DEF FiberInv, StateInv, StateFits
<1>6. StateInv'
  <2>1. ASSUME NEW g \in Fiber \ {f}
        PROVE  /\ m_state'[g] = m_state[g] /\ at'[g] = at[g]
               /\ \A v \in Worker : Executes(v, g)' <=> Executes(v, g)
    BY <1>0, <1>2
  <2>2. m_state'[f] = "RUNNING" /\ at'[f] \in {"run", "test"} /\ Executes(w, f)'
    BY <1>0, <1>1, <1>5
  <2>3. StateFits(f)'
    BY <2>2 DEF StateFits
  <2>4. ASSUME NEW g \in Fiber \ {f} PROVE StateFits(g)'
    BY <2>1, <2>4 DEF FiberInv, StateInv, StateFits
  <2> QED
    BY <2>3, <2>4 DEF StateInv
<1>7. HostInv'
  <2>1. ASSUME NEW v \in Worker, NEW g \in Fiber, Hosts(v, g)'
        PROVE  /\ wpc'[v] \in {"lock", "resume"} => m_state'[g] = "READY" /\ at'[g] = "run"
               /\ wpc'[v] = "inside" => at'[g] \in {"run", "post", "leave"}
               /\ wpc'[v] \in {"unlock", "release"} => m_state'[g] = "TERM"
    <3>1. Hosts(v, g)
      BY <1>0, <2>1, HandsKept
    <3>2. CASE g = f /\ v # w
      <4>1. Handles(w, f) \/ Hosts(w, f)
        BY <1>0, InHand
      <4>2. Hosts(w, f)
        BY <1>0, <3>1, <3>2, <4>1 DEF FiberInv, RoleInv, Meant
      <4> QED
        BY <1>0, <3>1, <3>2, <4>2 DEF FiberInv, RoleInv
    <3>3. CASE v = w
      BY <1>0, <3>1, <3>3 DEF FiberInv, HostInv
    <3>4. CASE g # f /\ v # w
      BY <1>0, <3>1, <3>4 DEF FiberInv, HostInv
    <3> QED
      BY <3>2, <3>3, <3>4
  <2> QED
    BY <2>1 DEF HostInv
<1>8. PoolInv'
  BY <1>0 DEF FiberInv, PoolInv
<1> QED
  BY <1>3, <1>4, <1>6, <1>7, <1>8 DEF FiberInv

LEMMA UnlockFibers ==
    ASSUME TypeOK, WorkInv, FiberInv, NEW w \in Worker, UnlockFiber(w)
    PROVE  FiberInv'
<1>0. PICK f \in Fiber :
      /\ wpc[w] = "unlock" /\ wpc'[w] \in {"release", "requeue"} /\ f = task[w].fiber
      /\ \A v \in Worker \ {w} : wpc'[v] = wpc[v]
      /\ \A g \in Fiber \ {f} : m_mutex'[g] = m_mutex[g]
      /\ m_mutex[f] = w
      /\ UNCHANGED <<m_tasks, m_state, at, waiter, owes, m_cache, task, isCallback>>
  BY InHand DEF UnlockFiber, GotoW, queueVars, TypeOK, FiberInv, MutexInv
<1>1. RoleInv'
  BY <1>0, HandsKept, RolesKept DEF FiberInv, Pooled
<1>2. MutexInv'
  BY <1>0, InHand DEF FiberInv, MutexInv
<1>3. \A g \in Fiber, v \in Worker : Executes(v, g)' <=> Executes(v, g)
  BY <1>0 DEF Executes
<1>4. StateInv'
  BY <1>0, <1>3 DEF FiberInv, StateInv, StateFits
<1>5. HostInv'
  BY <1>0 DEF FiberInv, HostInv, Hosts
<1>6. PoolInv'
  BY <1>0 DEF FiberInv, PoolInv
<1> QED
  BY <1>1, <1>2, <1>4, <1>5, <1>6 DEF FiberInv

\* One more fiber in the pool.
LEMMA PoolGrows ==
    ASSUME TypeOK, PoolInv, NEW f \in Fiber, ~Pooled(f), m_cache' = Append(m_cache, f)
    PROVE  PoolInv' /\ \A g \in Fiber : Pooled(g)' => Pooled(g) \/ g = f
<1>1. /\ Len(m_cache) \in Nat /\ DOMAIN m_cache = 1 .. Len(m_cache)
      /\ DOMAIN m_cache' = 1 .. Len(m_cache) + 1
      /\ m_cache'[Len(m_cache) + 1] = f
      /\ \A i \in 1 .. Len(m_cache) : m_cache'[i] = m_cache[i] /\ m_cache[i] # f
  BY DEF TypeOK, Pooled
<1>2. \A i \in DOMAIN m_cache' : i \in DOMAIN m_cache \/ i = Len(m_cache) + 1
  BY <1>1
<1>3. IsInjective(m_cache')
  BY <1>1, <1>2 DEF IsInjective, PoolInv
<1>4. \A g \in Fiber : Pooled(g)' => Pooled(g) \/ g = f
  BY <1>1, <1>2 DEF Pooled
<1> QED
  BY <1>3, <1>4 DEF PoolInv

LEMMA ReleaseFibers ==
    ASSUME TypeOK, WorkInv, FiberInv, NEW w \in Worker, Release(w)
    PROVE  FiberInv'
<1>0. PICK f \in Fiber :
      /\ wpc[w] = "release" /\ wpc'[w] = "decrement" /\ f = task[w].fiber
      /\ \A v \in Worker \ {w} : wpc'[v] = wpc[v]
      /\ m_cache' = m_cache \/ m_cache' = Append(m_cache, f)
      /\ UNCHANGED <<m_tasks, m_state, m_mutex, at, waiter, owes, task, isCallback>>
      /\ isCallback[w]
  BY DEF Release, GotoW, queueVars, fiberVars, TypeOK, WorkInv, Loose
<1>1. Hosts(w, f) /\ m_state[f] = "TERM"
  BY <1>0 DEF Hosts, FiberInv, HostInv
<1>2. ~Meant(f) /\ ~Pooled(f) /\ \A v \in Worker \ {w} : ~Hosts(v, f)
  BY <1>1 DEF FiberInv, RoleInv
<1>3. ASSUME NEW g \in Fiber
      PROVE  /\ Meant(g)' => Meant(g)
             /\ \A v \in Worker : Hosts(v, g)' => Hosts(v, g) /\ wpc'[v] = wpc[v]
             /\ Pooled(g)' => Pooled(g) \/ g = f
             /\ ~Hosts(w, g)'
  <2>1. Meant(g)' => Meant(g)
    BY <1>0, HandsKept
  <2>2. \A v \in Worker : Hosts(v, g)' => Hosts(v, g) /\ wpc'[v] = wpc[v]
    BY <1>0 DEF Hosts
  <2>3. Pooled(g)' => Pooled(g) \/ g = f
    <3>1. CASE m_cache' = Append(m_cache, f)
      BY <1>2, <3>1, PoolGrows DEF FiberInv
    <3>2. CASE m_cache' = m_cache
      BY <3>2 DEF Pooled
    <3> QED
      BY <1>0, <3>1, <3>2
  <2>4. ~Hosts(w, g)'
    BY <1>0 DEF Hosts
  <2> QED
    BY <2>1, <2>2, <2>3, <2>4
<1>4. RoleInv'
  BY <1>0, <1>1, <1>2, <1>3 DEF FiberInv, RoleInv
<1>5. MutexInv'
  BY <1>0 DEF FiberInv, MutexInv
<1>6. \A g \in Fiber, v \in Worker : Executes(v, g)' <=> Executes(v, g)
  BY <1>0 DEF Executes
<1>7. StateInv'
  BY <1>0, <1>6 DEF FiberInv, StateInv, StateFits
<1>8. HostInv'
  BY <1>0, <1>3 DEF FiberInv, HostInv
<1>9. PoolInv'
  <2>1. CASE m_cache' = m_cache
    BY <2>1 DEF FiberInv, PoolInv
  <2>2. CASE m_cache' = Append(m_cache, f)
    BY <1>2, <2>2, PoolGrows DEF FiberInv
  <2> QED
    BY <1>0, <2>1, <2>2
<1> QED
  BY <1>4, <1>5, <1>7, <1>8, <1>9 DEF FiberInv

\* A fiber from the pool, which nobody is inside, becomes the host of a callback.
LEMMA CachedFacts ==
    ASSUME TypeOK, WorkInv, PoolInv, NEW w \in Worker, AcquireCached(w),
           \A g \in Fiber : Pooled(g) => \A v \in Worker : ~Executes(v, g)
    PROVE  \E f \in Fiber :
              /\ Pooled(f)
              /\ wpc[w] = "acquire" /\ wpc'[w] = "lock" /\ isCallback[w]
              /\ \A v \in Worker \ {w} : wpc'[v] = wpc[v] /\ task'[v] = task[v]
              /\ task'[w].fiber = f /\ task'[w] # None
              /\ m_state'[f] = "READY" /\ at'[f] = "run"
              /\ \A g \in Fiber \ {f} : m_state'[g] = m_state[g] /\ at'[g] = at[g]
              /\ UNCHANGED <<m_tasks, m_mutex, waiter, owes, isCallback>>
              /\ \A g \in Fiber :
                    /\ Meant(g)' => Meant(g)
                    /\ \A v \in Worker \ {w} : Hosts(v, g)' <=> Hosts(v, g)
                    /\ Hosts(w, g)' <=> g = f
                    /\ Pooled(g)' => Pooled(g) /\ g # f
                    /\ \A v \in Worker : Executes(v, g)' <=> Executes(v, g)
              /\ PoolInv'
<1>0. PICK n \in Nat \ {0} :
      /\ n = Len(m_cache) /\ DOMAIN m_cache = 1 .. n /\ m_cache[n] \in Fiber
      /\ m_cache[n] = Last(m_cache)
      /\ m_cache' = Front(m_cache)
      /\ DOMAIN m_cache' = 1 .. n - 1
      /\ \A i \in 1 .. n - 1 : m_cache'[i] = m_cache[i]
  <2>1. m_cache \in Seq(Fiber) /\ m_cache # <<>> /\ m_cache' = Front(m_cache)
    BY DEF AcquireCached, TypeOK
  <2> QED
    BY <2>1 DEF Last, Front
<1>1. PICK f \in Fiber : f = m_cache[n]
  BY <1>0
<1>2. Pooled(f)
  BY <1>0, <1>1 DEF Pooled
<1>3. \A v \in Worker : ~Executes(v, f)
  BY <1>2
<1>4. /\ wpc[w] = "acquire" /\ wpc'[w] = "lock" /\ isCallback[w]
      /\ \A v \in Worker \ {w} : wpc'[v] = wpc[v] /\ task'[v] = task[v]
      /\ task'[w].fiber = f /\ task'[w] # None
      /\ m_state'[f] = "READY" /\ at'[f] = "run"
      /\ \A g \in Fiber \ {f} : m_state'[g] = m_state[g] /\ at'[g] = at[g]
      /\ UNCHANGED <<m_tasks, m_mutex, waiter, owes, isCallback>>
  <2>1. wpc[w] = "acquire" /\ isCallback[w] /\ task[w] \in Task
    BY DEF AcquireCached, WorkInv, Loose, TypeOK
  <2>2. task' = [task EXCEPT ![w].fiber = f]
    BY <1>0, <1>1 DEF AcquireCached
  <2>3. at' = [at EXCEPT ![f] = "run"]
    BY <1>0, <1>1, <1>3 DEF AcquireCached, GotoF, Executes
  <2>4. task'[w].fiber = f /\ \A v \in Worker \ {w} : task'[v] = task[v]
    BY <2>1, <2>2 DEF TypeOK, Task
  <2>5. task'[w] # None
    BY <2>1, CallbackWork DEF WorkInv, TypeOK, AcquireCached, GotoW, Loose
  <2> QED
    BY <1>0, <1>1, <2>1, <2>3, <2>4, <2>5 DEF AcquireCached, GotoW, queueVars, TypeOK
<1>5. ASSUME NEW g \in Fiber
      PROVE  /\ Meant(g)' => Meant(g)
             /\ \A v \in Worker \ {w} : Hosts(v, g)' <=> Hosts(v, g)
             /\ Hosts(w, g)' <=> g = f
             /\ Pooled(g)' => Pooled(g) /\ g # f
             /\ \A v \in Worker : Executes(v, g)' <=> Executes(v, g)
  <2>1. Meant(g)' => Meant(g)
    BY <1>4 DEF Meant, Queued, Handles
  <2>2. /\ \A v \in Worker \ {w} : Hosts(v, g)' <=> Hosts(v, g)
        /\ Hosts(w, g)' <=> g = f
    BY <1>4 DEF Hosts
  <2>3. Pooled(g)' => Pooled(g) /\ g # f
    <3>1. ASSUME NEW i \in DOMAIN m_cache'
          PROVE  i \in DOMAIN m_cache /\ i # n /\ n \in DOMAIN m_cache
      BY <1>0
    <3> QED
      BY <1>0, <1>1, <3>1 DEF Pooled, PoolInv, IsInjective
  <2>4. \A v \in Worker : Executes(v, g)' <=> Executes(v, g)
    BY <1>4 DEF Executes
  <2> QED
    BY <2>1, <2>2, <2>3, <2>4
<1>6. PoolInv'
  <2>1. \A i \in DOMAIN m_cache' : i \in DOMAIN m_cache /\ m_cache'[i] = m_cache[i]
    BY <1>0
  <2> QED
    BY <2>1 DEF PoolInv, IsInjective
<1> QED
  BY <1>2, <1>4, <1>5, <1>6

LEMMA AcquireCachedFibers ==
    ASSUME TypeOK, WorkInv, FiberInv, NEW w \in Worker, AcquireCached(w)
    PROVE  FiberInv'
<1>1. \A g \in Fiber : Pooled(g) => \A v \in Worker : ~Executes(v, g)
  BY InHand DEF Executes, Meant, FiberInv, RoleInv
<1>2. PICK f \in Fiber :
      /\ Pooled(f)
      /\ wpc[w] = "acquire" /\ wpc'[w] = "lock" /\ isCallback[w]
      /\ \A v \in Worker \ {w} : wpc'[v] = wpc[v] /\ task'[v] = task[v]
      /\ task'[w].fiber = f /\ task'[w] # None
      /\ m_state'[f] = "READY" /\ at'[f] = "run"
      /\ \A g \in Fiber \ {f} : m_state'[g] = m_state[g] /\ at'[g] = at[g]
      /\ UNCHANGED <<m_tasks, m_mutex, waiter, owes, isCallback>>
      /\ \A g \in Fiber :
            /\ Meant(g)' => Meant(g)
            /\ \A v \in Worker \ {w} : Hosts(v, g)' <=> Hosts(v, g)
            /\ Hosts(w, g)' <=> g = f
            /\ Pooled(g)' => Pooled(g) /\ g # f
            /\ \A v \in Worker : Executes(v, g)' <=> Executes(v, g)
      /\ PoolInv'
  BY <1>1, CachedFacts DEF FiberInv
<1>3. ~Meant(f) /\ \A v \in Worker : ~Hosts(v, f) /\ ~Executes(v, f)
  BY <1>1, <1>2 DEF FiberInv, RoleInv
<1>4. RoleInv'
  <2>1. ASSUME NEW g \in Fiber
        PROVE  /\ Meant(g)' => ~Pooled(g)'
               /\ Meant(g)' \/ Pooled(g)' => \A v \in Worker : ~Hosts(v, g)'
               /\ \A u, v \in Worker : Hosts(u, g)' /\ Hosts(v, g)' => u = v
               /\ m_state'[g] = "NONE" =>
                      /\ ~Meant(g)' /\ ~Pooled(g)' /\ \A v \in Worker : ~Hosts(v, g)'
                      /\ at'[g] = "run"
               /\ Pooled(g)' => m_state'[g] = "TERM"
    <3>1. CASE g = f
      BY <1>2, <1>3, <3>1
    <3>2. CASE g # f
      BY <1>2, <3>2 DEF FiberInv, RoleInv
    <3> QED
      BY <3>1, <3>2
  <2> QED
    BY <2>1 DEF RoleInv
<1>5. MutexInv'
  BY <1>2 DEF FiberInv, MutexInv
<1>6. StateInv'
  <2>1. StateFits(f)'
    BY <1>2, <1>3 DEF StateFits
  <2>2. ASSUME NEW g \in Fiber \ {f} PROVE StateFits(g)'
    BY <1>2 DEF FiberInv, StateInv, StateFits
  <2> QED
    BY <2>1, <2>2 DEF StateInv
<1>7. HostInv'
  <2>1. ASSUME NEW v \in Worker, NEW g \in Fiber, Hosts(v, g)', g # f
        PROVE  Hosts(v, g) /\ wpc'[v] = wpc[v] /\ m_state'[g] = m_state[g] /\ at'[g] = at[g]
    BY <1>2, <2>1
  <2>2. \A v \in Worker : Hosts(v, f)' => v = w
    BY <1>2, <1>3
  <2> QED
    BY <1>2, <2>1, <2>2 DEF FiberInv, HostInv
<1> QED
  BY <1>2, <1>4, <1>5, <1>6, <1>7 DEF FiberInv

\* A new Fiber object, which nobody refers to yet.
LEMMA NewFiber ==
    ASSUME FiberInv, NEW f \in Fiber, m_state[f] = "NONE"
    PROVE  /\ ~Meant(f) /\ ~Pooled(f) /\ \A v \in Worker : ~Hosts(v, f) /\ ~Executes(v, f)
           /\ at[f] = "run"
BY DEF FiberInv, RoleInv, StateInv, StateFits

\* A new fiber becomes the host of a callback.
LEMMA NewFacts ==
    ASSUME TypeOK, WorkInv, NEW w \in Worker, AcquireNew(w)
    PROVE  \E f \in Fiber :
              /\ m_state[f] = "NONE" /\ m_state'[f] = "READY"
              /\ wpc[w] = "acquire" /\ wpc'[w] = "lock" /\ isCallback[w]
              /\ \A v \in Worker \ {w} : wpc'[v] = wpc[v] /\ task'[v] = task[v]
              /\ task'[w].fiber = f /\ task'[w] # None
              /\ \A g \in Fiber \ {f} : m_state'[g] = m_state[g]
              /\ UNCHANGED <<m_tasks, m_mutex, m_cache, at, waiter, owes, isCallback>>
              /\ \A g \in Fiber :
                    /\ Meant(g)' => Meant(g)
                    /\ \A v \in Worker \ {w} : Hosts(v, g)' <=> Hosts(v, g)
                    /\ Hosts(w, g)' <=> g = f
                    /\ Pooled(g)' <=> Pooled(g)
                    /\ \A v \in Worker : Executes(v, g)' <=> Executes(v, g)
<1>1. PICK f \in Fiber :
      /\ m_state[f] = "NONE"
      /\ m_state' = [m_state EXCEPT ![f] = "READY"]
      /\ task' = [task EXCEPT ![w].fiber = f]
  BY DEF AcquireNew, IsNext
<1>2. /\ wpc[w] = "acquire" /\ wpc'[w] = "lock" /\ isCallback[w]
      /\ \A v \in Worker \ {w} : wpc'[v] = wpc[v] /\ task'[v] = task[v]
      /\ task'[w].fiber = f /\ task'[w] # None
      /\ m_state'[f] = "READY"
      /\ \A g \in Fiber \ {f} : m_state'[g] = m_state[g]
      /\ UNCHANGED <<m_tasks, m_mutex, m_cache, at, waiter, owes, isCallback>>
  <2>1. wpc[w] = "acquire" /\ isCallback[w] /\ task[w] \in Task
    BY DEF AcquireNew, WorkInv, Loose, TypeOK
  <2>2. task'[w].fiber = f /\ \A v \in Worker \ {w} : task'[v] = task[v]
    BY <1>1, <2>1 DEF TypeOK, Task
  <2>3. task'[w] # None
    BY <2>1, CallbackWork DEF WorkInv, TypeOK, AcquireNew, GotoW, Loose
  <2> QED
    BY <1>1, <2>1, <2>2, <2>3 DEF AcquireNew, GotoW, queueVars, TypeOK
<1>3. ASSUME NEW g \in Fiber
      PROVE  /\ Meant(g)' => Meant(g)
             /\ \A v \in Worker \ {w} : Hosts(v, g)' <=> Hosts(v, g)
             /\ Hosts(w, g)' <=> g = f
             /\ Pooled(g)' <=> Pooled(g)
             /\ \A v \in Worker : Executes(v, g)' <=> Executes(v, g)
  <2>1. Meant(g)' => Meant(g)
    BY <1>2 DEF Meant, Queued, Handles
  <2>2. /\ \A v \in Worker \ {w} : Hosts(v, g)' <=> Hosts(v, g)
        /\ Hosts(w, g)' <=> g = f
    BY <1>2 DEF Hosts
  <2>3. Pooled(g)' <=> Pooled(g)
    BY <1>2 DEF Pooled
  <2>4. \A v \in Worker : Executes(v, g)' <=> Executes(v, g)
    BY <1>2 DEF Executes
  <2> QED
    BY <2>1, <2>2, <2>3, <2>4
<1> QED
  BY <1>1, <1>2, <1>3

LEMMA AcquireNewFibers ==
    ASSUME TypeOK, WorkInv, FiberInv, NEW w \in Worker, AcquireNew(w)
    PROVE  FiberInv'
<1>1. PICK f \in Fiber :
      /\ m_state[f] = "NONE" /\ m_state'[f] = "READY"
      /\ wpc[w] = "acquire" /\ wpc'[w] = "lock" /\ isCallback[w]
      /\ \A v \in Worker \ {w} : wpc'[v] = wpc[v] /\ task'[v] = task[v]
      /\ task'[w].fiber = f /\ task'[w] # None
      /\ \A g \in Fiber \ {f} : m_state'[g] = m_state[g]
      /\ UNCHANGED <<m_tasks, m_mutex, m_cache, at, waiter, owes, isCallback>>
      /\ \A g \in Fiber :
            /\ Meant(g)' => Meant(g)
            /\ \A v \in Worker \ {w} : Hosts(v, g)' <=> Hosts(v, g)
            /\ Hosts(w, g)' <=> g = f
            /\ Pooled(g)' <=> Pooled(g)
            /\ \A v \in Worker : Executes(v, g)' <=> Executes(v, g)
  BY NewFacts
<1>2. /\ ~Meant(f) /\ ~Pooled(f) /\ \A v \in Worker : ~Hosts(v, f) /\ ~Executes(v, f)
      /\ at[f] = "run"
  BY <1>1, NewFiber
<1>3. RoleInv'
  <2>1. ASSUME NEW g \in Fiber
        PROVE  /\ Meant(g)' => ~Pooled(g)'
               /\ Meant(g)' \/ Pooled(g)' => \A v \in Worker : ~Hosts(v, g)'
               /\ \A u, v \in Worker : Hosts(u, g)' /\ Hosts(v, g)' => u = v
               /\ m_state'[g] = "NONE" =>
                      /\ ~Meant(g)' /\ ~Pooled(g)' /\ \A v \in Worker : ~Hosts(v, g)'
                      /\ at'[g] = "run"
               /\ Pooled(g)' => m_state'[g] = "TERM"
    <3>1. CASE g = f
      BY <1>1, <1>2, <3>1
    <3>2. CASE g # f
      BY <1>1, <3>2 DEF FiberInv, RoleInv
    <3> QED
      BY <3>1, <3>2
  <2> QED
    BY <2>1 DEF RoleInv
<1>4. MutexInv'
  BY <1>1 DEF FiberInv, MutexInv
<1>5. StateInv'
  <2>1. StateFits(f)'
    BY <1>1, <1>2 DEF StateFits
  <2>2. ASSUME NEW g \in Fiber \ {f} PROVE StateFits(g)'
    BY <1>1 DEF FiberInv, StateInv, StateFits
  <2> QED
    BY <2>1, <2>2 DEF StateInv
<1>6. HostInv'
  <2>1. ASSUME NEW v \in Worker, NEW g \in Fiber, Hosts(v, g)', g # f
        PROVE  Hosts(v, g) /\ wpc'[v] = wpc[v] /\ m_state'[g] = m_state[g] /\ at'[g] = at[g]
    BY <1>1, <2>1
  <2>2. \A v \in Worker : Hosts(v, f)' => v = w
    BY <1>1, <1>2
  <2> QED
    BY <1>1, <1>2, <2>1, <2>2 DEF FiberInv, HostInv
<1>7. PoolInv'
  BY <1>1 DEF FiberInv, PoolInv
<1> QED
  BY <1>3, <1>4, <1>5, <1>6, <1>7 DEF FiberInv

LEMMA SubmitFacts ==
    ASSUME TypeOK, NEW f \in Fiber, NEW thread \in Worker \cup {AnyThread},
           SubmitFiber(f, thread)
    PROVE  /\ m_state[f] = "NONE" /\ m_state'[f] = "READY"
           /\ \A g \in Fiber \ {f} : m_state'[g] = m_state[g]
           /\ UNCHANGED <<m_mutex, m_cache, at, waiter, owes, wpc, task, isCallback>>
           /\ \A g \in Fiber :
                 /\ Meant(g)' => Meant(g) \/ g = f
                 /\ \A v \in Worker : Hosts(v, g)' <=> Hosts(v, g)
                 /\ \A v \in Worker : Executes(v, g)' <=> Executes(v, g)
                 /\ Pooled(g)' <=> Pooled(g)
<1>1. /\ m_state[f] = "NONE" /\ m_state'[f] = "READY"
      /\ \A g \in Fiber \ {f} : m_state'[g] = m_state[g]
      /\ UNCHANGED <<m_mutex, m_cache, at, waiter, owes, wpc, task, isCallback>>
  BY DEF SubmitFiber, IsNext, workerVars, TypeOK
<1>2. \A g \in Fiber : Queued(g)' => Queued(g) \/ g = f
  BY QueuedBy DEF SubmitFiber
<1>3. ASSUME NEW g \in Fiber
      PROVE  /\ Meant(g)' => Meant(g) \/ g = f
             /\ \A v \in Worker : Hosts(v, g)' <=> Hosts(v, g)
             /\ \A v \in Worker : Executes(v, g)' <=> Executes(v, g)
             /\ Pooled(g)' <=> Pooled(g)
  <2>1. Meant(g)' => Meant(g) \/ g = f
    BY <1>1, <1>2 DEF Meant, Handles
  <2>2. \A v \in Worker : Hosts(v, g)' <=> Hosts(v, g)
    BY <1>1 DEF Hosts
  <2>3. \A v \in Worker : Executes(v, g)' <=> Executes(v, g)
    BY <1>1 DEF Executes
  <2>4. Pooled(g)' <=> Pooled(g)
    BY <1>1 DEF Pooled
  <2> QED
    BY <2>1, <2>2, <2>3, <2>4
<1> QED
  BY <1>1, <1>3

LEMMA SubmitFibers ==
    ASSUME TypeOK, WorkInv, FiberInv, NEW f \in Fiber, NEW thread \in Worker \cup {AnyThread},
           SubmitFiber(f, thread)
    PROVE  FiberInv'
<1>1. /\ m_state[f] = "NONE" /\ m_state'[f] = "READY"
      /\ \A g \in Fiber \ {f} : m_state'[g] = m_state[g]
      /\ UNCHANGED <<m_mutex, m_cache, at, waiter, owes, wpc, task, isCallback>>
      /\ \A g \in Fiber :
            /\ Meant(g)' => Meant(g) \/ g = f
            /\ \A v \in Worker : Hosts(v, g)' <=> Hosts(v, g)
            /\ \A v \in Worker : Executes(v, g)' <=> Executes(v, g)
            /\ Pooled(g)' <=> Pooled(g)
  BY SubmitFacts
<1>2. /\ ~Meant(f) /\ ~Pooled(f) /\ \A v \in Worker : ~Hosts(v, f) /\ ~Executes(v, f)
      /\ at[f] = "run"
  BY <1>1, NewFiber
<1>3. RoleInv'
  BY <1>1, <1>2 DEF FiberInv, RoleInv
<1>4. MutexInv'
  BY <1>1 DEF FiberInv, MutexInv
<1>5. StateInv'
  <2>1. StateFits(f)'
    BY <1>1, <1>2 DEF StateFits
  <2>2. ASSUME NEW g \in Fiber \ {f} PROVE StateFits(g)'
    BY <1>1 DEF FiberInv, StateInv, StateFits
  <2> QED
    BY <2>1, <2>2 DEF StateInv
<1>6. HostInv'
  <2>1. \A v \in Worker, g \in Fiber : Hosts(v, g)' => Hosts(v, g) /\ g # f
    BY <1>1, <1>2
  <2> QED
    BY <1>1, <2>1 DEF FiberInv, HostInv
<1>7. PoolInv'
  BY <1>1 DEF FiberInv, PoolInv
<1> QED
  BY <1>3, <1>4, <1>5, <1>6, <1>7 DEF FiberInv

\* User code inside a fiber that hosts a callback does not yield.
LEMMA InsideFacts ==
    ASSUME WorkInv, FiberInv, NEW w \in Worker, NEW f \in Fiber, Executes(w, f)
    PROVE  /\ \/ m_state[f] = "RUNNING" /\ at[f] \in {"run", "test", "yield", "post"}
              \/ m_state[f] = "READY" /\ at[f] = "switch"
              \/ m_state[f] = "TERM" /\ at[f] = "leave"
           /\ isCallback[w] => Hosts(w, f) /\ at[f] \in {"run", "post", "leave"}
           /\ ~isCallback[w] => Handles(w, f) /\ Meant(f)
           /\ \A v \in Worker : Executes(v, f) => v = w
           /\ \A v \in Worker : Hosts(v, f) => v = w
           /\ m_mutex[f] = w /\ ~Pooled(f)
<1>1. f = task[w].fiber /\ wpc[w] = "inside" /\ (Handles(w, f) \/ Hosts(w, f))
  BY InHand DEF Executes
<1>2. isCallback[w] => Hosts(w, f) /\ at[f] \in {"run", "post", "leave"}
  BY <1>1 DEF Handles, FiberInv, HostInv
<1>3. ~isCallback[w] => Handles(w, f) /\ Meant(f)
  BY <1>1 DEF Hosts, Meant
<1>4. \A v \in Worker : Executes(v, f) => v = w
  BY OneInside DEF FiberInv
<1>5. (\A v \in Worker : Hosts(v, f) => v = w) /\ ~Pooled(f)
  BY <1>2, <1>3 DEF FiberInv, RoleInv
<1> QED
  BY <1>1, <1>2, <1>3, <1>4, <1>5 DEF FiberInv, StateInv, StateFits, MutexInv

\* User code makes no fiber a meant one but its own, by a wait or a reschedule.
LEMMA UserFacts ==
    ASSUME TypeOK, WorkInv, NEW w \in Worker, NEW f \in Fiber,
           \/ StartWait(w, f) \/ Test(w, f) \/ Reschedule(w, f) \/ Spawn(w, f)
           \/ (\E g \in Fiber : Notify(w, f, g)) \/ Post(w, f)
    PROVE  /\ Executes(w, f) /\ at[f] \in {"run", "test", "post"}
           /\ UNCHANGED <<m_state, m_mutex, m_cache, wpc, task, isCallback>>
           /\ \A g \in Fiber \ {f} : at'[g] = at[g]
           /\ at'[f] \in {"run", "test", "yield", "post"}
           /\ isCallback[w] /\ at[f] # "test" => at'[f] \in {"run", "post"} \/ CallbacksYield
           /\ \A g \in Fiber :
                 /\ Meant(g)' => Meant(g) \/ (g = f /\ (isCallback[w] => CallbacksYield))
                 /\ \A v \in Worker : Hosts(v, g)' <=> Hosts(v, g)
                 /\ \A v \in Worker : Executes(v, g)' <=> Executes(v, g)
                 /\ Pooled(g)' <=> Pooled(g)
<1>1. /\ Executes(w, f) /\ at[f] \in {"run", "test", "post"}
      /\ UNCHANGED <<m_state, m_mutex, m_cache, wpc, task, isCallback>>
      /\ \A g \in Fiber \ {f} : at'[g] = at[g]
      /\ at'[f] \in {"run", "test", "yield", "post"}
      /\ isCallback[w] /\ at[f] # "test" => at'[f] \in {"run", "post"} \/ CallbacksYield
  BY DEF StartWait, Test, Reschedule, Spawn, Notify, Post, GotoF, fiberVars, workerVars, TypeOK
<1>2. ASSUME NEW g \in Fiber
      PROVE  Meant(g)' => Meant(g) \/ (g = f /\ (isCallback[w] => CallbacksYield))
  <2>1. CASE StartWait(w, f)
    <3>1. /\ isCallback[w] => CallbacksYield
          /\ waiter' = [waiter EXCEPT ![f] = "queued"] /\ UNCHANGED <<m_tasks, owes>>
      BY <2>1 DEF StartWait, queueVars
    <3>2. CASE g = f
      BY <3>1, <3>2
    <3>3. CASE g # f
      BY <1>1, <3>1, <3>3 DEF TypeOK, Meant, Queued, Handles
    <3> QED
      BY <3>2, <3>3
  <2>2. ASSUME Test(w, f) PROVE Meant(g)' => Meant(g)
    <3>1. /\ waiter'[g] # "none" => waiter[g] # "none"
          /\ UNCHANGED <<m_tasks, owes>>
      BY <2>2 DEF Test, queueVars, TypeOK
    <3> QED
      BY <1>1, <3>1 DEF Meant, Queued, Handles
  <2>3. ASSUME \E h \in Fiber : Notify(w, f, h) PROVE Meant(g)' => Meant(g)
    <3>1. PICK h \in Fiber : Notify(w, f, h)
      BY <2>3
    <3>2. /\ waiter[h] = "queued" /\ UNCHANGED m_tasks
          /\ \A k \in Fiber : waiter'[k] # "none" => waiter[k] # "none"
          /\ \A k \in Fiber \ {f} : owes'[k] = owes[k]
          /\ owes'[f].fiber = h
      BY <3>1 DEF Notify, queueVars, TypeOK
    <3>3. Meant(h)
      BY <3>2 DEF Meant
    <3>4. CASE g = h
      BY <3>3, <3>4
    <3>5. CASE g # h
      <4>1. ASSUME NEW k \in Fiber, owes'[k] # None /\ owes'[k].fiber = g
            PROVE  owes[k] # None /\ owes[k].fiber = g
        BY <3>2, <3>5, <4>1
      <4> QED
        BY <1>1, <3>2, <4>1 DEF Meant, Queued, Handles
    <3> QED
      BY <3>4, <3>5
  <2>4. ASSUME Post(w, f) PROVE Meant(g)' => Meant(g)
    <3>1. /\ owes[f] # None /\ owes[f].fiber \in Fiber \cup {None}
          /\ owes[f].thread \in Worker \cup {AnyThread}
          /\ Schedule(owes[f].fiber, owes[f].thread)
          /\ UNCHANGED waiter
          /\ \A k \in Fiber : owes'[k] # None => owes'[k] = owes[k]
      BY <2>4 DEF Post, TypeOK, WorkInv, Task
    <3>2. Queued(g)' => Queued(g) \/ g = owes[f].fiber
      BY <3>1, QueuedBy
    <3> QED
      BY <1>1, <3>1, <3>2 DEF Meant, Handles
  <2>5. CASE Reschedule(w, f)
    <3>1. /\ isCallback[w] => CallbacksYield
          /\ Schedule(f, AnyThread) /\ UNCHANGED <<waiter, owes>>
      BY <2>5 DEF Reschedule
    <3>2. Queued(g)' => Queued(g) \/ g = f
      BY <3>1, QueuedBy
    <3> QED
      BY <1>1, <3>1, <3>2 DEF Meant, Handles
  <2>6. ASSUME Spawn(w, f) PROVE Meant(g)' => Meant(g)
    <3>1. Schedule(None, AnyThread) /\ UNCHANGED <<waiter, owes>>
      BY <2>6 DEF Spawn, fiberVars, Callback
    <3>2. Queued(g)' => Queued(g) \/ g = None
      BY <3>1, QueuedBy
    <3>3. g # None
      BY CallbackIsNoFiber DEF Callback
    <3> QED
      BY <1>1, <3>1, <3>2, <3>3 DEF Meant, Handles
  <2> QED
    BY <2>1, <2>2, <2>3, <2>4, <2>5, <2>6
<1>3. ASSUME NEW g \in Fiber
      PROVE  /\ \A v \in Worker : Hosts(v, g)' <=> Hosts(v, g)
             /\ \A v \in Worker : Executes(v, g)' <=> Executes(v, g)
             /\ Pooled(g)' <=> Pooled(g)
  BY <1>1 DEF Hosts, Executes, Pooled
<1> QED
  BY <1>1, <1>2, <1>3

LEMMA UserFibers ==
    ASSUME TypeOK, WorkInv, FiberInv, CallbacksYield = FALSE,
           NEW w \in Worker, NEW f \in Fiber,
           \/ StartWait(w, f) \/ Test(w, f) \/ Reschedule(w, f) \/ Spawn(w, f)
           \/ (\E g \in Fiber : Notify(w, f, g)) \/ Post(w, f)
    PROVE  FiberInv'
<1>1. /\ Executes(w, f) /\ at[f] \in {"run", "test", "post"}
      /\ UNCHANGED <<m_state, m_mutex, m_cache, wpc, task, isCallback>>
      /\ \A g \in Fiber \ {f} : at'[g] = at[g]
      /\ at'[f] \in {"run", "test", "yield", "post"}
      /\ isCallback[w] /\ at[f] # "test" => at'[f] \in {"run", "post"}
      /\ \A g \in Fiber :
            /\ Meant(g)' => Meant(g) \/ (g = f /\ ~isCallback[w])
            /\ \A v \in Worker : Hosts(v, g)' <=> Hosts(v, g)
            /\ \A v \in Worker : Executes(v, g)' <=> Executes(v, g)
            /\ Pooled(g)' <=> Pooled(g)
  BY UserFacts
<1>2. /\ m_state[f] = "RUNNING" /\ ~Pooled(f)
      /\ \A v \in Worker : Hosts(v, f) => v = w /\ at'[f] \in {"run", "post"} /\ wpc[v] = "inside"
      /\ ~isCallback[w] => Meant(f)
  BY <1>1, InsideFacts DEF Hosts, Executes
<1>3. RoleInv'
  BY <1>1, <1>2, RolesKept DEF FiberInv
<1>4. MutexInv'
  BY <1>1 DEF FiberInv, MutexInv
<1>5. StateInv'
  <2>1. StateFits(f)'
    BY <1>1, <1>2 DEF StateFits
  <2>2. ASSUME NEW g \in Fiber \ {f} PROVE StateFits(g)'
    BY <1>1 DEF FiberInv, StateInv, StateFits
  <2> QED
    BY <2>1, <2>2 DEF StateInv
<1>6. HostInv'
  BY <1>1, <1>2 DEF FiberInv, HostInv
<1>7. PoolInv'
  BY <1>1 DEF FiberInv, PoolInv
<1> QED
  BY <1>3, <1>4, <1>5, <1>6, <1>7 DEF FiberInv

LEMMA SwitchFacts ==
    ASSUME TypeOK, NEW w \in Worker, NEW f \in Fiber,
           Yield(w, f) \/ Switch(w, f) \/ Finish(w, f) \/ Leave(w, f)
    PROVE  /\ Executes(w, f) /\ f = task[w].fiber /\ wpc[w] = "inside"
           /\ UNCHANGED <<m_tasks, waiter, owes, m_mutex, m_cache, task, isCallback>>
           /\ \A g \in Fiber \ {f} : at'[g] = at[g] /\ m_state'[g] = m_state[g]
           /\ \A v \in Worker \ {w} : wpc'[v] = wpc[v]
           /\ \/ /\ wpc'[w] = "inside" /\ m_state'[f] = "READY" /\ at'[f] = "switch"
                 /\ at[f] = "yield"
              \/ /\ wpc'[w] = "unlock" /\ at[f] = "switch" /\ at'[f] = "test"
                 /\ m_state'[f] = m_state[f]
              \/ wpc'[w] = "inside" /\ m_state'[f] = "TERM" /\ at'[f] = "leave"
              \/ /\ wpc'[w] = "unlock" /\ at'[f] = "ended"
                 /\ m_state[f] = "TERM" /\ m_state'[f] = "TERM"
BY DEF Yield, Switch, Finish, Leave, Executes, GotoW, GotoF, queueVars, workerVars, TypeOK

LEMMA SwitchFibers ==
    ASSUME TypeOK, WorkInv, FiberInv, NEW w \in Worker, NEW f \in Fiber,
           Yield(w, f) \/ Switch(w, f) \/ Finish(w, f) \/ Leave(w, f)
    PROVE  FiberInv'
<1>0. /\ Executes(w, f) /\ f = task[w].fiber /\ wpc[w] = "inside"
      /\ UNCHANGED <<m_tasks, waiter, owes, m_mutex, m_cache, task, isCallback>>
      /\ \A g \in Fiber \ {f} : at'[g] = at[g] /\ m_state'[g] = m_state[g]
      /\ \A v \in Worker \ {w} : wpc'[v] = wpc[v]
      /\ \/ /\ wpc'[w] = "inside" /\ m_state'[f] = "READY" /\ at'[f] = "switch"
            /\ at[f] = "yield"
         \/ /\ wpc'[w] = "unlock" /\ at[f] = "switch" /\ at'[f] = "test"
            /\ m_state'[f] = m_state[f]
         \/ wpc'[w] = "inside" /\ m_state'[f] = "TERM" /\ at'[f] = "leave"
         \/ /\ wpc'[w] = "unlock" /\ at'[f] = "ended"
            /\ m_state[f] = "TERM" /\ m_state'[f] = "TERM"
  BY SwitchFacts
<1>1. /\ m_state[f] # "NONE" /\ ~Pooled(f) /\ (at[f] = "switch" => m_state[f] = "READY")
      /\ \A v \in Worker : Executes(v, f) => v = w
      /\ \A v \in Worker : Hosts(v, f) => v = w /\ at[f] \in {"run", "post", "leave"}
  <2>1. Hosts(w, f) => isCallback[w]
    BY DEF Hosts
  <2> QED
    BY <1>0, <2>1, InsideFacts
<1>2. \A g \in Fiber : /\ Meant(g)' => Meant(g)
                       /\ \A v \in Worker : Hosts(v, g)' => Hosts(v, g)
  BY <1>0, HandsKept
<1>3. RoleInv'
  BY <1>0, <1>1, <1>2, RolesKept DEF FiberInv, Pooled
<1>4. MutexInv'
  BY <1>0 DEF FiberInv, MutexInv
<1>5. /\ \A g \in Fiber \ {f}, v \in Worker : Executes(v, g)' <=> Executes(v, g)
      /\ \A v \in Worker : Executes(v, f)' => v = w
      /\ Executes(w, f)' <=> wpc'[w] = "inside"
  BY <1>0, <1>1 DEF Executes
<1>6. StateInv'
  <2>1. StateFits(f)'
    BY <1>0, <1>1, <1>5 DEF StateFits
  <2>2. ASSUME NEW g \in Fiber \ {f} PROVE StateFits(g)'
    BY <1>0, <1>5 DEF FiberInv, StateInv, StateFits
  <2> QED
    BY <2>1, <2>2 DEF StateInv
<1>7. HostInv'
  <2>1. ASSUME NEW v \in Worker, NEW g \in Fiber, Hosts(v, g)', g # f
        PROVE  Hosts(v, g) /\ wpc'[v] = wpc[v] /\ m_state'[g] = m_state[g] /\ at'[g] = at[g]
    BY <1>0, <1>2, <2>1 DEF Hosts
  <2>2. ASSUME NEW v \in Worker, Hosts(v, f)'
        PROVE  v = w /\ at[f] \in {"run", "post", "leave"}
    BY <1>1, <1>2, <2>2
  <2> QED
    BY <1>0, <2>1, <2>2 DEF FiberInv, HostInv
<1>8. PoolInv'
  BY <1>0 DEF FiberInv, PoolInv
<1> QED
  BY <1>3, <1>4, <1>6, <1>7, <1>8 DEF FiberInv

LEMMA NextFibers ==
    ASSUME CallbacksYield = FALSE
    PROVE  TypeOK /\ WorkInv /\ FiberInv /\ [Next]_vars => FiberInv'
<1> SUFFICES ASSUME TypeOK, WorkInv, FiberInv, [Next]_vars PROVE FiberInv'
  OBVIOUS
<1>1. ASSUME NEW w \in Worker, WorkerStep(w) PROVE FiberInv'
  BY <1>1, PickQuiet, LoopQuiet, QuietStep, AcquireCachedFibers, AcquireNewFibers, LockFibers,
     ResumeFibers, UnlockFibers, ReleaseFibers DEF WorkerStep
<1>2. ASSUME NEW w \in Worker, FiberStep(w) PROVE FiberInv'
  BY <1>2, UserFibers, SwitchFibers DEF FiberStep
<1> QED
  BY <1>1, <1>2, MainQuiet, QuietStep, SubmitFibers DEF Next

LEMMA InitFibers == Init => FiberInv
<1> SUFFICES ASSUME Init PROVE FiberInv
  OBVIOUS
<1>1. \A f \in Fiber : ~Meant(f) /\ ~Pooled(f) /\ \A w \in Worker : ~Hosts(w, f) /\ ~Executes(w, f)
  BY DEF Init, Meant, Queued, Handles, Pooled, Hosts, Executes
<1> QED
  BY <1>1 DEF Init, FiberInv, RoleInv, MutexInv, StateInv, StateFits, HostInv, PoolInv, IsInjective

LEMMA Fibers ==
    ASSUME CallbacksYield = FALSE
    PROVE  Spec => [](TypeOK /\ WorkInv /\ FiberInv)
<1>1. TypeOK /\ WorkInv /\ FiberInv /\ [Next]_vars => FiberInv'
  BY NextFibers
<1> QED
  BY <1>1, Work, InitFibers, PTL DEF Spec

-----------------------------------------------------------------------------
\* If callbacks do not yield, a worker that has locked a fiber to resume it finds it
\* READY, as resume() asserts, or skips the terminated fiber of a fiber task: nobody
\* is on its stack, and no task is left of an earlier callback on the same object.
THEOREM ResumesFreeFibers ==
    ASSUME CallbacksYield = FALSE
    PROVE  Spec => []ResumesReadyOnly
<1>1. TypeOK /\ WorkInv /\ FiberInv => ResumesReadyOnly
  <2> SUFFICES ASSUME TypeOK, WorkInv, FiberInv, NEW w \in Worker, wpc[w] = "resume"
               PROVE  \/ m_state[task[w].fiber] = "READY"
                      \/ m_state[task[w].fiber] = "TERM" /\ ~isCallback[w]
    BY DEF ResumesReadyOnly
  <2>1. PICK f \in Fiber : f = task[w].fiber /\ (Handles(w, f) \/ Hosts(w, f))
    BY InHand
  <2>2. m_mutex[f] = w /\ \A v \in Worker : ~Executes(v, f)
    BY <2>1 DEF FiberInv, MutexInv, Executes
  <2>3. CASE Hosts(w, f)
    BY <2>1, <2>3 DEF FiberInv, HostInv
  <2>4. CASE Handles(w, f)
    <3>1. m_state[f] # "NONE"
      BY <2>4 DEF FiberInv, RoleInv, Meant
    <3>2. m_state[f] # "RUNNING"
      BY <2>2 DEF FiberInv, StateInv, StateFits
    <3> QED
      BY <2>1, <2>4, <3>1, <3>2 DEF TypeOK, Handles
  <2> QED
    BY <2>1, <2>3, <2>4
<1> QED
  BY <1>1, Fibers, PTL

\* If callbacks do not yield, yield() is called on a fiber that is RUNNING or has ended:
\* nothing resets a fiber that a worker has not left.
THEOREM YieldsOwnFiber ==
    ASSUME CallbacksYield = FALSE
    PROVE  Spec => []YieldsRunningOrTerm
<1>1. TypeOK /\ WorkInv /\ FiberInv => YieldsRunningOrTerm
  BY DEF YieldsRunningOrTerm, FiberInv, StateInv, StateFits
<1> QED
  BY <1>1, Fibers, PTL

\* If callbacks do not yield, what CoroutinePool hands out is free: it has ended, is
\* pooled once, no worker is on its stack, and none has it for a callback.
THEOREM PoolHoldsFreeFibers ==
    ASSUME CallbacksYield = FALSE
    PROVE  Spec => []PooledIsFree
<1>1. TypeOK /\ WorkInv /\ FiberInv => PooledIsFree
  <2> SUFFICES ASSUME TypeOK, WorkInv, FiberInv PROVE PooledIsFree
    OBVIOUS
  <2>1. ASSUME NEW i \in DOMAIN m_cache, NEW w \in Worker, task[w] # None,
               task[w].fiber = m_cache[i]
        PROVE  wpc[w] # "inside" /\ (isCallback[w] => wpc[w] \in {"release", "decrement"})
    <3>1. PICK f \in Fiber : f = m_cache[i] /\ Pooled(f)
      BY DEF TypeOK, Pooled
    <3>2. ~Hosts(w, f) /\ ~Meant(f)
      BY <3>1 DEF FiberInv, RoleInv
    <3>3. wpc[w] # "inside"
      BY <2>1, <3>1, <3>2, InsideFacts DEF Executes
    <3> QED
      BY <2>1, <3>1, <3>2, <3>3 DEF Hosts
  <2>2. \A i \in DOMAIN m_cache : m_state[m_cache[i]] = "TERM"
    BY DEF FiberInv, RoleInv, Pooled, TypeOK
  <2> QED
    BY <2>1, <2>2 DEF PooledIsFree, FiberInv, PoolInv
<1> QED
  BY <1>1, Fibers, PTL

-----------------------------------------------------------------------------
(* One worker: it is inside one fiber at a time, so that its callbacks may *)
(* yield as well.  A fiber may then host a callback, and later be the      *)
(* fiber of a task of its own, which was queued for the callback.          *)

SoloFits(f) ==
    /\ m_state[f] = "NONE" =>
           /\ ~Meant(f) /\ ~Pooled(f) /\ \A w \in Worker : ~Hosts(w, f)
           /\ at[f] = "run"
    /\ Pooled(f) => m_state[f] = "TERM" /\ \A w \in Worker : ~Hosts(w, f) /\ ~Executes(w, f)
    /\ \A w \in Worker : Hosts(w, f) /\ wpc[w] \in {"lock", "resume"} => m_state[f] = "READY"
    /\ StateFits(f)

SoloInv == PoolInv /\ \A f \in Fiber : SoloFits(f)

\* A fiber that a step leaves alone.
LEMMA SoloKept ==
    ASSUME NEW f \in Fiber, SoloFits(f), m_state'[f] = m_state[f], at'[f] = at[f],
           Meant(f)' => Meant(f), Pooled(f)' => Pooled(f),
           \A w \in Worker :
              /\ Hosts(w, f)' =>
                     Hosts(w, f) /\ (wpc'[w] \in {"lock", "resume"} => wpc[w] \in {"lock", "resume"})
              /\ Executes(w, f)' <=> Executes(w, f)
    PROVE  SoloFits(f)'
<1>1. StateFits(f)'
  BY DEF SoloFits, StateFits
<1> QED
  BY <1>1 DEF SoloFits

LEMMA SoloQuiet == SoloInv /\ Quiet => SoloInv'
<1> SUFFICES ASSUME SoloInv, Quiet PROVE SoloInv'
  OBVIOUS
<1>1. ASSUME NEW f \in Fiber PROVE SoloFits(f)'
  <2>1. /\ m_state'[f] = m_state[f] /\ at'[f] = at[f] /\ (Meant(f)' => Meant(f))
        /\ \A w \in Worker : /\ Hosts(w, f)' => Hosts(w, f) /\ wpc'[w] = wpc[w]
                             /\ Executes(w, f)' <=> Executes(w, f)
    BY DEF Quiet
  <2>2. Pooled(f)' => Pooled(f)
    BY DEF Quiet, Pooled
  <2> QED
    BY <2>1, <2>2, SoloKept DEF SoloInv
<1>2. PoolInv'
  BY DEF Quiet, SoloInv, PoolInv, IsInjective
<1> QED
  BY <1>1, <1>2 DEF SoloInv

LEMMA LockSolo ==
    ASSUME TypeOK, WorkInv, SoloInv, NEW w \in Worker, LockFiber(w) \/ UnlockFiber(w)
    PROVE  SoloInv'
<1>1. /\ \/ wpc[w] = "lock" /\ wpc'[w] = "resume"
         \/ wpc[w] = "unlock" /\ wpc'[w] \in {"release", "requeue"}
      /\ \A v \in Worker \ {w} : wpc'[v] = wpc[v]
      /\ UNCHANGED <<m_tasks, m_state, at, waiter, owes, m_cache, task, isCallback>>
  BY DEF LockFiber, UnlockFiber, GotoW, queueVars, TypeOK
<1>2. ASSUME NEW g \in Fiber PROVE SoloFits(g)'
  <2>1. (Meant(g)' => Meant(g)) /\ \A v \in Worker : Hosts(v, g)' => Hosts(v, g)
    BY <1>1, HandsKept
  <2>2. Pooled(g)' => Pooled(g)
    BY <1>1 DEF Pooled
  <2>3. \A v \in Worker : Executes(v, g)' <=> Executes(v, g)
    BY <1>1 DEF Executes
  <2>4. \A v \in Worker : wpc'[v] \in {"lock", "resume"} => wpc[v] \in {"lock", "resume"}
    BY <1>1
  <2>5. m_state'[g] = m_state[g] /\ at'[g] = at[g]
    BY <1>1
  <2> QED
    BY <2>1, <2>2, <2>3, <2>4, <2>5, SoloKept DEF SoloInv
<1> QED
  BY <1>1, <1>2 DEF SoloInv, PoolInv

LEMMA ResumeSolo ==
    ASSUME TypeOK, WorkInv, SoloInv, NEW w \in Worker, Worker = {w}, ResumeFiber(w)
    PROVE  SoloInv'
<1>1. PICK f \in Fiber :
      /\ wpc[w] = "resume" /\ wpc'[w] = "inside" /\ f = task[w].fiber
      /\ m_state[f] = "READY" /\ m_state'[f] = "RUNNING"
      /\ \A g \in Fiber \ {f} : m_state'[g] = m_state[g]
      /\ UNCHANGED <<m_tasks, m_mutex, at, waiter, owes, m_cache, task, isCallback>>
  BY InHand DEF ResumeFiber, GotoW, queueVars, TypeOK
<1>2. /\ Executes(w, f)' /\ \A g \in Fiber : ~Executes(w, g)
      /\ \A g \in Fiber \ {f} : ~Executes(w, g)'
  BY <1>1 DEF Executes
<1>3. \A g \in Fiber : /\ Meant(g)' => Meant(g)
                       /\ \A v \in Worker : Hosts(v, g)' => Hosts(v, g)
  BY <1>1, HandsKept
<1>4. \A g \in Fiber : Pooled(g)' <=> Pooled(g)
  BY <1>1 DEF Pooled
<1>5. SoloFits(f)'
  <2>1. at[f] \in {"run", "test"} /\ ~Pooled(f)
    BY <1>1, <1>2 DEF SoloInv, SoloFits, StateFits
  <2>2. StateFits(f)'
    BY <1>1, <1>2, <2>1 DEF StateFits
  <2> QED
    BY <1>1, <1>4, <2>1, <2>2 DEF SoloFits
<1>6. ASSUME NEW g \in Fiber \ {f} PROVE SoloFits(g)'
  BY <1>1, <1>2, <1>3, <1>4, SoloKept DEF SoloInv
<1>7. PoolInv'
  BY <1>1 DEF SoloInv, PoolInv
<1> QED
  BY <1>5, <1>6, <1>7 DEF SoloInv

LEMMA ReleaseSolo ==
    ASSUME TypeOK, WorkInv, SoloInv, NEW w \in Worker, Worker = {w}, Release(w)
    PROVE  SoloInv'
<1>1. PICK f \in Fiber :
      /\ wpc[w] = "release" /\ wpc'[w] = "decrement" /\ f = task[w].fiber
      /\ m_cache' = m_cache \/ (m_cache' = Append(m_cache, f) /\ m_state[f] = "TERM")
      /\ UNCHANGED <<m_tasks, m_state, m_mutex, at, waiter, owes, task, isCallback>>
      /\ isCallback[w]
  BY DEF Release, GotoW, queueVars, fiberVars, TypeOK, WorkInv, Loose
<1>2. Hosts(w, f) /\ ~Pooled(f)
  BY <1>1 DEF Hosts, SoloInv, SoloFits
<1>3. \A g \in Fiber : /\ Meant(g)' => Meant(g)
                       /\ ~Hosts(w, g)' /\ ~Executes(w, g)' /\ ~Executes(w, g)
  <2>1. \A g \in Fiber : Meant(g)' => Meant(g)
    BY <1>1, HandsKept
  <2> QED
    BY <1>1, <2>1 DEF Hosts, Executes
<1>4. /\ \A g \in Fiber : Pooled(g)' => Pooled(g) \/ (g = f /\ m_state[f] = "TERM")
      /\ PoolInv'
  <2>1. CASE m_cache' = m_cache
    BY <2>1 DEF Pooled, PoolInv, SoloInv
  <2>2. CASE m_cache' = Append(m_cache, f) /\ m_state[f] = "TERM"
    BY <1>2, <2>2, PoolGrows DEF SoloInv
  <2> QED
    BY <1>1, <2>1, <2>2
<1>5. SoloFits(f)'
  <2>1. StateFits(f)'
    BY <1>1, <1>3 DEF SoloInv, SoloFits, StateFits
  <2>2. m_state[f] # "NONE"
    BY <1>2 DEF SoloInv, SoloFits
  <2>3. Pooled(f)' => m_state[f] = "TERM"
    BY <1>2, <1>4
  <2> QED
    BY <1>1, <1>3, <2>1, <2>2, <2>3 DEF SoloFits
<1>6. ASSUME NEW g \in Fiber \ {f} PROVE SoloFits(g)'
  <2>1. Pooled(g)' => Pooled(g)
    BY <1>4
  <2>2. m_state'[g] = m_state[g] /\ at'[g] = at[g]
    BY <1>1
  <2> QED
    BY <1>3, <2>1, <2>2, SoloKept DEF SoloInv
<1> QED
  BY <1>4, <1>5, <1>6 DEF SoloInv

\* A fiber that becomes the host of a callback, from the pool or new.
LEMMA HostSolo ==
    ASSUME NEW w \in Worker, Worker = {w}, NEW f \in Fiber,
           m_state'[f] = "READY", at'[f] = "run", ~Pooled(f)', ~Executes(w, f)'
    PROVE  SoloFits(f)'
<1>1. StateFits(f)'
  BY DEF StateFits
<1> QED
  BY <1>1 DEF SoloFits

LEMMA AcquireSolo ==
    ASSUME TypeOK, WorkInv, SoloInv, NEW w \in Worker, Worker = {w},
           AcquireCached(w) \/ AcquireNew(w)
    PROVE  SoloInv'
<1>1. CASE AcquireCached(w)
  <2>1. \A g \in Fiber : Pooled(g) => \A v \in Worker : ~Executes(v, g)
    BY DEF SoloInv, SoloFits
  <2>2. PICK f \in Fiber :
        /\ Pooled(f) /\ m_state'[f] = "READY" /\ at'[f] = "run"
        /\ \A g \in Fiber \ {f} : m_state'[g] = m_state[g] /\ at'[g] = at[g]
        /\ \A g \in Fiber :
              /\ Meant(g)' => Meant(g)
              /\ Hosts(w, g)' <=> g = f
              /\ Pooled(g)' => Pooled(g) /\ g # f
              /\ \A v \in Worker : Executes(v, g)' <=> Executes(v, g)
        /\ PoolInv'
    <3>1. PoolInv
      BY DEF SoloInv
    <3> QED
      BY <1>1, <2>1, <3>1, CachedFacts
  <2>3. SoloFits(f)'
    BY <2>1, <2>2, HostSolo
  <2>4. ASSUME NEW g \in Fiber \ {f} PROVE SoloFits(g)'
    BY <2>2, SoloKept DEF SoloInv
  <2> QED
    BY <2>2, <2>3, <2>4 DEF SoloInv
<1>2. CASE AcquireNew(w)
  <2>1. PICK f \in Fiber :
        /\ m_state[f] = "NONE" /\ m_state'[f] = "READY"
        /\ \A g \in Fiber \ {f} : m_state'[g] = m_state[g]
        /\ UNCHANGED <<m_cache, at>>
        /\ \A g \in Fiber :
              /\ Meant(g)' => Meant(g)
              /\ Hosts(w, g)' <=> g = f
              /\ Pooled(g)' <=> Pooled(g)
              /\ \A v \in Worker : Executes(v, g)' <=> Executes(v, g)
    BY <1>2, NewFacts
  <2>2. ~Pooled(f) /\ ~Executes(w, f) /\ at[f] = "run"
    BY <2>1 DEF SoloInv, SoloFits, StateFits
  <2>3. SoloFits(f)'
    BY <2>1, <2>2, HostSolo
  <2>4. ASSUME NEW g \in Fiber \ {f} PROVE SoloFits(g)'
    BY <2>1, SoloKept DEF SoloInv
  <2>5. PoolInv'
    BY <2>1 DEF SoloInv, PoolInv
  <2> QED
    BY <2>3, <2>4, <2>5 DEF SoloInv
<1> QED
  BY <1>1, <1>2

LEMMA SubmitSolo ==
    ASSUME TypeOK, SoloInv, NEW w \in Worker, Worker = {w},
           NEW f \in Fiber, NEW thread \in Worker \cup {AnyThread}, SubmitFiber(f, thread)
    PROVE  SoloInv'
<1>1. /\ m_state[f] = "NONE" /\ m_state'[f] = "READY"
      /\ \A g \in Fiber \ {f} : m_state'[g] = m_state[g]
      /\ UNCHANGED <<m_cache, at, wpc>>
      /\ \A g \in Fiber :
            /\ Meant(g)' => Meant(g) \/ g = f
            /\ \A v \in Worker : Hosts(v, g)' <=> Hosts(v, g)
            /\ \A v \in Worker : Executes(v, g)' <=> Executes(v, g)
            /\ Pooled(g)' <=> Pooled(g)
  BY SubmitFacts
<1>2. ~Pooled(f) /\ ~Executes(w, f) /\ at[f] = "run"
  BY <1>1 DEF SoloInv, SoloFits, StateFits
<1>3. SoloFits(f)'
  BY <1>1, <1>2, HostSolo
<1>4. ASSUME NEW g \in Fiber \ {f} PROVE SoloFits(g)'
  BY <1>1, SoloKept DEF SoloInv
<1>5. PoolInv'
  BY <1>1 DEF SoloInv, PoolInv
<1> QED
  BY <1>3, <1>4, <1>5 DEF SoloInv

\* User code inside a fiber, which is not pooled then.
LEMMA UserSolo ==
    ASSUME TypeOK, WorkInv, SoloInv, NEW w \in Worker, Worker = {w}, NEW f \in Fiber,
           \/ StartWait(w, f) \/ Test(w, f) \/ Reschedule(w, f) \/ Spawn(w, f)
           \/ (\E g \in Fiber : Notify(w, f, g)) \/ Post(w, f)
    PROVE  SoloInv'
<1>1. /\ Executes(w, f) /\ at[f] \in {"run", "test", "post"}
      /\ UNCHANGED <<m_state, m_cache, wpc>>
      /\ \A g \in Fiber \ {f} : at'[g] = at[g]
      /\ at'[f] \in {"run", "test", "yield", "post"}
      /\ \A g \in Fiber :
            /\ Meant(g)' => Meant(g) \/ g = f
            /\ \A v \in Worker : Hosts(v, g)' <=> Hosts(v, g)
            /\ \A v \in Worker : Executes(v, g)' <=> Executes(v, g)
            /\ Pooled(g)' <=> Pooled(g)
  BY UserFacts
<1>2. m_state[f] = "RUNNING" /\ ~Pooled(f) /\ wpc[w] = "inside"
  BY <1>1 DEF SoloInv, SoloFits, StateFits, Executes
<1>3. SoloFits(f)'
  <2>1. StateFits(f)'
    BY <1>1, <1>2 DEF StateFits
  <2> QED
    BY <1>1, <1>2, <2>1 DEF SoloFits
<1>4. ASSUME NEW g \in Fiber \ {f} PROVE SoloFits(g)'
  BY <1>1, SoloKept DEF SoloInv
<1>5. PoolInv'
  BY <1>1 DEF SoloInv, PoolInv
<1> QED
  BY <1>3, <1>4, <1>5 DEF SoloInv

LEMMA SwitchSolo ==
    ASSUME TypeOK, WorkInv, SoloInv, NEW w \in Worker, Worker = {w}, NEW f \in Fiber,
           Yield(w, f) \/ Switch(w, f) \/ Finish(w, f) \/ Leave(w, f)
    PROVE  SoloInv'
<1>1. /\ Executes(w, f) /\ f = task[w].fiber /\ wpc[w] = "inside"
      /\ UNCHANGED <<m_tasks, waiter, owes, m_mutex, m_cache, task, isCallback>>
      /\ \A g \in Fiber \ {f} : at'[g] = at[g] /\ m_state'[g] = m_state[g]
      /\ \/ wpc'[w] = "inside" /\ m_state'[f] = "READY" /\ at'[f] = "switch"
         \/ /\ wpc'[w] = "unlock" /\ at[f] = "switch" /\ at'[f] = "test"
            /\ m_state'[f] = m_state[f]
         \/ wpc'[w] = "inside" /\ m_state'[f] = "TERM" /\ at'[f] = "leave"
         \/ wpc'[w] = "unlock" /\ at'[f] = "ended" /\ m_state'[f] = "TERM"
  BY SwitchFacts
<1>2. ~Pooled(f) /\ (at[f] = "switch" => m_state[f] = "READY")
  BY <1>1 DEF SoloInv, SoloFits, StateFits
<1>3. \A g \in Fiber : /\ Meant(g)' => Meant(g)
                       /\ Hosts(w, g)' => Hosts(w, g)
                       /\ Pooled(g)' <=> Pooled(g)
  BY <1>1, HandsKept DEF Pooled
<1>4. /\ Executes(w, f)' <=> wpc'[w] = "inside"
      /\ \A g \in Fiber \ {f} : ~Executes(w, g)' /\ ~Executes(w, g)
  BY <1>1 DEF Executes
<1>5. SoloFits(f)'
  <2>1. StateFits(f)'
    BY <1>1, <1>2, <1>4 DEF StateFits
  <2>2. m_state'[f] # "NONE" /\ wpc'[w] \notin {"lock", "resume"} /\ ~Pooled(f)'
    BY <1>1, <1>2, <1>3
  <2> QED
    BY <2>1, <2>2 DEF SoloFits
<1>6. ASSUME NEW g \in Fiber \ {f} PROVE SoloFits(g)'
  <2>1. wpc'[w] \notin {"lock", "resume"} /\ m_state'[g] = m_state[g] /\ at'[g] = at[g]
    BY <1>1
  <2> QED
    BY <1>3, <1>4, <2>1, SoloKept DEF SoloInv
<1>7. PoolInv'
  BY <1>1 DEF SoloInv, PoolInv
<1> QED
  BY <1>5, <1>6, <1>7 DEF SoloInv

LEMMA NextSolo ==
    ASSUME NEW w \in Worker, Worker = {w}
    PROVE  TypeOK /\ WorkInv /\ SoloInv /\ [Next]_vars => SoloInv'
<1> SUFFICES ASSUME TypeOK, WorkInv, SoloInv, [Next]_vars PROVE SoloInv'
  OBVIOUS
<1>1. CASE WorkerStep(w)
  BY <1>1, PickQuiet, LoopQuiet, SoloQuiet, AcquireSolo, LockSolo, ResumeSolo, ReleaseSolo
     DEF WorkerStep
<1>2. CASE FiberStep(w)
  BY <1>2, UserSolo, SwitchSolo DEF FiberStep
<1>3. CASE \E f \in Fiber, thread \in Worker \cup {AnyThread} : SubmitFiber(f, thread)
  BY <1>3, SubmitSolo
<1>4. CASE \/ \E thread \in Worker \cup {AnyThread} : SubmitCallback(thread)
           \/ Stop \/ Join \/ Stopped \/ UNCHANGED vars
  BY <1>4, MainQuiet, SoloQuiet
<1> QED
  BY <1>1, <1>2, <1>3, <1>4 DEF Next

LEMMA InitSolo == Init => SoloInv
<1> SUFFICES ASSUME Init PROVE SoloInv
  OBVIOUS
<1>1. \A f \in Fiber : ~Meant(f) /\ ~Pooled(f) /\ \A w \in Worker : ~Hosts(w, f) /\ ~Executes(w, f)
  BY DEF Init, Meant, Queued, Handles, Pooled, Hosts, Executes
<1>2. ASSUME NEW f \in Fiber PROVE SoloFits(f)
  BY <1>1 DEF Init, SoloFits, StateFits
<1>3. PoolInv
  BY DEF Init, PoolInv, IsInjective
<1> QED
  BY <1>2, <1>3 DEF SoloInv

-----------------------------------------------------------------------------
\* With one worker, callbacks that wait or reschedule themselves do no harm: the worker
\* resumes only a READY fiber, nothing resets a fiber whose stack is in use, and what
\* CoroutinePool hands out has ended and is nobody's.  The double resume and the early
\* release that yielding callbacks lead to need a second thread in Scheduler::run.
THEOREM OneWorkerIsSafe ==
    ASSUME NEW w \in Worker, Worker = {w}
    PROVE  Spec => [](ResumesReadyOnly /\ YieldsRunningOrTerm /\ PooledIsFree)
<1>1. TypeOK /\ WorkInv /\ SoloInv => ResumesReadyOnly
  <2> SUFFICES ASSUME TypeOK, WorkInv, SoloInv, wpc[w] = "resume"
               PROVE  \/ m_state[task[w].fiber] = "READY"
                      \/ m_state[task[w].fiber] = "TERM" /\ ~isCallback[w]
    BY DEF ResumesReadyOnly
  <2>1. PICK f \in Fiber : f = task[w].fiber /\ (Handles(w, f) \/ Hosts(w, f))
    BY InHand
  <2>2. ~Executes(w, f)
    BY DEF Executes
  <2>3. CASE Hosts(w, f)
    BY <2>1, <2>3 DEF SoloInv, SoloFits
  <2>4. CASE Handles(w, f)
    <3>1. m_state[f] # "NONE"
      BY <2>4 DEF SoloInv, SoloFits, Meant
    <3>2. m_state[f] # "RUNNING"
      BY <2>2 DEF SoloInv, SoloFits, StateFits
    <3> QED
      BY <2>1, <2>4, <3>1, <3>2 DEF TypeOK, Handles
  <2> QED
    BY <2>1, <2>3, <2>4
<1>2. SoloInv => YieldsRunningOrTerm
  BY DEF YieldsRunningOrTerm, SoloInv, SoloFits, StateFits
<1>3. TypeOK /\ WorkInv /\ SoloInv => PooledIsFree
  <2> SUFFICES ASSUME TypeOK, WorkInv, SoloInv PROVE PooledIsFree
    OBVIOUS
  <2>1. ASSUME NEW i \in DOMAIN m_cache
        PROVE  /\ m_state[m_cache[i]] = "TERM"
               /\ task[w] # None /\ task[w].fiber = m_cache[i] =>
                      /\ wpc[w] # "inside"
                      /\ isCallback[w] => wpc[w] \in {"release", "decrement"}
    <3>1. PICK f \in Fiber : f = m_cache[i] /\ Pooled(f)
      BY DEF TypeOK, Pooled
    <3>2. m_state[f] = "TERM" /\ ~Hosts(w, f) /\ ~Executes(w, f)
      BY <3>1 DEF SoloInv, SoloFits
    <3> QED
      BY <3>1, <3>2 DEF Hosts, Executes
  <2> QED
    BY <2>1 DEF PooledIsFree, SoloInv, PoolInv
<1>4. TypeOK /\ WorkInv /\ SoloInv /\ [Next]_vars => SoloInv'
  BY NextSolo
<1> QED
  BY <1>1, <1>2, <1>3, <1>4, InitSolo, Work, PTL DEF Spec
=============================================================================
