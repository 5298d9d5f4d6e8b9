--------------------------- MODULE CoMutex_proofs ---------------------------
(***************************************************************************)
(* Proofs about CoMutex for any set of fibers and any bound MaxStale.      *)
(***************************************************************************)
EXTENDS CoMutex, TLAPS

\* The mutex is locked exactly when it has an owner, and nobody queues on a
\* mutex that is not locked.
OwnerInv ==
    /\ m_locked <=> m_ownerFiberId # NoOwner
    /\ m_waiters # <<>> => m_locked

\* A fiber past the wait loop owns the mutex, and so does one whose flag is set.
PossessionInv ==
    /\ \A f \in Fiber : pc[f] \in {"held", "recheck"} => m_ownerFiberId = f
    /\ \A f \in Fiber : pc[f] \in Waiting /\ notified[f] => m_ownerFiberId = f

\* A queued fiber waits, was not told anything, and is queued once.
QueueInv ==
    /\ \A i \in 1 .. Len(m_waiters) :
           /\ pc[m_waiters[i]] \in Waiting
           /\ ~notified[m_waiters[i]]
           /\ m_ownerFiberId # m_waiters[i]
    /\ \A i, j \in 1 .. Len(m_waiters) : m_waiters[i] = m_waiters[j] => i = j

\* A notifier has one waiter to notify; before the flag is set this is the
\* waiting owner, and there is one such notifier.
NotifierInv ==
    /\ \A g \in Fiber : pc[g] \in Notifying =>
           toWake[g] # <<>> /\ Len(toWake[g]) = 1 /\ Head(toWake[g]) \in Fiber
    /\ \A g \in Fiber : pc[g] = "notify" =>
           /\ m_ownerFiberId = Head(toWake[g])
           /\ pc[Head(toWake[g])] \in Waiting
           /\ ~notified[Head(toWake[g])]
    /\ \A g, h \in Fiber : pc[g] = "notify" /\ pc[h] = "notify" => g = h

IInv ==
    /\ TypeOK
    /\ OwnerInv
    /\ PossessionInv
    /\ QueueInv
    /\ NotifierInv
    /\ NoLostWakeup
    /\ OwnerIsComing

-----------------------------------------------------------------------------
LEMMA InitInv == Init => IInv
<1> SUFFICES ASSUME Init PROVE IInv
  OBVIOUS
<1> USE NoOwnerAssumption DEF Init, FiberWaiterInit
<1>1. TypeOK
  <2>1. pc \in [Fiber -> Labels] /\ notified \in [Fiber -> BOOLEAN]
    BY DEF Labels
  <2>2. toWake \in [Fiber -> Seq(Fiber)] /\ resumes \in [Fiber -> Nat]
    OBVIOUS
  <2>3. m_waiters \in Seq(Fiber)
    OBVIOUS
  <2> QED
    BY <2>1, <2>2, <2>3 DEF TypeOK
<1>2. OwnerInv /\ PossessionInv /\ QueueInv
  BY DEF OwnerInv, PossessionInv, QueueInv
<1>3. NotifierInv /\ NoLostWakeup /\ OwnerIsComing
  BY DEF NotifierInv, NoLostWakeup, OwnerIsComing, Waiting, Notifying
<1> QED
  BY <1>1, <1>2, <1>3 DEF IInv

LEMMA CallLockInv ==
    ASSUME IInv, NEW f \in Fiber, CallLock(f)
    PROVE  IInv'
<1> USE NoOwnerAssumption DEF IInv, CallLock, Goto, mutexVars
<1>1. TypeOK'
  BY DEF TypeOK, Labels
<1>2. OwnerInv'
  BY DEF OwnerInv
<1>3. PossessionInv'
  BY DEF PossessionInv, Waiting
<1>4. QueueInv'
  BY DEF QueueInv, Waiting
<1>5. NotifierInv'
  BY DEF NotifierInv, Waiting, Notifying
<1>6. NoLostWakeup'
  BY DEF NoLostWakeup, Waiting, IsQueued, Notifies, Schedules
<1>7. OwnerIsComing'
  BY DEF OwnerIsComing, Waiting, Notifies
<1> QED
  BY <1>1, <1>2, <1>3, <1>4, <1>5, <1>6, <1>7

LEMMA LockFreeInv ==
    ASSUME IInv, NEW f \in Fiber, LockFree(f)
    PROVE  IInv'
<1> USE NoOwnerAssumption DEF IInv, LockFree, Take, Goto
<1>1. TypeOK'
  BY DEF TypeOK, Labels
<1>2. OwnerInv'
  BY DEF OwnerInv
<1>3. PossessionInv'
  BY DEF PossessionInv, OwnerInv
<1>4. QueueInv'
  BY DEF QueueInv, OwnerInv
<1>5. NotifierInv'
  BY DEF NotifierInv, Notifying, OwnerInv
<1>6. NoLostWakeup'
  BY DEF NoLostWakeup, Waiting, IsQueued, Notifies, Schedules
<1>7. OwnerIsComing'
  BY DEF OwnerIsComing, TypeOK
<1> QED
  BY <1>1, <1>2, <1>3, <1>4, <1>5, <1>6, <1>7

LEMMA LockContendedInv ==
    ASSUME IInv, NEW f \in Fiber, LockContended(f)
    PROVE  IInv'
<1> USE NoOwnerAssumption DEF IInv
<1>0. /\ m_waiters \in Seq(Fiber)
      /\ Len(m_waiters') = Len(m_waiters) + 1
      /\ Len(m_waiters) \in Nat
      /\ \A i \in 1 .. Len(m_waiters) : m_waiters'[i] = m_waiters[i]
      /\ m_waiters'[Len(m_waiters) + 1] = f
  BY DEF TypeOK, LockContended
<1>00. /\ pc[f] = "lock" /\ m_locked
       /\ pc'[f] = "test" /\ notified'[f] = FALSE
       /\ \A g \in Fiber \ {f} : pc'[g] = pc[g] /\ notified'[g] = notified[g]
       /\ UNCHANGED <<resumes, toWake, m_locked, m_ownerFiberId>>
  BY DEF TypeOK, LockContended, Goto
<1>1. TypeOK'
  <2>1. m_waiters' \in Seq(Fiber)
    BY <1>0 DEF LockContended
  <2>2. pc' \in [Fiber -> Labels] /\ notified' \in [Fiber -> BOOLEAN]
    BY DEF TypeOK, LockContended, Goto, Labels, Waiting
  <2> QED
    BY <1>00, <2>1, <2>2 DEF TypeOK
<1>2. OwnerInv'
  BY <1>00 DEF OwnerInv
<1>3. PossessionInv'
  BY <1>00 DEF PossessionInv, Waiting
<1>4. QueueInv'
  <2>1. m_ownerFiberId # f /\ \A i \in 1 .. Len(m_waiters) : m_waiters[i] # f
    BY <1>00 DEF OwnerIsComing, QueueInv, Waiting
  <2>2. \A i \in 1 .. Len(m_waiters) : m_waiters[i] \in Fiber
    BY <1>0
  <2> QED
    BY <1>0, <1>00, <2>1, <2>2 DEF QueueInv, Waiting
<1>5. NotifierInv'
  BY <1>00 DEF NotifierInv, Waiting, Notifying
<1>6. NoLostWakeup'
  <2>1. \A g \in Fiber : IsQueued(g) \/ g = f => IsQueued(g)'
    BY <1>0 DEF IsQueued
  <2>2. \A g, h \in Fiber : /\ Notifies(h, g) => Notifies(h, g)'
                            /\ Schedules(h, g) => Schedules(h, g)'
    BY <1>00 DEF Notifies, Schedules
  <2> QED
    BY <1>00, <2>1, <2>2 DEF NoLostWakeup
<1>7. OwnerIsComing'
  BY <1>00 DEF OwnerIsComing, Waiting, Notifies
<1> QED
  BY <1>1, <1>2, <1>3, <1>4, <1>5, <1>6, <1>7

LEMMA LockRecheckInv ==
    ASSUME IInv, NEW f \in Fiber, LockRecheck(f)
    PROVE  IInv'
<1> USE NoOwnerAssumption DEF IInv, LockRecheck, Goto, mutexVars
<1>1. TypeOK'
  BY DEF TypeOK, Labels
<1>2. OwnerInv'
  BY DEF OwnerInv
<1>3. PossessionInv'
  BY DEF PossessionInv
<1>4. QueueInv'
  BY DEF QueueInv, PossessionInv
<1>5. NotifierInv'
  BY DEF NotifierInv, Waiting, Notifying
<1>6. NoLostWakeup'
  BY DEF NoLostWakeup, Waiting, IsQueued, Notifies, Schedules
<1>7. OwnerIsComing'
  BY DEF OwnerIsComing, PossessionInv
<1> QED
  BY <1>1, <1>2, <1>3, <1>4, <1>5, <1>6, <1>7

LEMMA TryLockInv ==
    ASSUME IInv, NEW f \in Fiber, TryLock(f)
    PROVE  IInv'
<1> USE NoOwnerAssumption DEF IInv, TryLock, Take, Goto
<1>1. TypeOK'
  BY DEF TypeOK, Labels
<1>2. OwnerInv'
  BY DEF OwnerInv
<1>3. PossessionInv'
  BY DEF PossessionInv, OwnerInv
<1>4. QueueInv'
  BY DEF QueueInv, OwnerInv
<1>5. NotifierInv'
  BY DEF NotifierInv, Notifying, OwnerInv
<1>6. NoLostWakeup'
  BY DEF NoLostWakeup, Waiting, IsQueued, Notifies, Schedules
<1>7. OwnerIsComing'
  BY DEF OwnerIsComing, TypeOK
<1> QED
  BY <1>1, <1>2, <1>3, <1>4, <1>5, <1>6, <1>7

LEMMA UnlockFreeInv ==
    ASSUME IInv, NEW f \in Fiber, UnlockFree(f)
    PROVE  IInv'
<1> USE NoOwnerAssumption DEF IInv, UnlockFree, Goto
<1>1. TypeOK'
  BY DEF TypeOK, Labels
<1>2. OwnerInv'
  BY DEF OwnerInv
<1>3. PossessionInv'
  BY DEF PossessionInv, TypeOK, Waiting
<1>4. QueueInv'
  BY DEF QueueInv
<1>5. NotifierInv'
  BY DEF NotifierInv, Waiting, Notifying, PossessionInv
<1>6. NoLostWakeup'
  BY DEF NoLostWakeup, Waiting, IsQueued, Notifies, Schedules
<1>7. OwnerIsComing'
  BY DEF OwnerIsComing
<1> QED
  BY <1>1, <1>2, <1>3, <1>4, <1>5, <1>6, <1>7

LEMMA UnlockHandOffInv ==
    ASSUME IInv, NEW f \in Fiber, UnlockHandOff(f)
    PROVE  IInv'
<1> USE NoOwnerAssumption DEF IInv
<1> DEFINE next == Head(m_waiters)
<1>0. /\ m_waiters \in Seq(Fiber)
      /\ m_waiters' \in Seq(Fiber)
      /\ Len(m_waiters') = Len(m_waiters) - 1
      /\ Len(m_waiters) \in Nat \ {0}
      /\ next = m_waiters[1]
      /\ next \in Fiber
      /\ \A i \in 1 .. Len(m_waiters) - 1 : m_waiters'[i] = m_waiters[i + 1]
      /\ \A i \in 2 .. Len(m_waiters) : m_waiters[i] = m_waiters'[i - 1]
  BY DEF TypeOK, UnlockHandOff
<1>00. /\ pc[f] = "held" /\ pc'[f] = "notify"
       /\ toWake'[f] = <<next>> /\ m_ownerFiberId' = next
       /\ \A g \in Fiber \ {f} : toWake'[g] = toWake[g] /\ pc'[g] = pc[g]
       /\ UNCHANGED <<notified, resumes, m_locked>>
  BY DEF TypeOK, UnlockHandOff, Goto
<1>000. /\ toWake'[f] # <<>> /\ Len(toWake'[f]) = 1 /\ Head(toWake'[f]) = next
        /\ pc[next] \in Waiting /\ ~notified[next] /\ next # f
        /\ m_ownerFiberId = f /\ m_locked
  BY <1>0, <1>00 DEF QueueInv, PossessionInv, OwnerInv, Waiting
<1> HIDE DEF next
<1>1. TypeOK'
  <2>1. toWake' \in [Fiber -> Seq(Fiber)] /\ m_ownerFiberId' \in Fiber
    BY <1>0 DEF TypeOK, UnlockHandOff, next
  <2>2. pc' \in [Fiber -> Labels]
    BY DEF TypeOK, UnlockHandOff, Goto, Labels, Notifying
  <2> QED
    BY <1>0, <1>00, <2>1, <2>2 DEF TypeOK
<1>2. OwnerInv'
  BY <1>0, <1>00, <1>000 DEF OwnerInv
<1>3. PossessionInv'
  BY <1>00, <1>000 DEF PossessionInv, Waiting
<1>4. QueueInv'
  <2>1. \A i \in 1 .. Len(m_waiters') :
            m_waiters'[i] = m_waiters[i + 1] /\ i + 1 \in 2 .. Len(m_waiters)
    BY <1>0
  <2>2. \A i \in 2 .. Len(m_waiters) :
            /\ m_waiters[i] \in Fiber \ {f} /\ m_waiters[i] # next
            /\ pc[m_waiters[i]] \in Waiting /\ ~notified[m_waiters[i]]
    BY <1>0, <1>000 DEF QueueInv
  <2>3. \A i, j \in 2 .. Len(m_waiters) : m_waiters[i] = m_waiters[j] => i = j
    BY <1>0 DEF QueueInv
  <2>4. \A i, j \in 1 .. Len(m_waiters') : m_waiters'[i] = m_waiters'[j] => i = j
    BY <1>0, <2>1, <2>3
  <2>5. ASSUME NEW i \in 1 .. Len(m_waiters')
        PROVE  /\ pc'[m_waiters'[i]] \in Waiting /\ ~notified'[m_waiters'[i]]
               /\ m_ownerFiberId' # m_waiters'[i]
    BY <1>00, <2>1, <2>2
  <2> QED
    BY <2>4, <2>5 DEF QueueInv, Waiting
<1>5. NotifierInv'
  <2>1. \A g \in Fiber : pc[g] # "notify"
    BY <1>00, <1>000 DEF NotifierInv, PossessionInv, Waiting
  <2>2. \A g \in Fiber : pc'[g] = "notify" => g = f
    BY <2>1, <1>00
  <2>3. m_ownerFiberId' = next /\ pc'[next] \in Waiting /\ ~notified'[next]
    BY <1>0, <1>00, <1>000
  <2>4. ASSUME NEW g \in Fiber, pc'[g] \in Notifying
        PROVE  toWake'[g] # <<>> /\ Len(toWake'[g]) = 1 /\ Head(toWake'[g]) \in Fiber
    <3>1. CASE g = f
      BY <1>0, <1>000, <3>1
    <3>2. CASE g # f
      BY <1>00, <2>4, <3>2 DEF NotifierInv
    <3> QED
      BY <3>1, <3>2
  <2> QED
    BY <2>2, <2>3, <2>4, <1>000 DEF NotifierInv
<1>6. NoLostWakeup'
  <2> SUFFICES ASSUME NEW g \in Fiber, pc'[g] \in Waiting
               PROVE  /\ \/ IsQueued(g)'
                         \/ notified'[g]
                         \/ \E h \in Fiber : Notifies(h, g)'
                      /\ notified'[g] /\ pc'[g] # "test" =>
                             resumes'[g] > 0 \/ \E h \in Fiber : Schedules(h, g)'
    BY DEF NoLostWakeup
  <2>1. g # f /\ pc[g] \in Waiting
    BY <1>00 DEF Waiting
  <2>2. IsQueued(g) => IsQueued(g)' \/ g = next
    BY <1>0 DEF IsQueued
  <2>3. g = next => Notifies(f, g)'
    BY <1>00, <1>000 DEF Notifies
  <2>4. \A h \in Fiber : /\ Notifies(h, g) => Notifies(h, g)'
                         /\ Schedules(h, g) => Schedules(h, g)'
    BY <1>00 DEF Notifies, Schedules
  <2> QED
    BY <2>1, <2>2, <2>3, <2>4, <1>00 DEF NoLostWakeup
<1>7. OwnerIsComing'
  BY <1>0, <1>00, <1>000 DEF OwnerIsComing, Notifies, Waiting
<1> QED
  BY <1>1, <1>2, <1>3, <1>4, <1>5, <1>6, <1>7

LEMMA TestNotifiedInv ==
    ASSUME IInv, NEW f \in Fiber, TestNotified(f, "recheck"), UNCHANGED mutexVars
    PROVE  IInv'
<1> USE NoOwnerAssumption DEF IInv, TestNotified, Goto, mutexVars
<1>1. TypeOK'
  BY DEF TypeOK, Labels, Waiting
<1>2. OwnerInv'
  BY DEF OwnerInv
<1>3. PossessionInv'
  BY DEF PossessionInv, Waiting
<1>4. QueueInv'
  BY DEF QueueInv, Waiting
<1>5. NotifierInv'
  BY DEF NotifierInv, Waiting, Notifying
<1>6. NoLostWakeup'
  BY DEF NoLostWakeup, Waiting, IsQueued, Notifies, Schedules
<1>7. OwnerIsComing'
  BY DEF OwnerIsComing, Waiting, Notifies
<1> QED
  BY <1>1, <1>2, <1>3, <1>4, <1>5, <1>6, <1>7

LEMMA YieldInv ==
    ASSUME IInv, NEW f \in Fiber, Yield(f), UNCHANGED mutexVars
    PROVE  IInv'
<1> USE NoOwnerAssumption DEF IInv, Yield, Goto, mutexVars
<1>1. TypeOK'
  BY DEF TypeOK, Labels, Waiting
<1>2. OwnerInv'
  BY DEF OwnerInv
<1>3. PossessionInv'
  BY DEF PossessionInv, Waiting
<1>4. QueueInv'
  BY DEF QueueInv, Waiting
<1>5. NotifierInv'
  BY DEF NotifierInv, Waiting, Notifying
<1>6. NoLostWakeup'
  <2>1. /\ pc[f] = "yield" /\ pc'[f] = "parked"
        /\ \A g \in Fiber \ {f} : pc'[g] = pc[g]
    BY DEF TypeOK
  <2>2. \A g, h \in Fiber : /\ IsQueued(g)' <=> IsQueued(g)
                            /\ Notifies(h, g) => Notifies(h, g)'
                            /\ Schedules(h, g) => Schedules(h, g)'
    BY <2>1 DEF IsQueued, Notifies, Schedules
  <2> QED
    BY <2>1, <2>2 DEF NoLostWakeup, Waiting
<1>7. OwnerIsComing'
  BY DEF OwnerIsComing, Waiting, Notifies
<1> QED
  BY <1>1, <1>2, <1>3, <1>4, <1>5, <1>6, <1>7

LEMMA StoreNotifiedInv ==
    ASSUME IInv, NEW f \in Fiber, StoreNotified(f), UNCHANGED mutexVars
    PROVE  IInv'
<1> USE NoOwnerAssumption DEF IInv, mutexVars
<1> DEFINE w == Head(toWake[f])
<1>0. /\ w \in Fiber \ {f} /\ w = m_ownerFiberId
      /\ pc[w] \in Waiting /\ ~notified[w]
      /\ \A g \in Fiber \ {f} : pc[g] # "notify"
  BY DEF StoreNotified, NotifierInv, Notifying, Waiting
<1>00. /\ pc[f] = "notify" /\ pc'[f] = "schedule"
       /\ notified'[w] = TRUE
       /\ \A g \in Fiber \ {f} : pc'[g] = pc[g]
       /\ \A g \in Fiber \ {w} : notified'[g] = notified[g]
       /\ UNCHANGED <<resumes, toWake>>
  BY <1>0 DEF TypeOK, StoreNotified, Goto
<1>1. TypeOK'
  BY <1>0 DEF TypeOK, StoreNotified, Goto, Labels, Notifying
<1> HIDE DEF w
<1>2. OwnerInv'
  BY DEF OwnerInv
<1>3. PossessionInv'
  BY <1>0, <1>00 DEF PossessionInv, Waiting
<1>4. QueueInv'
  <2>1. \A i \in 1 .. Len(m_waiters) : m_waiters[i] \in Fiber
    BY DEF TypeOK
  <2>2. \A i \in 1 .. Len(m_waiters) : m_waiters[i] \in Fiber \ {f, w}
    BY <1>0, <1>00, <2>1 DEF QueueInv, Waiting
  <2> QED
    BY <1>00, <2>2 DEF QueueInv
<1>5. NotifierInv'
  BY <1>0, <1>00 DEF NotifierInv, Notifying
<1>6. NoLostWakeup'
  <2>1. \A g \in Fiber : IsQueued(g)' <=> IsQueued(g)
    BY DEF IsQueued
  <2>2. \A g, h \in Fiber : /\ Notifies(h, g) => g = w
                            /\ Schedules(h, g) => Schedules(h, g)'
    BY <1>0, <1>00 DEF Notifies, Schedules, w
  <2>3. \A g \in Fiber : g = w => Schedules(f, g)'
    BY <1>00 DEF Schedules, w
  <2> QED
    <3>1. ASSUME NEW g \in Fiber \ {w}, pc'[g] \in Waiting
          PROVE  /\ IsQueued(g)' \/ notified'[g]
                 /\ notified'[g] /\ pc'[g] # "test" =>
                        resumes'[g] > 0 \/ \E h \in Fiber : Schedules(h, g)'
      <4>1. pc[g] = pc'[g] /\ notified[g] = notified'[g] /\ g \in Fiber
        BY <1>00, <3>1 DEF Waiting
      <4> QED
        BY <1>00, <3>1, <4>1, <2>1, <2>2 DEF NoLostWakeup
    <3> QED
      BY <1>00, <2>3, <3>1 DEF NoLostWakeup
<1>7. OwnerIsComing'
  BY <1>0, <1>00 DEF OwnerIsComing, Waiting
<1> QED
  BY <1>1, <1>2, <1>3, <1>4, <1>5, <1>6, <1>7

LEMMA ScheduleWaiterInv ==
    ASSUME IInv, NEW f \in Fiber, ScheduleWaiter(f, "run"), UNCHANGED mutexVars
    PROVE  IInv'
<1> USE NoOwnerAssumption DEF IInv, mutexVars
<1> DEFINE w == Head(toWake[f])
<1>0. /\ pc[f] = "schedule" /\ w \in Fiber
      /\ Len(toWake[f]) = 1 /\ toWake[f] # <<>>
  BY DEF ScheduleWaiter, NotifierInv, Notifying
<1>00. /\ pc'[f] = "run"
       /\ \A g \in Fiber \ {f} : pc'[g] = pc[g] /\ toWake'[g] = toWake[g]
       /\ resumes'[w] > 0
       /\ \A g \in Fiber : resumes[g] > 0 => resumes'[g] > 0
       /\ UNCHANGED notified
  BY <1>0 DEF TypeOK, ScheduleWaiter, Goto
<1>1. TypeOK'
  <2>1. resumes' \in [Fiber -> Nat] /\ toWake' \in [Fiber -> Seq(Fiber)]
    <3>1. /\ resumes \in [Fiber -> Nat] /\ toWake \in [Fiber -> Seq(Fiber)]
          /\ resumes' = [resumes EXCEPT ![w] = @ + 1]
          /\ toWake' = [toWake EXCEPT ![f] = Tail(@)]
      BY DEF TypeOK, ScheduleWaiter
    <3>2. Tail(toWake[f]) \in Seq(Fiber)
      BY <1>0, <3>1
    <3> HIDE DEF w, IInv, mutexVars
    <3> QED
      BY <1>0, <3>1, <3>2
  <2>2. pc' \in [Fiber -> Labels]
    BY <1>0 DEF TypeOK, ScheduleWaiter, Goto, Labels
  <2> QED
    BY <1>00, <2>1, <2>2 DEF TypeOK
<1> HIDE DEF w
<1>2. OwnerInv'
  BY DEF OwnerInv
<1>3. PossessionInv'
  BY <1>00 DEF PossessionInv, Waiting
<1>4. QueueInv'
  <2>1. \A i \in 1 .. Len(m_waiters) : m_waiters[i] \in Fiber
    BY DEF TypeOK
  <2>2. \A i \in 1 .. Len(m_waiters) : m_waiters[i] \in Fiber \ {f}
    BY <1>0, <2>1 DEF QueueInv, Waiting
  <2> QED
    BY <1>00, <2>2 DEF QueueInv
<1>5. NotifierInv'
  <2>1. \A g \in Fiber : pc'[g] \in Notifying => g # f
    BY <1>00 DEF Notifying
  <2>2. \A g \in Fiber : pc[g] \in Waiting => g # f
    BY <1>0 DEF Waiting
  <2> QED
    BY <1>00, <2>1, <2>2 DEF NotifierInv, Notifying
<1>6. NoLostWakeup'
  <2>1. \A g \in Fiber : IsQueued(g)' <=> IsQueued(g)
    BY DEF IsQueued
  <2>2. \A g, h \in Fiber : /\ Notifies(h, g) => Notifies(h, g)'
                            /\ Schedules(h, g) => Schedules(h, g)' \/ g = w
    BY <1>0, <1>00 DEF Notifies, Schedules, w
  <2> QED
    BY <1>00, <2>1, <2>2 DEF NoLostWakeup, Waiting
<1>7. OwnerIsComing'
  BY <1>0, <1>00 DEF OwnerIsComing, Waiting, Notifies
<1> QED
  BY <1>1, <1>2, <1>3, <1>4, <1>5, <1>6, <1>7

LEMMA ResumeInv ==
    ASSUME IInv, NEW f \in Fiber, Resume(f), UNCHANGED mutexVars
    PROVE  IInv'
<1> USE NoOwnerAssumption DEF IInv, Resume, Goto, mutexVars
<1>1. TypeOK'
  BY DEF TypeOK, Labels, Waiting
<1>2. OwnerInv'
  BY DEF OwnerInv
<1>3. PossessionInv'
  BY DEF PossessionInv, Waiting
<1>4. QueueInv'
  BY DEF QueueInv, Waiting
<1>5. NotifierInv'
  BY DEF NotifierInv, Waiting, Notifying
<1>6. NoLostWakeup'
  BY DEF NoLostWakeup, TypeOK, Waiting, IsQueued, Notifies, Schedules
<1>7. OwnerIsComing'
  BY DEF OwnerIsComing, Waiting, Notifies
<1> QED
  BY <1>1, <1>2, <1>3, <1>4, <1>5, <1>6, <1>7

LEMMA DropTaskInv ==
    ASSUME IInv, NEW f \in Fiber, DropTask(f), UNCHANGED mutexVars
    PROVE  IInv'
<1> USE NoOwnerAssumption DEF IInv, DropTask, mutexVars
<1>1. TypeOK'
  BY DEF TypeOK
<1>2. OwnerInv'
  BY DEF OwnerInv
<1>3. PossessionInv'
  BY DEF PossessionInv
<1>4. QueueInv'
  BY DEF QueueInv
<1>5. NotifierInv'
  BY DEF NotifierInv
<1>6. NoLostWakeup'
  BY DEF NoLostWakeup, Waiting, IsQueued, Notifies, Schedules
<1>7. OwnerIsComing'
  BY DEF OwnerIsComing, Notifies
<1> QED
  BY <1>1, <1>2, <1>3, <1>4, <1>5, <1>6, <1>7

LEMMA RequeueInv ==
    ASSUME IInv, NEW f \in Fiber, Requeue(f), UNCHANGED mutexVars
    PROVE  IInv'
<1> USE NoOwnerAssumption DEF IInv, Requeue, mutexVars
<1>1. TypeOK'
  BY DEF TypeOK
<1>2. OwnerInv'
  BY DEF OwnerInv
<1>3. PossessionInv'
  BY DEF PossessionInv
<1>4. QueueInv'
  BY DEF QueueInv
<1>5. NotifierInv'
  BY DEF NotifierInv
<1>6. NoLostWakeup'
  <2>1. \A g \in Fiber : resumes[g] > 0 => resumes'[g] > 0
    BY DEF TypeOK
  <2>2. \A g, h \in Fiber : /\ IsQueued(g)' <=> IsQueued(g)
                            /\ Notifies(h, g)' <=> Notifies(h, g)
                            /\ Schedules(h, g)' <=> Schedules(h, g)
    BY DEF IsQueued, Notifies, Schedules
  <2> QED
    BY <2>1, <2>2 DEF NoLostWakeup
<1>7. OwnerIsComing'
  BY DEF OwnerIsComing, Notifies
<1> QED
  BY <1>1, <1>2, <1>3, <1>4, <1>5, <1>6, <1>7

LEMMA FinishInv ==
    ASSUME IInv, NEW f \in Fiber, Finish(f), UNCHANGED mutexVars
    PROVE  IInv'
<1> USE NoOwnerAssumption DEF IInv, Finish, Goto, mutexVars
<1>1. TypeOK'
  BY DEF TypeOK, Labels
<1>2. OwnerInv'
  BY DEF OwnerInv
<1>3. PossessionInv'
  BY DEF PossessionInv, Waiting
<1>4. QueueInv'
  BY DEF QueueInv, Waiting
<1>5. NotifierInv'
  BY DEF NotifierInv, Waiting, Notifying
<1>6. NoLostWakeup'
  BY DEF NoLostWakeup, Waiting, IsQueued, Notifies, Schedules
<1>7. OwnerIsComing'
  BY DEF OwnerIsComing, Waiting, Notifies
<1> QED
  BY <1>1, <1>2, <1>3, <1>4, <1>5, <1>6, <1>7

-----------------------------------------------------------------------------
\* One step of the specification preserves the invariant.
LEMMA NextInv == IInv /\ [Next]_vars => IInv'
<1> SUFFICES ASSUME IInv, [Next]_vars PROVE IInv'
  OBVIOUS
<1>1. ASSUME NEW f \in Fiber, Step(f) PROVE IInv'
  <2>1. CASE CallLock(f)
    BY <2>1, CallLockInv
  <2>2. CASE LockFree(f)
    BY <2>2, LockFreeInv
  <2>3. CASE LockContended(f)
    BY <2>3, LockContendedInv
  <2>4. CASE LockRecheck(f)
    BY <2>4, LockRecheckInv
  <2>5. CASE TryLock(f)
    BY <2>5, TryLockInv
  <2>6. CASE UnlockFree(f)
    BY <2>6, UnlockFreeInv
  <2>7. CASE UnlockHandOff(f)
    BY <2>7, UnlockHandOffInv
  <2>8. CASE WaitStep(f)
    BY <2>8, TestNotifiedInv, YieldInv, StoreNotifiedInv, ScheduleWaiterInv,
       ResumeInv, DropTaskInv, RequeueInv, FinishInv DEF WaitStep
  <2> QED
    BY <1>1, <2>1, <2>2, <2>3, <2>4, <2>5, <2>6, <2>7, <2>8 DEF Step
<1>2. CASE UNCHANGED vars
  BY <1>2 DEF IInv, TypeOK, OwnerInv, PossessionInv, QueueInv, NotifierInv,
     NoLostWakeup, OwnerIsComing, IsQueued, Notifies, Schedules, vars, waiterVars,
     mutexVars
<1> QED
  BY <1>1, <1>2 DEF Next, Terminated

LEMMA InvHolds == Spec => []IInv
BY InitInv, NextInv, PTL DEF Spec

\* Every variable of the mutex and of the wait machinery keeps its type; no
\* task is consumed that was not posted.
THEOREM TypeCorrect == Spec => []TypeOK
<1>1. IInv => TypeOK
  BY DEF IInv
<1> QED
  BY <1>1, InvHolds, PTL

\* Two fibers are never both inside: the one inside is the owner, and unlock()
\* changes the owner in the same locked block that takes it out.
THEOREM MutexSafe == Spec => []MutualExclusion
<1>1. IInv => MutualExclusion
  BY DEF IInv, MutualExclusion, PossessionInv
<1> QED
  BY <1>1, InvHolds, PTL

\* The re-check of lock() always succeeds: only the fiber the mutex was handed
\* to is ever told.
THEOREM RecheckSucceeds == Spec => []NotifiedIsOwner
<1>1. IInv => NotifiedIsOwner
  BY DEF IInv, NotifiedIsOwner, PossessionInv
<1> QED
  BY <1>1, InvHolds, PTL

\* A waiting fiber is queued, or about to be told, or told and, once it can no
\* longer see the flag by itself, has a task on the way.
THEOREM WakeupsAreKept == Spec => []NoLostWakeup
<1>1. IInv => NoLostWakeup
  BY DEF IInv
<1> QED
  BY <1>1, InvHolds, PTL

\* A locked mutex has an owner that is inside or on its way.
THEOREM MutexNotLeaked == Spec => []OwnerIsComing
<1>1. IInv => OwnerIsComing
  BY DEF IInv
<1> QED
  BY <1>1, InvHolds, PTL

-----------------------------------------------------------------------------
(* CoMutex implements FairLock.                                            *)

\* The phase a fiber shows to the abstract lock.
Phase == [f \in Fiber |->
    IF pc[f] = "held" THEN "inside"
    ELSE IF pc[f] \in Waiting \cup {"recheck"} THEN "waiting" ELSE "outside"]

\* Whatever leaves a fiber in the same phase leaves the phases alone.
LEMMA PhaseKept ==
    ASSUME TypeOK, NEW f \in Fiber, NEW label \in Labels, Goto(f, label),
           \/ /\ pc[f] \notin Waiting \cup {"recheck", "held"}
              /\ label \notin Waiting \cup {"recheck", "held"}
           \/ pc[f] \in Waiting \cup {"recheck"} /\ label \in Waiting \cup {"recheck"}
    PROVE  Phase' = Phase
BY DEF Goto, Phase, Waiting

\* What a step that moves one fiber does to the phases.
LEMMA PhaseMoved ==
    ASSUME TypeOK, NEW f \in Fiber, NEW label \in Labels, Goto(f, label)
    PROVE  Phase' = [Phase EXCEPT ![f] =
               IF label = "held" THEN "inside"
               ELSE IF label \in Waiting \cup {"recheck"} THEN "waiting" ELSE "outside"]
BY DEF TypeOK, Goto, Phase

LEMMA StepRefines ==
    ASSUME IInv, NEW f \in Fiber, Step(f)
    PROVE  Lock!Next \/ UNCHANGED Lock!lockVars
<1> USE DEF IInv
<1>0. /\ TypeOK
      /\ Labels = {"run", "lock", "recheck", "held", "done", "test", "yield",
                   "parked", "notify", "schedule"}
  BY DEF Labels, Waiting, Notifying
<1>1. CASE CallLock(f)
  <2>1. Phase' = Phase
    BY <1>0, <1>1, PhaseKept DEF CallLock, Waiting
  <2> QED
    BY <1>1, <2>1 DEF CallLock, mutexVars, Lock!lockVars, Phase
<1>2. CASE LockFree(f) \/ TryLock(f)
  <2>1. Phase[f] = "outside" /\ Phase' = [Phase EXCEPT ![f] = "inside"]
    BY <1>0, <1>2, PhaseMoved DEF LockFree, TryLock, Take, Phase, Waiting
  <2>2. Lock!Acquire(f)
    BY <1>2, <2>1 DEF LockFree, TryLock, Take, OwnerInv, Lock!Acquire, Phase
  <2> QED
    BY <2>2 DEF Lock!Next
<1>3. CASE LockContended(f)
  <2>1. Phase[f] = "outside" /\ Phase' = [Phase EXCEPT ![f] = "waiting"]
    BY <1>0, <1>3, PhaseMoved DEF LockContended, Phase, Waiting
  <2>2. Lock!Enqueue(f)
    BY <1>3, <2>1 DEF LockContended, OwnerInv, Lock!Enqueue, Phase
  <2> QED
    BY <2>2 DEF Lock!Next
<1>4. CASE LockRecheck(f)
  <2>1. /\ m_ownerFiberId = f
        /\ Phase[f] = "waiting" /\ Phase' = [Phase EXCEPT ![f] = "inside"]
    BY <1>0, <1>4, PhaseMoved DEF LockRecheck, PossessionInv, Phase
  <2>2. Lock!Enter(f)
    BY <1>4, <2>1 DEF LockRecheck, mutexVars, Lock!Enter, Phase
  <2> QED
    BY <2>2 DEF Lock!Next
<1>5. CASE UnlockFree(f) \/ UnlockHandOff(f)
  <2>1. Phase[f] = "inside" /\ Phase' = [Phase EXCEPT ![f] = "outside"]
    BY <1>0, <1>5, PhaseMoved DEF UnlockFree, UnlockHandOff, Phase, Waiting
  <2>2. Lock!Release(f)
    BY <1>5, <2>1 DEF UnlockFree, UnlockHandOff, Lock!Release, Phase
  <2> QED
    BY <2>2 DEF Lock!Next
<1>6. CASE WaitStep(f)
  <2>1. Phase' = Phase
    <3>1. CASE TestNotified(f, "recheck")
      BY <1>0, <3>1, PhaseKept DEF TestNotified, Waiting
    <3>2. CASE Yield(f) \/ Resume(f)
      BY <1>0, <3>2, PhaseKept DEF Yield, Resume, Waiting
    <3>3. CASE StoreNotified(f) \/ ScheduleWaiter(f, "run") \/ Finish(f)
      BY <1>0, <3>3, PhaseKept DEF StoreNotified, ScheduleWaiter, Finish, Waiting
    <3>4. CASE DropTask(f) \/ Requeue(f)
      BY <3>4 DEF DropTask, Requeue, Phase
    <3> QED
      BY <1>6, <3>1, <3>2, <3>3, <3>4 DEF WaitStep
  <2> QED
    BY <1>6, <2>1 DEF WaitStep, mutexVars, Lock!lockVars, Phase
<1> QED
  BY <1>1, <1>2, <1>3, <1>4, <1>5, <1>6 DEF Step

\* Every behaviour of CoMutex is one of the fair lock: mutual exclusion, and
\* the mutex granted in the order the fibers queued, with no overtaking.
THEOREM FairLockRefined == Spec => ImplementsFairLock
<1>1. Init => Lock!Init
  BY DEF Init, FiberWaiterInit, Lock!Init, Waiting
<1>2. IInv /\ [Next]_vars => [Lock!Next]_(Lock!lockVars)
  <2> SUFFICES ASSUME IInv, [Next]_vars PROVE Lock!Next \/ UNCHANGED Lock!lockVars
    OBVIOUS
  <2>1. CASE UNCHANGED vars
    BY <2>1 DEF vars, waiterVars, mutexVars, Lock!lockVars
  <2> QED
    BY <2>1, StepRefines DEF Next, Terminated
<1> QED
  BY <1>1, <1>2, InvHolds, PTL DEF Spec, ImplementsFairLock, Lock!Spec
=============================================================================
