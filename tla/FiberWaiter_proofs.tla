------------------------- MODULE FiberWaiter_proofs -------------------------
(***************************************************************************)
(* What the proofs about the primitives share: facts about the queues of   *)
(* waiters, and what each step of FiberWaiter does to the lists of waiters *)
(* that notifiers still hold.                                              *)
(***************************************************************************)
EXTENDS TLAPS, FiberWaiter, SequencesExt

LEMMA EmptyQueue ==
    /\ ToSet(<<>>) = {} /\ IsInjective(<<>>)
    /\ \A e : ToSet(<<e>>) = {e} /\ IsInjective(<<e>>)
BY DEF ToSet, IsInjective

\* A waiter pushed at the back.
LEMMA PushBack ==
    ASSUME NEW S, NEW q \in Seq(S), NEW e \in S
    PROVE  /\ Append(q, e) \in Seq(S) /\ Append(q, e) # <<>>
           /\ ToSet(Append(q, e)) = ToSet(q) \cup {e}
           /\ IsInjective(q) /\ e \notin ToSet(q) => IsInjective(Append(q, e))
<1>1. /\ Len(q) \in Nat /\ Append(q, e) \in Seq(S) /\ Len(Append(q, e)) = Len(q) + 1
      /\ \A i \in 1 .. Len(q) : Append(q, e)[i] = q[i]
      /\ Append(q, e)[Len(q) + 1] = e
      /\ DOMAIN q = 1 .. Len(q) /\ DOMAIN Append(q, e) = 1 .. Len(q) + 1
  OBVIOUS
<1>2. ToSet(Append(q, e)) = ToSet(q) \cup {e}
  <2>1. \A i \in 1 .. Len(q) + 1 : i \in 1 .. Len(q) \/ i = Len(q) + 1
    BY <1>1
  <2>2. Len(q) + 1 \in 1 .. Len(q) + 1 /\ 1 .. Len(q) \subseteq 1 .. Len(q) + 1
    BY <1>1
  <2> QED
    BY <1>1, <2>1, <2>2 DEF ToSet
<1>3. IsInjective(q) /\ e \notin ToSet(q) => IsInjective(Append(q, e))
  BY <1>1 DEF IsInjective, ToSet
<1> QED
  BY <1>1, <1>2, <1>3

\* A waiter popped from the front.
LEMMA PopFront ==
    ASSUME NEW S, NEW q \in Seq(S), q # <<>>
    PROVE  /\ Head(q) \in S /\ Tail(q) \in Seq(S)
           /\ Len(q) = 1 <=> Tail(q) = <<>>
           /\ ToSet(q) = {Head(q)} \cup ToSet(Tail(q))
           /\ IsInjective(q) => /\ IsInjective(Tail(q))
                                /\ ToSet(Tail(q)) = ToSet(q) \ {Head(q)}
<1>1. /\ Len(q) \in Nat \ {0} /\ Head(q) = q[1] /\ Tail(q) \in Seq(S)
      /\ Len(Tail(q)) = Len(q) - 1
      /\ \A i \in 1 .. Len(q) - 1 : Tail(q)[i] = q[i + 1]
      /\ DOMAIN q = 1 .. Len(q) /\ DOMAIN Tail(q) = 1 .. Len(q) - 1
  OBVIOUS
<1>2. \A i \in 1 .. Len(q) : i = 1 \/ (i - 1 \in 1 .. Len(q) - 1 /\ q[i] = Tail(q)[i - 1])
  BY <1>1
<1>3. \A i \in 1 .. Len(q) - 1 : i + 1 \in 1 .. Len(q) /\ i + 1 # 1 /\ Tail(q)[i] = q[i + 1]
  BY <1>1
<1>4. ToSet(q) = {Head(q)} \cup ToSet(Tail(q))
  <2>1. ASSUME NEW e \in ToSet(q) PROVE e = Head(q) \/ e \in ToSet(Tail(q))
    <3>1. PICK i \in 1 .. Len(q) : e = q[i]
      BY <1>1, <2>1 DEF ToSet
    <3> QED
      BY <1>1, <1>2, <3>1 DEF ToSet
  <2>2. ASSUME NEW e \in ToSet(Tail(q)) PROVE e \in ToSet(q)
    <3>1. PICK i \in 1 .. Len(q) - 1 : e = Tail(q)[i]
      BY <1>1, <2>2 DEF ToSet
    <3> QED
      BY <1>1, <1>3, <3>1 DEF ToSet
  <2>3. Head(q) \in ToSet(q)
    BY <1>1 DEF ToSet
  <2> QED
    BY <2>1, <2>2, <2>3
<1>5. IsInjective(q) => IsInjective(Tail(q))
  BY <1>1, <1>3 DEF IsInjective
<1>6. IsInjective(q) => Head(q) \notin ToSet(Tail(q))
  <2>1. 1 \in 1 .. Len(q)
    BY <1>1
  <2> QED
    BY <1>1, <1>3, <2>1 DEF IsInjective, ToSet
<1>7. Len(q) = 1 <=> Tail(q) = <<>>
  <2>1. \A t \in Seq(S) : t = <<>> <=> Len(t) = 0
    OBVIOUS
  <2>2. Tail(q) = <<>> <=> Len(Tail(q)) = 0
    BY <1>1, <2>1, Zenon
  <2>3. Len(q) = 1 <=> Len(Tail(q)) = 0
    <3> DEFINE n == Len(q)
               m == Len(Tail(q))
    <3>1. n \in Nat \ {0} /\ m = n - 1
      BY <1>1
    <3> HIDE DEF n, m
    <3>2. n = 1 <=> m = 0
      BY <3>1
    <3> QED
      BY <3>2 DEF n, m
  <2> QED
    BY <2>2, <2>3, Zenon
<1> QED
  BY <1>1, <1>4, <1>5, <1>6, <1>7

\* Two queues emptied into one list.
LEMMA JoinQueues ==
    ASSUME NEW S, NEW q \in Seq(S), NEW r \in Seq(S)
    PROVE  /\ q \o r \in Seq(S)
           /\ ToSet(q \o r) = ToSet(q) \cup ToSet(r)
           /\ IsInjective(q) /\ IsInjective(r) /\ ToSet(q) \cap ToSet(r) = {}
                  => IsInjective(q \o r)
<1>1. /\ Len(q) \in Nat /\ Len(r) \in Nat /\ q \o r \in Seq(S)
      /\ Len(q \o r) = Len(q) + Len(r)
      /\ \A i \in 1 .. Len(q) : (q \o r)[i] = q[i]
      /\ \A i \in 1 .. Len(q) + Len(r) : i > Len(q) => (q \o r)[i] = r[i - Len(q)]
      /\ DOMAIN q = 1 .. Len(q) /\ DOMAIN r = 1 .. Len(r)
      /\ DOMAIN (q \o r) = 1 .. Len(q) + Len(r)
  OBVIOUS
<1>2. \A i \in 1 .. Len(q) + Len(r) :
          \/ i \in 1 .. Len(q) /\ (q \o r)[i] = q[i]
          \/ i - Len(q) \in 1 .. Len(r) /\ (q \o r)[i] = r[i - Len(q)]
  BY <1>1
<1>3. \A i \in 1 .. Len(r) :
          Len(q) + i \in 1 .. Len(q) + Len(r) /\ (q \o r)[Len(q) + i] = r[i]
  BY <1>1
<1>4. ToSet(q \o r) = ToSet(q) \cup ToSet(r)
  <2>1. ASSUME NEW e \in ToSet(q \o r) PROVE e \in ToSet(q) \/ e \in ToSet(r)
    <3>1. PICK i \in 1 .. Len(q) + Len(r) : e = (q \o r)[i]
      BY <1>1, <2>1 DEF ToSet
    <3> QED
      BY <1>1, <1>2, <3>1 DEF ToSet
  <2>2. ASSUME NEW e \in ToSet(q) PROVE e \in ToSet(q \o r)
    <3>1. PICK i \in 1 .. Len(q) : e = q[i]
      BY <1>1, <2>2 DEF ToSet
    <3> QED
      BY <1>1, <3>1 DEF ToSet
  <2>3. ASSUME NEW e \in ToSet(r) PROVE e \in ToSet(q \o r)
    <3>1. PICK i \in 1 .. Len(r) : e = r[i]
      BY <1>1, <2>3 DEF ToSet
    <3> QED
      BY <1>1, <1>3, <3>1 DEF ToSet
  <2> QED
    BY <2>1, <2>2, <2>3
<1>5. ASSUME IsInjective(q), IsInjective(r), ToSet(q) \cap ToSet(r) = {}
      PROVE  IsInjective(q \o r)
  <2> SUFFICES ASSUME NEW i \in 1 .. Len(q) + Len(r), NEW j \in 1 .. Len(q) + Len(r),
                      (q \o r)[i] = (q \o r)[j]
               PROVE  i = j
    BY <1>1 DEF IsInjective
  <2>1. \A k \in 1 .. Len(q), l \in 1 .. Len(r) : q[k] # r[l]
    BY <1>1, <1>5 DEF ToSet
  <2>2. CASE i \in 1 .. Len(q) /\ j \in 1 .. Len(q)
    BY <1>1, <1>5, <2>2 DEF IsInjective
  <2>3. CASE i \notin 1 .. Len(q) /\ j \notin 1 .. Len(q)
    <3>1. i - Len(q) = j - Len(q)
      BY <1>1, <1>2, <1>5, <2>3 DEF IsInjective
    <3> QED
      BY <1>1, <3>1
  <2> QED
    BY <1>2, <2>1, <2>2, <2>3
<1> QED
  BY <1>1, <1>4, <1>5

-----------------------------------------------------------------------------
\* The part of a primitive's type invariant that is about the waiters.
WaiterTypeOK ==
    /\ notified \in [Fiber -> BOOLEAN]
    /\ resumes \in [Fiber -> Nat]
    /\ toWake \in [Fiber -> Seq(Fiber)]

\* A fiber that moves outside its notifications leaves the lists alone.
LEMMA MoveFacts ==
    ASSUME NEW f \in Fiber, pc[f] \notin Notifying, pc'[f] \notin Notifying,
           \A g \in Fiber \ {f} : pc'[g] = pc[g] /\ toWake'[g] = toWake[g]
    PROVE  \A g \in Fiber : ToNotify(g)' = ToNotify(g) /\ ToSchedule(g)' = ToSchedule(g)
BY DEF ToNotify, ToSchedule, Notifying

\* A fiber that leaves a locked block with a list of waiters.
LEMMA PopFacts ==
    ASSUME NEW f \in Fiber, pc[f] \notin Notifying,
           pc'[f] = "notify" \/ (pc'[f] \notin Notifying /\ toWake'[f] = <<>>),
           \A g \in Fiber \ {f} : pc'[g] = pc[g] /\ toWake'[g] = toWake[g]
    PROVE  /\ ToNotify(f) = {} /\ ToNotify(f)' = ToSet(toWake'[f])
           /\ ToSchedule(f) = {} /\ ToSchedule(f)' = {}
           /\ \A g \in Fiber \ {f} :
                 ToNotify(g)' = ToNotify(g) /\ ToSchedule(g)' = ToSchedule(g)
BY EmptyQueue DEF ToNotify, ToSchedule, Notifying

\* The flag is set: the first of the list now waits for its task.
LEMMA StoreFacts ==
    ASSUME WaiterTypeOK, NEW f \in Fiber, StoreNotified(f), NEW L, pc \in [Fiber -> L],
           toWake[f] # <<>>, IsInjective(toWake[f])
    PROVE  \E w \in Fiber :
           /\ w \in ToNotify(f) /\ ToNotify(f)' = ToNotify(f) \ {w}
           /\ ToSchedule(f) = {} /\ ToSchedule(f)' = {w}
           /\ \A g \in Fiber \ {f} :
                 ToNotify(g)' = ToNotify(g) /\ ToSchedule(g)' = ToSchedule(g)
           /\ notified' = [notified EXCEPT ![w] = TRUE]
           /\ pc[f] = "notify" /\ pc'[f] = "schedule"
           /\ \A g \in Fiber \ {f} : pc'[g] = pc[g]
           /\ UNCHANGED <<resumes, toWake>>
<1> DEFINE w == Head(toWake[f])
<1>1. toWake[f] \in Seq(Fiber)
  BY DEF WaiterTypeOK
<1>2. /\ w \in Fiber /\ ToSet(toWake[f]) = {w} \cup ToSet(Tail(toWake[f]))
      /\ ToSet(Tail(toWake[f])) = ToSet(toWake[f]) \ {w}
  BY <1>1, PopFront
<1>3. /\ pc[f] = "notify" /\ pc'[f] = "schedule"
      /\ \A g \in Fiber \ {f} : pc'[g] = pc[g]
      /\ UNCHANGED <<resumes, toWake>>
      /\ notified' = [notified EXCEPT ![w] = TRUE]
  BY DEF StoreNotified, Goto
<1>4. ToNotify(f) = ToSet(toWake[f]) /\ ToSchedule(f) = {}
  BY <1>3 DEF ToNotify, ToSchedule
<1>5. ToNotify(f)' = ToSet(Tail(toWake[f])) /\ ToSchedule(f)' = {w}
  BY <1>3 DEF ToNotify, ToSchedule
<1>6. \A g \in Fiber \ {f} : ToNotify(g)' = ToNotify(g) /\ ToSchedule(g)' = ToSchedule(g)
  BY <1>3 DEF ToNotify, ToSchedule
<1> HIDE DEF w
<1> QED
  BY <1>2, <1>3, <1>4, <1>5, <1>6

\* The task is posted: the first of the list is done with.
LEMMA ScheduleFacts ==
    ASSUME WaiterTypeOK, NEW f \in Fiber, NEW L, NEW next \in L \ Notifying,
           ScheduleWaiter(f, next), pc \in [Fiber -> L], toWake[f] # <<>>
    PROVE  /\ \A g \in Fiber : ToNotify(g)' = ToNotify(g)
           /\ ToSchedule(f)' = {}
           /\ \A g \in Fiber \ {f} : ToSchedule(g)' = ToSchedule(g)
           /\ \A g \in ToSchedule(f) : g \in Fiber /\ resumes'[g] > 0
           /\ resumes' \in [Fiber -> Nat]
           /\ \A g \in Fiber : resumes[g] > 0 => resumes'[g] > 0
           /\ toWake' = [toWake EXCEPT ![f] = Tail(@)]
           /\ pc[f] = "schedule"
           /\ \/ pc'[f] = next /\ toWake'[f] = <<>>
              \/ pc'[f] = "notify" /\ toWake'[f] # <<>>
           /\ \A g \in Fiber \ {f} : pc'[g] = pc[g]
           /\ UNCHANGED notified
<1> DEFINE w == Head(toWake[f])
<1>1. toWake[f] \in Seq(Fiber) /\ Len(toWake[f]) \in Nat \ {0}
  BY DEF WaiterTypeOK
<1>2. w \in Fiber /\ Tail(toWake[f]) \in Seq(Fiber) /\ (Len(toWake[f]) = 1 <=> Tail(toWake[f]) = <<>>)
  BY <1>1, PopFront
<1>3. /\ pc[f] = "schedule" /\ UNCHANGED notified
      /\ \A g \in Fiber \ {f} : pc'[g] = pc[g]
      /\ pc'[f] = IF Len(toWake[f]) = 1 THEN next ELSE "notify"
      /\ toWake' = [toWake EXCEPT ![f] = Tail(@)]
      /\ toWake'[f] = Tail(toWake[f]) /\ \A g \in Fiber \ {f} : toWake'[g] = toWake[g]
      /\ resumes' = [resumes EXCEPT ![w] = @ + 1]
  BY DEF ScheduleWaiter, Goto, WaiterTypeOK
<1>4. /\ resumes' \in [Fiber -> Nat] /\ resumes'[w] > 0
      /\ \A g \in Fiber : resumes[g] > 0 => resumes'[g] > 0
  <2>1. w \in Fiber /\ resumes \in [Fiber -> Nat] /\ resumes' = [resumes EXCEPT ![w] = @ + 1]
    BY <1>2, <1>3 DEF WaiterTypeOK
  <2> HIDE DEF w
  <2>2. /\ resumes' \in [Fiber -> Nat] /\ resumes'[w] = resumes[w] + 1 /\ resumes[w] \in Nat
        /\ \A g \in Fiber \ {w} : resumes'[g] = resumes[g]
    BY <2>1
  <2>3. resumes'[w] > 0
    BY <2>2
  <2> QED
    BY <2>2, <2>3
<1>5. ToNotify(f) = ToSet(Tail(toWake[f])) /\ ToSchedule(f) = {w}
  BY <1>3 DEF ToNotify, ToSchedule
<1>6. ToNotify(f)' = ToSet(Tail(toWake[f])) /\ ToSchedule(f)' = {}
  BY <1>2, <1>3, EmptyQueue DEF ToNotify, ToSchedule, Notifying
<1>7. \A g \in Fiber \ {f} : ToNotify(g)' = ToNotify(g) /\ ToSchedule(g)' = ToSchedule(g)
  BY <1>3 DEF ToNotify, ToSchedule
<1> HIDE DEF w
<1> QED
  BY <1>2, <1>3, <1>4, <1>5, <1>6, <1>7
=============================================================================
