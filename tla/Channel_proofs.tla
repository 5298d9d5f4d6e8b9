--------------------------- MODULE Channel_proofs ---------------------------
(***************************************************************************)
(* Proofs about Channel for any finite set of fibers, any values and any   *)
(* capacity.                                                               *)
(***************************************************************************)
EXTENDS TLAPS, Channel, FiberWaiter_proofs, FiniteSetTheorems

\* Where a fiber is says whether its call is pending; in a notification it may
\* be either: a receiver that has queued itself invites a sender.
CallInv ==
    \A f \in Fiber :
        /\ pc[f] \in {"run", "done"} => ret[f] # "pending"
        /\ pc[f] \in {"loop"} \cup Waiting => ret[f] = "pending"

\* A fiber is in one place: queued once, or in the list of one notifier.
PlaceInv ==
    /\ IsInjective(m_senderWaiters) /\ IsInjective(m_receiverWaiters)
    /\ ToSet(m_senderWaiters) \cap ToSet(m_receiverWaiters) = {}
    /\ \A g \in Fiber :
           /\ IsInjective(toWake[g])
           /\ pc[g] \in Notifying <=> toWake[g] # <<>>
           /\ ToNotify(g) \cap Queued = {}
    /\ \A g, h \in Fiber : g # h => ToNotify(g) \cap ToNotify(h) = {}

\* A fiber in a queue or a list has a pending call, of the queue's kind, is
\* past the block that queued it, and was not told.
ListedInv ==
    /\ \A f \in ToSet(m_senderWaiters) : op[f] = "send"
    /\ \A f \in ToSet(m_receiverWaiters) : op[f] = "recv"
    /\ \A f \in Fiber : f \in Queued \/ (\E g \in Fiber : f \in ToNotify(g)) =>
           ret[f] = "pending" /\ pc[f] # "loop" /\ ~notified[f]

\* Nobody waits on a closed channel.
ClosedInv == m_closed => m_senderWaiters = <<>> /\ m_receiverWaiters = <<>>

WaitersInv == TypeOK /\ CallInv /\ PlaceInv /\ ListedInv /\ ClosedInv

IInv == WaitersInv /\ NobodyStranded /\ RendezvousNotMissed

-----------------------------------------------------------------------------
LEMMA LabelProperties ==
    /\ Labels = {"run", "loop", "done", "test", "yield", "parked", "notify", "schedule"}
    /\ Waiting = {"test", "yield", "parked"} /\ Notifying = {"notify", "schedule"}
BY DEF Labels, Waiting, Notifying

\* What is popped from a queue, and what is left.
LEMMA PopWaiter ==
    ASSUME NEW q \in Seq(Fiber), IsInjective(q)
    PROVE  /\ Popped(q) \in Seq(Fiber) /\ Rest(q) \in Seq(Fiber)
           /\ IsInjective(Popped(q)) /\ IsInjective(Rest(q))
           /\ ToSet(q) = ToSet(Popped(q)) \cup ToSet(Rest(q))
           /\ ToSet(Popped(q)) \cap ToSet(Rest(q)) = {}
           /\ q = <<>> => Popped(q) = <<>> /\ Rest(q) = <<>>
           /\ q # <<>> => \E w \in Fiber : ToSet(Popped(q)) = {w}
<1>1. CASE q = <<>>
  BY <1>1, EmptyQueue DEF Popped, Rest
<1>2. CASE q # <<>>
  <2>1. Popped(q) = <<Head(q)>> /\ Rest(q) = Tail(q) /\ Head(q) \in Fiber
    BY <1>2, PopFront DEF Popped, Rest
  <2>2. ToSet(Popped(q)) = {Head(q)} /\ IsInjective(Popped(q)) /\ Popped(q) \in Seq(Fiber)
    BY <2>1, EmptyQueue
  <2>3. /\ Rest(q) \in Seq(Fiber) /\ IsInjective(Rest(q))
        /\ ToSet(q) = {Head(q)} \cup ToSet(Rest(q))
        /\ ToSet(Rest(q)) = ToSet(q) \ {Head(q)}
    BY <1>2, <2>1, PopFront
  <2> QED
    BY <1>2, <2>1, <2>2, <2>3
<1> QED
  BY <1>1, <1>2

\* A fiber that is at a locked block is in no queue and in no list.
LEMMA NotListed ==
    ASSUME WaitersInv, NEW f \in Fiber, pc[f] \in {"run", "loop", "done"}
    PROVE  /\ f \notin Queued /\ \A g \in Fiber : f \notin ToNotify(g)
           /\ f \notin ToSet(m_senderWaiters) /\ f \notin ToSet(m_receiverWaiters)
BY DEF WaitersInv, ListedInv, CallInv, Queued

LEMMA InitInv == Init => IInv
<1> SUFFICES ASSUME Init PROVE IInv
  OBVIOUS
<1> USE DEF Init, FiberWaiterInit
<1>1. TypeOK
  <2>1. /\ toWake \in [Fiber -> Seq(Fiber)] /\ m_buffer \in Seq(Value) /\ Len(m_buffer) = 0
        /\ m_senderWaiters \in Seq(Fiber) /\ m_receiverWaiters \in Seq(Fiber)
    OBVIOUS
  <2>2. val \in [Fiber -> Value]
    BY ChannelAssumption
  <2>3. 0 <= Room
    BY ChannelAssumption DEF Room
  <2> QED
    BY <2>1, <2>2, <2>3 DEF TypeOK, Labels
<1>2. /\ ToSet(m_senderWaiters) = {} /\ ToSet(m_receiverWaiters) = {} /\ Queued = {}
      /\ \A g \in Fiber : ToNotify(g) = {}
  BY EmptyQueue DEF ToNotify, Queued
<1>3. CallInv /\ ListedInv /\ ClosedInv
  BY <1>2, LabelProperties DEF CallInv, ListedInv, ClosedInv
<1>4. PlaceInv
  BY <1>2, EmptyQueue, LabelProperties DEF PlaceInv
<1>5. NobodyStranded /\ RendezvousNotMissed
  BY DEF NobodyStranded, RendezvousNotMissed
<1> QED
  BY <1>1, <1>3, <1>4, <1>5 DEF IInv, WaitersInv

\* A locked block of fiber f that pops waiters and may queue f itself.
LEMMA BlockInv ==
    ASSUME WaitersInv, NEW f \in Fiber, pc[f] \in {"run", "loop"},
           \A g \in Fiber \ {f} :
               /\ pc'[g] = pc[g] /\ toWake'[g] = toWake[g] /\ notified'[g] = notified[g]
               /\ op'[g] = op[g] /\ ret'[g] = ret[g],
           \/ pc'[f] = "notify" /\ toWake'[f] # <<>>
           \/ pc'[f] \in {"run", "loop", "test"} /\ toWake'[f] = <<>>,
           pc'[f] = "run" => ret'[f] # "pending",
           pc'[f] \in {"loop", "test"} => ret'[f] = "pending",
           IsInjective(toWake'[f]),
           IsInjective(m_senderWaiters'), IsInjective(m_receiverWaiters'),
           ToSet(toWake'[f]) \subseteq Queued,
           ToSet(m_senderWaiters') \subseteq ToSet(m_senderWaiters) \cup {f},
           ToSet(m_receiverWaiters') \subseteq ToSet(m_receiverWaiters) \cup {f},
           ToSet(m_senderWaiters') \cap ToSet(m_receiverWaiters') = {},
           ToSet(toWake'[f]) \cap (ToSet(m_senderWaiters') \cup ToSet(m_receiverWaiters')) = {},
           f \in ToSet(m_senderWaiters') => op'[f] = "send",
           f \in ToSet(m_receiverWaiters') => op'[f] = "recv",
           f \in ToSet(m_senderWaiters') \cup ToSet(m_receiverWaiters') =>
               ret'[f] = "pending" /\ pc'[f] # "loop" /\ ~notified'[f],
           Queued \subseteq Fiber
    PROVE  CallInv' /\ PlaceInv' /\ ListedInv'
<1>1. /\ ToNotify(f) = {} /\ ToNotify(f)' = ToSet(toWake'[f])
      /\ \A g \in Fiber \ {f} : ToNotify(g)' = ToNotify(g)
  BY PopFacts, LabelProperties
<1>2. f \notin Queued /\ \A g \in Fiber : f \notin ToNotify(g)
  BY NotListed
<1>3. CallInv'
  BY LabelProperties DEF WaitersInv, CallInv
<1>4. Queued' = ToSet(m_senderWaiters') \cup ToSet(m_receiverWaiters')
  BY DEF Queued
<1>5. Queued' \subseteq Queued \cup {f}
  BY <1>4 DEF Queued
<1>6. PlaceInv'
  <2>1. ASSUME NEW g \in Fiber
        PROVE  /\ IsInjective(toWake'[g])
               /\ pc'[g] \in Notifying <=> toWake'[g] # <<>>
               /\ ToNotify(g)' \cap Queued' = {}
    BY <1>1, <1>2, <1>4, <1>5, LabelProperties DEF WaitersInv, PlaceInv
  <2>2. ASSUME NEW g \in Fiber, NEW h \in Fiber, g # h
        PROVE  ToNotify(g)' \cap ToNotify(h)' = {}
    BY <1>1, <2>2 DEF WaitersInv, PlaceInv
  <2> QED
    BY <2>1, <2>2 DEF PlaceInv
<1>7. ListedInv'
  <2>1. \A g \in ToSet(m_senderWaiters') : op'[g] = "send"
    BY DEF WaitersInv, ListedInv, Queued
  <2>2. \A g \in ToSet(m_receiverWaiters') : op'[g] = "recv"
    BY DEF WaitersInv, ListedInv, Queued
  <2>3. ASSUME NEW g \in Fiber, g \in Queued' \/ \E h \in Fiber : g \in ToNotify(h)'
        PROVE  ret'[g] = "pending" /\ pc'[g] # "loop" /\ ~notified'[g]
    <3>1. CASE g = f
      BY <1>1, <1>2, <1>4, <2>3, <3>1
    <3>2. CASE g # f
      <4>1. g \in Queued \/ \E h \in Fiber : g \in ToNotify(h)
        BY <1>1, <1>5, <2>3, <3>2
      <4> QED
        BY <3>2, <4>1 DEF WaitersInv, ListedInv
    <3> QED
      BY <3>1, <3>2
  <2> QED
    BY <2>1, <2>2, <2>3 DEF ListedInv
<1> QED
  BY <1>3, <1>6, <1>7

\* What is known when a fiber enters a locked block.
LEMMA BlockFacts ==
    ASSUME WaitersInv
    PROVE  /\ TypeOK /\ Queued \subseteq Fiber
           /\ m_senderWaiters \in Seq(Fiber) /\ m_receiverWaiters \in Seq(Fiber)
           /\ IsInjective(m_senderWaiters) /\ IsInjective(m_receiverWaiters)
           /\ ToSet(m_senderWaiters) \cap ToSet(m_receiverWaiters) = {}
           /\ ToSet(m_senderWaiters) \subseteq Queued
           /\ ToSet(m_receiverWaiters) \subseteq Queued
<1>1. /\ TypeOK /\ m_senderWaiters \in Seq(Fiber) /\ m_receiverWaiters \in Seq(Fiber)
      /\ IsInjective(m_senderWaiters) /\ IsInjective(m_receiverWaiters)
      /\ ToSet(m_senderWaiters) \cap ToSet(m_receiverWaiters) = {}
  BY DEF WaitersInv, PlaceInv, TypeOK
<1>2. ToSet(m_senderWaiters) \subseteq Fiber /\ ToSet(m_receiverWaiters) \subseteq Fiber
  BY <1>1 DEF ToSet
<1> QED
  BY <1>1, <1>2 DEF Queued

LEMMA CallWaiters ==
    ASSUME WaitersInv, NEW f \in Fiber, NEW o \in {"send", "recv"}, NEW v \in Value,
           Call(f, o, v)
    PROVE  WaitersInv'
<1>0. /\ TypeOK /\ pc[f] = "run" /\ pc'[f] = "loop" /\ ret'[f] = "pending"
      /\ \A g \in Fiber \ {f} : pc'[g] = pc[g] /\ op'[g] = op[g] /\ ret'[g] = ret[g]
      /\ UNCHANGED <<notified, resumes, toWake, m_capacity, m_closed, m_buffer,
                     m_senderWaiters, m_receiverWaiters>>
  BY BlockFacts DEF Call, Goto, Return, TypeOK, channelVars
<1>1. TypeOK' /\ ClosedInv'
  BY <1>0, LabelProperties DEF TypeOK, Call, Goto, Return, Room, WaitersInv, ClosedInv
<1>2. toWake[f] = <<>>
  BY <1>0, LabelProperties DEF WaitersInv, PlaceInv
<1>3. CallInv' /\ PlaceInv' /\ ListedInv'
  BY <1>0, <1>2, BlockFacts, BlockInv, NotListed, EmptyQueue
<1> QED
  BY <1>1, <1>3 DEF WaitersInv

LEMMA FailWaiters ==
    ASSUME WaitersInv, NEW f \in Fiber, SendClosed(f) \/ RecvClosed(f)
    PROVE  WaitersInv'
<1>0. /\ TypeOK /\ pc[f] = "loop" /\ pc'[f] = "run" /\ ret'[f] = "false"
      /\ \A g \in Fiber \ {f} : pc'[g] = pc[g] /\ ret'[g] = ret[g]
      /\ UNCHANGED <<notified, resumes, toWake, op, val, m_capacity, m_closed, m_buffer,
                     m_senderWaiters, m_receiverWaiters>>
  BY BlockFacts DEF SendClosed, RecvClosed, Goto, Return, TypeOK, channelVars
<1>1. TypeOK' /\ ClosedInv'
  <2>1. pc' = [pc EXCEPT ![f] = "run"] /\ ret' = [ret EXCEPT ![f] = "false"]
    BY DEF SendClosed, RecvClosed, Goto, Return
  <2>2. pc' \in [Fiber -> Labels] /\ ret' \in [Fiber -> {"pending", "true", "false"}]
    BY <1>0, <2>1, LabelProperties DEF TypeOK
  <2>3. TypeOK'
    BY <1>0, <2>2 DEF TypeOK, Room
  <2>4. ClosedInv'
    BY <1>0 DEF WaitersInv, ClosedInv
  <2> QED
    BY <2>3, <2>4
<1>2. toWake[f] = <<>>
  BY <1>0, LabelProperties DEF WaitersInv, PlaceInv
<1>3. CallInv' /\ PlaceInv' /\ ListedInv'
  BY <1>0, <1>2, BlockFacts, BlockInv, NotListed, EmptyQueue
<1> QED
  BY <1>1, <1>3 DEF WaitersInv

LEMMA SendPutWaiters ==
    ASSUME WaitersInv, NEW f \in Fiber, SendPut(f)
    PROVE  WaitersInv'
<1> DEFINE popped == Popped(m_receiverWaiters)
<1>0. /\ TypeOK /\ pc[f] = "loop" /\ ~m_closed /\ ret'[f] = "true"
      /\ pc'[f] = IF popped = <<>> THEN "run" ELSE "notify"
      /\ toWake'[f] = popped
      /\ \A g \in Fiber \ {f} : pc'[g] = pc[g] /\ ret'[g] = ret[g] /\ toWake'[g] = toWake[g]
      /\ m_receiverWaiters' = Rest(m_receiverWaiters)
      /\ UNCHANGED <<notified, resumes, op, val, m_capacity, m_closed, m_senderWaiters>>
  BY BlockFacts DEF SendPut, NotifyThen, Goto, Return, TypeOK
<1>1. /\ popped \in Seq(Fiber) /\ Rest(m_receiverWaiters) \in Seq(Fiber)
      /\ IsInjective(popped) /\ IsInjective(Rest(m_receiverWaiters))
      /\ ToSet(m_receiverWaiters) = ToSet(popped) \cup ToSet(Rest(m_receiverWaiters))
      /\ ToSet(popped) \cap ToSet(Rest(m_receiverWaiters)) = {}
  BY BlockFacts, PopWaiter
<1>2. m_buffer' \in Seq(Value) /\ Len(m_buffer') <= Room
  <2>1. m_buffer' \in Seq(Value) /\ Len(m_buffer') = Len(m_buffer) + 1
    BY <1>0 DEF SendPut, TypeOK
  <2>2. Len(m_buffer) < Room
    <3>1. m_capacity \in Nat /\ (m_buffer = <<>> => Len(m_buffer) = 0)
      BY <1>0, ChannelAssumption DEF TypeOK
    <3> QED
      BY <3>1 DEF SendPut, CanSend, Room
  <2> QED
    BY <1>0, <2>1, <2>2, ChannelAssumption DEF Room, TypeOK
<1>3. TypeOK'
  BY <1>0, <1>1, <1>2, LabelProperties
     DEF TypeOK, SendPut, NotifyThen, Goto, Return, Room
<1>4. ClosedInv'
  BY <1>0 DEF ClosedInv
<1> HIDE DEF popped
<1>5. CallInv' /\ PlaceInv' /\ ListedInv'
  <2>1. \/ pc'[f] = "notify" /\ toWake'[f] # <<>>
        \/ pc'[f] \in {"run", "loop", "test"} /\ toWake'[f] = <<>>
    BY <1>0
  <2>2. /\ ToSet(toWake'[f]) \subseteq Queued
        /\ ToSet(m_receiverWaiters') \subseteq ToSet(m_receiverWaiters)
        /\ ToSet(m_senderWaiters') \cap ToSet(m_receiverWaiters') = {}
        /\ ToSet(toWake'[f]) \cap (ToSet(m_senderWaiters') \cup ToSet(m_receiverWaiters')) = {}
    BY <1>0, <1>1, BlockFacts
  <2> QED
    BY <1>0, <1>1, <2>1, <2>2, BlockFacts, BlockInv, NotListed
<1> QED
  BY <1>3, <1>4, <1>5 DEF WaitersInv

LEMMA SendWaitWaiters ==
    ASSUME WaitersInv, NEW f \in Fiber, SendWait(f)
    PROVE  WaitersInv'
<1>0. /\ TypeOK /\ pc[f] = "loop" /\ op[f] = "send" /\ ~m_closed /\ pc'[f] = "test"
      /\ ~notified'[f]
      /\ \A g \in Fiber \ {f} : pc'[g] = pc[g] /\ notified'[g] = notified[g]
      /\ m_senderWaiters' = Append(m_senderWaiters, f)
      /\ UNCHANGED <<resumes, toWake, op, val, ret, m_capacity, m_closed, m_buffer,
                     m_receiverWaiters>>
  BY BlockFacts DEF SendWait, Goto, TypeOK, callVars
<1>1. /\ toWake[f] = <<>> /\ ret[f] = "pending"
      /\ f \notin ToSet(m_senderWaiters) /\ f \notin ToSet(m_receiverWaiters)
  BY <1>0, NotListed, LabelProperties DEF WaitersInv, PlaceInv, CallInv
<1>2. /\ m_senderWaiters' \in Seq(Fiber) /\ IsInjective(m_senderWaiters')
      /\ ToSet(m_senderWaiters') = ToSet(m_senderWaiters) \cup {f}
  <2>1. m_senderWaiters \in Seq(Fiber) /\ IsInjective(m_senderWaiters)
    BY BlockFacts
  <2> QED
    BY <1>0, <1>1, <2>1, PushBack
<1>3. TypeOK' /\ ClosedInv'
  BY <1>0, <1>2, LabelProperties DEF TypeOK, SendWait, Goto, Room, ClosedInv
<1>4. CallInv' /\ PlaceInv' /\ ListedInv'
  BY <1>0, <1>1, <1>2, BlockFacts, BlockInv, EmptyQueue
<1> QED
  BY <1>3, <1>4 DEF WaitersInv

LEMMA RecvGetWaiters ==
    ASSUME WaitersInv, NEW f \in Fiber, RecvGet(f)
    PROVE  WaitersInv'
<1> DEFINE popped == Popped(m_senderWaiters)
<1>0. /\ TypeOK /\ pc[f] = "loop" /\ ret'[f] = "true"
      /\ pc'[f] = IF popped = <<>> THEN "run" ELSE "notify"
      /\ toWake'[f] = popped
      /\ \A g \in Fiber \ {f} : pc'[g] = pc[g] /\ ret'[g] = ret[g] /\ toWake'[g] = toWake[g]
      /\ m_senderWaiters' = Rest(m_senderWaiters)
      /\ UNCHANGED <<notified, resumes, op, m_capacity, m_closed, m_receiverWaiters>>
  BY BlockFacts DEF RecvGet, NotifyThen, Goto, Return, TypeOK
<1>1. /\ popped \in Seq(Fiber) /\ Rest(m_senderWaiters) \in Seq(Fiber)
      /\ IsInjective(popped) /\ IsInjective(Rest(m_senderWaiters))
      /\ ToSet(m_senderWaiters) = ToSet(popped) \cup ToSet(Rest(m_senderWaiters))
      /\ ToSet(popped) \cap ToSet(Rest(m_senderWaiters)) = {}
      /\ m_senderWaiters = <<>> => Rest(m_senderWaiters) = <<>>
  BY BlockFacts, PopWaiter
<1>2. /\ m_buffer' \in Seq(Value) /\ Len(m_buffer') <= Room
      /\ val' \in [Fiber -> Value]
  <2>1. /\ m_buffer' \in Seq(Value) /\ Len(m_buffer') = Len(m_buffer) - 1
        /\ Len(m_buffer) \in Nat /\ Head(m_buffer) \in Value
    BY <1>0 DEF RecvGet, TypeOK
  <2> QED
    BY <1>0, <2>1, ChannelAssumption DEF Room, TypeOK, RecvGet
<1>3. TypeOK'
  BY <1>0, <1>1, <1>2, LabelProperties
     DEF TypeOK, RecvGet, NotifyThen, Goto, Return, Room
<1>4. ClosedInv'
  BY <1>0, <1>1 DEF WaitersInv, ClosedInv
<1> HIDE DEF popped
<1>5. CallInv' /\ PlaceInv' /\ ListedInv'
  <2>1. \/ pc'[f] = "notify" /\ toWake'[f] # <<>>
        \/ pc'[f] \in {"run", "loop", "test"} /\ toWake'[f] = <<>>
    BY <1>0
  <2>2. /\ ToSet(toWake'[f]) \subseteq Queued
        /\ ToSet(m_senderWaiters') \subseteq ToSet(m_senderWaiters)
        /\ ToSet(m_senderWaiters') \cap ToSet(m_receiverWaiters') = {}
        /\ ToSet(toWake'[f]) \cap (ToSet(m_senderWaiters') \cup ToSet(m_receiverWaiters')) = {}
    BY <1>0, <1>1, BlockFacts
  <2> QED
    BY <1>0, <1>1, <2>1, <2>2, BlockFacts, BlockInv, NotListed
<1> QED
  BY <1>3, <1>4, <1>5 DEF WaitersInv

LEMMA RecvWaitWaiters ==
    ASSUME WaitersInv, NEW f \in Fiber, RecvWait(f)
    PROVE  WaitersInv'
<1> DEFINE popped == Popped(m_senderWaiters)
<1>0. /\ TypeOK /\ pc[f] = "loop" /\ op[f] = "recv" /\ ~m_closed /\ ~notified'[f]
      /\ pc'[f] = IF popped = <<>> THEN "test" ELSE "notify"
      /\ toWake'[f] = popped
      /\ \A g \in Fiber \ {f} :
            pc'[g] = pc[g] /\ notified'[g] = notified[g] /\ toWake'[g] = toWake[g]
      /\ m_receiverWaiters' = Append(m_receiverWaiters, f)
      /\ m_senderWaiters' = Rest(m_senderWaiters)
      /\ UNCHANGED <<resumes, op, val, ret, m_capacity, m_closed, m_buffer>>
  BY BlockFacts DEF RecvWait, NotifyThen, Goto, TypeOK, callVars
<1>1. /\ ret[f] = "pending"
      /\ f \notin ToSet(m_senderWaiters) /\ f \notin ToSet(m_receiverWaiters)
  BY <1>0, NotListed, LabelProperties DEF WaitersInv, CallInv
<1>2. /\ popped \in Seq(Fiber) /\ Rest(m_senderWaiters) \in Seq(Fiber)
      /\ IsInjective(popped) /\ IsInjective(Rest(m_senderWaiters))
      /\ ToSet(m_senderWaiters) = ToSet(popped) \cup ToSet(Rest(m_senderWaiters))
      /\ ToSet(popped) \cap ToSet(Rest(m_senderWaiters)) = {}
  BY BlockFacts, PopWaiter
<1>3. /\ m_receiverWaiters' \in Seq(Fiber) /\ IsInjective(m_receiverWaiters')
      /\ ToSet(m_receiverWaiters') = ToSet(m_receiverWaiters) \cup {f}
  <2>1. m_receiverWaiters \in Seq(Fiber) /\ IsInjective(m_receiverWaiters)
    BY BlockFacts
  <2> QED
    BY <1>0, <1>1, <2>1, PushBack
<1>4. TypeOK'
  BY <1>0, <1>2, <1>3, LabelProperties DEF TypeOK, RecvWait, NotifyThen, Goto, Room
<1>5. ClosedInv'
  BY <1>0 DEF ClosedInv
<1> HIDE DEF popped
<1>6. CallInv' /\ PlaceInv' /\ ListedInv'
  <2>1. \/ pc'[f] = "notify" /\ toWake'[f] # <<>>
        \/ pc'[f] \in {"run", "loop", "test"} /\ toWake'[f] = <<>>
    BY <1>0
  <2>2. /\ ToSet(toWake'[f]) \subseteq Queued
        /\ ToSet(m_senderWaiters') \subseteq ToSet(m_senderWaiters)
        /\ f \notin ToSet(m_senderWaiters')
        /\ ToSet(m_senderWaiters') \cap ToSet(m_receiverWaiters') = {}
        /\ ToSet(toWake'[f]) \cap (ToSet(m_senderWaiters') \cup ToSet(m_receiverWaiters')) = {}
    BY <1>0, <1>1, <1>2, <1>3, BlockFacts
  <2> QED
    BY <1>0, <1>1, <1>2, <1>3, <2>1, <2>2, BlockFacts, BlockInv
<1> QED
  BY <1>4, <1>5, <1>6 DEF WaitersInv

LEMMA CloseWaiters ==
    ASSUME WaitersInv, NEW f \in Fiber, Close(f)
    PROVE  WaitersInv'
<1> DEFINE popped == m_senderWaiters \o m_receiverWaiters
<1>0. /\ TypeOK /\ pc[f] = "run"
      /\ pc'[f] = IF popped = <<>> THEN "run" ELSE "notify"
      /\ toWake'[f] = popped
      /\ \A g \in Fiber \ {f} : pc'[g] = pc[g] /\ toWake'[g] = toWake[g]
      /\ m_senderWaiters' = <<>> /\ m_receiverWaiters' = <<>>
      /\ UNCHANGED <<notified, resumes, op, val, ret, m_capacity, m_buffer>>
  BY BlockFacts DEF Close, NotifyThen, Goto, TypeOK, callVars
<1>1. /\ popped \in Seq(Fiber) /\ IsInjective(popped)
      /\ ToSet(popped) = ToSet(m_senderWaiters) \cup ToSet(m_receiverWaiters)
  BY JoinQueues, BlockFacts
<1>2. /\ ToSet(m_senderWaiters') = {} /\ ToSet(m_receiverWaiters') = {}
      /\ IsInjective(m_senderWaiters') /\ IsInjective(m_receiverWaiters')
      /\ m_senderWaiters' \in Seq(Fiber) /\ m_receiverWaiters' \in Seq(Fiber)
  BY <1>0, EmptyQueue
<1> HIDE DEF popped
<1>3. TypeOK'
  BY <1>0, <1>1, <1>2, LabelProperties DEF TypeOK, Close, NotifyThen, Goto, Room, popped
<1>4. ClosedInv'
  BY <1>0 DEF ClosedInv
<1>5. CallInv' /\ PlaceInv' /\ ListedInv'
  <2>1. \/ pc'[f] = "notify" /\ toWake'[f] # <<>>
        \/ pc'[f] \in {"run", "loop", "test"} /\ toWake'[f] = <<>>
    BY <1>0
  <2>2. ret[f] # "pending"
    BY <1>0 DEF WaitersInv, CallInv
  <2> QED
    BY <1>0, <1>1, <1>2, <2>1, <2>2, BlockFacts, BlockInv, NotListed DEF Queued
<1> QED
  BY <1>3, <1>4, <1>5 DEF WaitersInv

\* The steps of the machinery that move one fiber, or change its tasks.
LEMMA MoveWaiters ==
    ASSUME WaitersInv, NEW f \in Fiber, UNCHANGED <<callVars, channelVars>>,
           \/ TestNotified(f, "loop") \/ Yield(f) \/ Resume(f)
           \/ DropTask(f) \/ Requeue(f) \/ Finish(f)
    PROVE  WaitersInv'
<1>0. /\ TypeOK
      /\ UNCHANGED <<notified, toWake, op, val, ret, m_capacity, m_closed, m_buffer,
                     m_senderWaiters, m_receiverWaiters>>
  BY BlockFacts
     DEF TestNotified, Yield, Resume, DropTask, Requeue, Finish, callVars, channelVars
<1>1. /\ pc[f] \notin Notifying /\ pc'[f] \notin Notifying
      /\ \A g \in Fiber \ {f} : pc'[g] = pc[g]
      /\ \/ pc[f] \in Waiting /\ pc'[f] \in Waiting
         \/ pc[f] = "test" /\ notified[f] /\ pc'[f] = "loop"
         \/ pc[f] \in {"run", "done"} /\ pc'[f] = "done"
  BY <1>0, LabelProperties
     DEF TestNotified, Yield, Resume, DropTask, Requeue, Finish, Goto, TypeOK
<1>2. TypeOK'
  <2>1. pc' \in [Fiber -> Labels]
    BY <1>0, LabelProperties
       DEF TestNotified, Yield, Resume, DropTask, Requeue, Finish, Goto, TypeOK
  <2>2. resumes' \in [Fiber -> Nat]
    <3>1. CASE Resume(f) \/ DropTask(f)
      <4>1. resumes[f] \in Nat /\ resumes[f] - 1 \in Nat
        BY <1>0, <3>1 DEF Resume, DropTask, TypeOK
      <4> QED
        BY <1>0, <3>1, <4>1 DEF Resume, DropTask, TypeOK
    <3>2. CASE Requeue(f)
      BY <1>0, <3>2 DEF Requeue, TypeOK
    <3>3. CASE TestNotified(f, "loop") \/ Yield(f) \/ Finish(f)
      BY <1>0, <3>3 DEF TestNotified, Yield, Finish, TypeOK
    <3> QED
      BY <3>1, <3>2, <3>3
  <2> QED
    BY <1>0, <2>1, <2>2 DEF TypeOK, Room
<1>3. /\ \A g \in Fiber : ToNotify(g)' = ToNotify(g)
      /\ Queued' = Queued
  BY <1>0, <1>1, MoveFacts DEF Queued
<1>4. CallInv'
  BY <1>0, <1>1, LabelProperties DEF WaitersInv, CallInv
<1>5. PlaceInv'
  BY <1>0, <1>1, <1>3 DEF WaitersInv, PlaceInv
<1>6. ListedInv'
  BY <1>0, <1>1, <1>3, LabelProperties DEF WaitersInv, ListedInv, CallInv
<1>7. ClosedInv'
  BY <1>0 DEF WaitersInv, ClosedInv
<1> QED
  BY <1>2, <1>4, <1>5, <1>6, <1>7 DEF WaitersInv

LEMMA StoreNotifiedWaiters ==
    ASSUME WaitersInv, NEW f \in Fiber, StoreNotified(f), UNCHANGED <<callVars, channelVars>>
    PROVE  WaitersInv'
<1>0. /\ TypeOK
      /\ UNCHANGED <<op, val, ret, m_capacity, m_closed, m_buffer,
                     m_senderWaiters, m_receiverWaiters>>
  BY BlockFacts DEF callVars, channelVars
<1>1. PICK w \in Fiber :
           /\ w \in ToNotify(f) /\ ToNotify(f)' = ToNotify(f) \ {w}
           /\ \A g \in Fiber \ {f} : ToNotify(g)' = ToNotify(g)
           /\ notified' = [notified EXCEPT ![w] = TRUE]
           /\ pc[f] = "notify" /\ pc'[f] = "schedule"
           /\ \A g \in Fiber \ {f} : pc'[g] = pc[g]
           /\ UNCHANGED <<resumes, toWake>>
  <2>1. WaiterTypeOK /\ pc \in [Fiber -> Labels] /\ toWake[f] # <<>> /\ IsInjective(toWake[f])
    BY <1>0, LabelProperties DEF WaitersInv, TypeOK, WaiterTypeOK, PlaceInv, StoreNotified
  <2> QED
    BY <2>1, StoreFacts
<1>2. \A g \in Fiber \ {w} : notified'[g] = notified[g]
  BY <1>1
<1>3. TypeOK'
  BY <1>0, <1>1, LabelProperties DEF TypeOK, StoreNotified, Goto, Room
<1>4. /\ w \notin Queued /\ w \notin ToNotify(f)'
      /\ \A g \in Fiber \ {f} : w \notin ToNotify(g)
      /\ Queued' = Queued
  BY <1>0, <1>1 DEF WaitersInv, PlaceInv, Queued
<1>5. CallInv'
  BY <1>0, <1>1, LabelProperties DEF WaitersInv, CallInv
<1>6. PlaceInv'
  BY <1>0, <1>1, <1>4, LabelProperties DEF WaitersInv, PlaceInv
<1>7. ListedInv'
  <2>1. ASSUME NEW g \in Fiber, g \in Queued' \/ \E h \in Fiber : g \in ToNotify(h)'
        PROVE  ret'[g] = "pending" /\ pc'[g] # "loop" /\ ~notified'[g]
    <3>1. g # w /\ (g \in Queued \/ \E h \in Fiber : g \in ToNotify(h))
      BY <1>1, <1>4, <2>1
    <3>2. ret[g] = "pending" /\ pc[g] # "loop" /\ ~notified[g]
      BY <3>1 DEF WaitersInv, ListedInv
    <3> QED
      BY <1>0, <1>1, <1>2, <3>1, <3>2
  <2> QED
    BY <1>0, <2>1 DEF WaitersInv, ListedInv
<1>8. ClosedInv'
  BY <1>0 DEF WaitersInv, ClosedInv
<1> QED
  BY <1>3, <1>5, <1>6, <1>7, <1>8 DEF WaitersInv

LEMMA ScheduleWaiterWaiters ==
    ASSUME WaitersInv, NEW f \in Fiber, ScheduleWaiter(f, AfterNotify(f)),
           UNCHANGED <<callVars, channelVars>>
    PROVE  WaitersInv'
<1> DEFINE next == AfterNotify(f)
<1>0. /\ TypeOK /\ toWake[f] # <<>> /\ pc[f] = "schedule"
      /\ next \in Labels \ Notifying /\ next \in {"test", "run"}
      /\ next = "run" <=> ret[f] # "pending"
      /\ UNCHANGED <<op, val, ret, m_capacity, m_closed, m_buffer,
                     m_senderWaiters, m_receiverWaiters>>
  BY BlockFacts, LabelProperties
     DEF WaitersInv, PlaceInv, ScheduleWaiter, callVars, channelVars, AfterNotify
<1> HIDE DEF next
<1>1. /\ \A g \in Fiber : ToNotify(g)' = ToNotify(g)
      /\ resumes' \in [Fiber -> Nat]
      /\ toWake' = [toWake EXCEPT ![f] = Tail(@)]
      /\ \/ pc'[f] = next /\ toWake'[f] = <<>>
         \/ pc'[f] = "notify" /\ toWake'[f] # <<>>
      /\ \A g \in Fiber \ {f} : pc'[g] = pc[g]
      /\ UNCHANGED notified
  <2>1. WaiterTypeOK /\ pc \in [Fiber -> Labels] /\ ScheduleWaiter(f, next)
    BY <1>0 DEF TypeOK, WaiterTypeOK, next
  <2> QED
    BY <1>0, <2>1, ScheduleFacts
<1>2. /\ Tail(toWake[f]) \in Seq(Fiber) /\ IsInjective(Tail(toWake[f]))
      /\ toWake'[f] = Tail(toWake[f]) /\ \A g \in Fiber \ {f} : toWake'[g] = toWake[g]
  BY <1>0, <1>1, PopFront DEF TypeOK, WaitersInv, PlaceInv
<1>3. TypeOK'
  <2>1. toWake' \in [Fiber -> Seq(Fiber)]
    BY <1>0, <1>1, <1>2 DEF TypeOK
  <2>2. pc' \in [Fiber -> Labels]
    BY <1>0, LabelProperties DEF TypeOK, ScheduleWaiter, Goto, next
  <2> QED
    BY <1>0, <1>1, <2>1, <2>2 DEF TypeOK, Room
<1>4. Queued' = Queued
  BY <1>0 DEF Queued
<1>5. CallInv'
  BY <1>0, <1>1, LabelProperties DEF WaitersInv, CallInv
<1>6. PlaceInv'
  BY <1>0, <1>1, <1>2, <1>4, LabelProperties DEF WaitersInv, PlaceInv
<1>7. ListedInv'
  BY <1>0, <1>1, <1>4 DEF WaitersInv, ListedInv
<1>8. ClosedInv'
  BY <1>0 DEF WaitersInv, ClosedInv
<1> QED
  BY <1>3, <1>5, <1>6, <1>7, <1>8 DEF WaitersInv

LEMMA WaitStepWaiters ==
    ASSUME WaitersInv, NEW f \in Fiber, WaitStep(f)
    PROVE  WaitersInv'
BY MoveWaiters, StoreNotifiedWaiters, ScheduleWaiterWaiters DEF WaitStep

-----------------------------------------------------------------------------
(* Counting the fibers on their way.                                       *)

LEMMA InFlightFinite ==
    /\ IsFiniteSet(InFlight("send")) /\ Cardinality(InFlight("send")) \in Nat
    /\ IsFiniteSet(InFlight("recv")) /\ Cardinality(InFlight("recv")) \in Nat
<1>1. \A o : InFlight(o) \in SUBSET Fiber
  BY DEF InFlight
<1>2. \A o : IsFiniteSet(InFlight(o))
  BY <1>1, FS_Subset, ChannelAssumption
<1> QED
  BY <1>2, FS_CardinalityType

\* A value is put: the sender is done, and a queued receiver comes.
LEMMA SendPutFlight ==
    ASSUME WaitersInv, NEW f \in Fiber, SendPut(f)
    PROVE  /\ f \in InFlight("send") /\ InFlight("send")' = InFlight("send") \ {f}
           /\ m_receiverWaiters = <<>> =>
                  InFlight("recv")' = InFlight("recv") /\ m_receiverWaiters' = <<>>
           /\ m_receiverWaiters # <<>> =>
                  \E w \in Fiber \ InFlight("recv") : InFlight("recv")' = InFlight("recv") \cup {w}
<1> DEFINE popped == Popped(m_receiverWaiters)
<1>0. /\ TypeOK /\ pc[f] = "loop" /\ op[f] = "send" /\ ret'[f] = "true"
      /\ \A g \in Fiber \ {f} : ret'[g] = ret[g]
      /\ m_receiverWaiters' = Rest(m_receiverWaiters)
      /\ UNCHANGED <<op, m_senderWaiters>>
  BY BlockFacts DEF SendPut, NotifyThen, Goto, Return, TypeOK
<1>1. /\ ToSet(m_receiverWaiters) = ToSet(popped) \cup ToSet(Rest(m_receiverWaiters))
      /\ ToSet(popped) \cap ToSet(Rest(m_receiverWaiters)) = {}
      /\ m_receiverWaiters = <<>> => popped = <<>> /\ Rest(m_receiverWaiters) = <<>>
      /\ m_receiverWaiters # <<>> => \E w \in Fiber : ToSet(popped) = {w}
  BY BlockFacts, PopWaiter
<1> HIDE DEF popped
<1>2. /\ f \in InFlight("send")
      /\ ToSet(popped) \subseteq Fiber /\ ToSet(popped) \cap ToSet(m_senderWaiters) = {}
      /\ \A g \in ToSet(popped) : op[g] = "recv" /\ ret[g] = "pending" /\ g \in Queued
      /\ Queued' = Queued \ ToSet(popped)
  BY <1>0, <1>1, NotListed, BlockFacts
     DEF InFlight, WaitersInv, CallInv, ListedInv, Queued
<1>3. InFlight("send")' = InFlight("send") \ {f}
  BY <1>0, <1>2 DEF InFlight
<1>4. InFlight("recv")' = InFlight("recv") \cup ToSet(popped)
  BY <1>0, <1>2 DEF InFlight
<1>5. ToSet(popped) \cap InFlight("recv") = {}
  BY <1>2 DEF InFlight
<1>6. popped = <<>> => ToSet(popped) = {}
  BY EmptyQueue
<1> QED
  BY <1>0, <1>1, <1>2, <1>3, <1>4, <1>5, <1>6

\* A value is taken: the receiver is done, and a queued sender comes.
LEMMA RecvGetFlight ==
    ASSUME WaitersInv, NEW f \in Fiber, RecvGet(f) \/ RecvWait(f)
    PROVE  /\ f \in InFlight("recv") /\ InFlight("recv")' = InFlight("recv") \ {f}
           /\ m_senderWaiters = <<>> =>
                  InFlight("send")' = InFlight("send") /\ m_senderWaiters' = <<>>
           /\ m_senderWaiters # <<>> =>
                  \E w \in Fiber \ InFlight("send") : InFlight("send")' = InFlight("send") \cup {w}
<1> DEFINE popped == Popped(m_senderWaiters)
<1>0. /\ TypeOK /\ pc[f] = "loop" /\ op[f] = "recv"
      /\ \A g \in Fiber \ {f} : ret'[g] = ret[g]
      /\ m_senderWaiters' = Rest(m_senderWaiters)
      /\ UNCHANGED op
      /\ \/ ret'[f] = "true" /\ m_receiverWaiters' = m_receiverWaiters
         \/ ret' = ret /\ m_receiverWaiters' = Append(m_receiverWaiters, f)
  BY BlockFacts DEF RecvGet, RecvWait, NotifyThen, Goto, Return, TypeOK, callVars
<1>1. /\ ToSet(m_senderWaiters) = ToSet(popped) \cup ToSet(Rest(m_senderWaiters))
      /\ ToSet(popped) \cap ToSet(Rest(m_senderWaiters)) = {}
      /\ m_senderWaiters = <<>> => popped = <<>> /\ Rest(m_senderWaiters) = <<>>
      /\ m_senderWaiters # <<>> => \E w \in Fiber : ToSet(popped) = {w}
  BY BlockFacts, PopWaiter
<1> HIDE DEF popped
<1>2. \/ ret'[f] = "true" /\ ToSet(m_receiverWaiters') = ToSet(m_receiverWaiters)
      \/ ret' = ret /\ ToSet(m_receiverWaiters') = ToSet(m_receiverWaiters) \cup {f}
  <2>1. m_receiverWaiters \in Seq(Fiber)
    BY <1>0 DEF TypeOK
  <2>2. ToSet(Append(m_receiverWaiters, f)) = ToSet(m_receiverWaiters) \cup {f}
    BY <2>1, PushBack
  <2>3. CASE ret'[f] = "true" /\ m_receiverWaiters' = m_receiverWaiters
    BY <2>3
  <2>4. CASE ret' = ret /\ m_receiverWaiters' = Append(m_receiverWaiters, f)
    BY <2>2, <2>4
  <2> QED
    BY <1>0, <2>3, <2>4
<1>3. /\ f \in InFlight("recv")
      /\ ToSet(popped) \subseteq Fiber /\ ToSet(popped) \cap ToSet(m_receiverWaiters) = {}
      /\ \A g \in ToSet(popped) : op[g] = "send" /\ ret[g] = "pending" /\ g \in Queued
      /\ \A g \in Fiber \ {f} : g \in Queued' <=> g \in Queued \ ToSet(popped)
      /\ f \in Queued' \/ ret'[f] = "true"
  BY <1>0, <1>1, <1>2, NotListed, BlockFacts
     DEF InFlight, WaitersInv, CallInv, ListedInv, Queued
<1>4. InFlight("recv")' = InFlight("recv") \ {f}
  BY <1>0, <1>3 DEF InFlight
<1>5. InFlight("send")' = InFlight("send") \cup ToSet(popped)
  BY <1>0, <1>3 DEF InFlight
<1>6. ToSet(popped) \cap InFlight("send") = {}
  BY <1>3 DEF InFlight
<1>7. popped = <<>> => ToSet(popped) = {}
  BY EmptyQueue
<1> QED
  BY <1>0, <1>1, <1>3, <1>4, <1>5, <1>6, <1>7

LEMMA SendWaitFlight ==
    ASSUME WaitersInv, NEW f \in Fiber, SendWait(f)
    PROVE  InFlight("recv")' = InFlight("recv")
<1>0. /\ TypeOK /\ op[f] = "send" /\ UNCHANGED <<op, ret>>
      /\ m_senderWaiters' = Append(m_senderWaiters, f)
      /\ m_receiverWaiters' = m_receiverWaiters
  BY BlockFacts DEF SendWait, callVars
<1>1. ToSet(m_senderWaiters') = ToSet(m_senderWaiters) \cup {f}
  <2>1. m_senderWaiters \in Seq(Fiber)
    BY <1>0 DEF TypeOK
  <2> QED
    BY <1>0, <2>1, PushBack
<1> QED
  BY <1>0, <1>1 DEF InFlight, Queued

\* A call brings a fiber, and close() all that are queued.
LEMMA GrowingFlight ==
    ASSUME WaitersInv, NEW f \in Fiber,
           Close(f) \/ \E o \in {"send", "recv"}, v \in Value : Call(f, o, v)
    PROVE  \A p \in {"send", "recv"} :
               /\ InFlight(p) \subseteq InFlight(p)'
               /\ Cardinality(InFlight(p)) <= Cardinality(InFlight(p)')
<1>1. /\ TypeOK /\ ret[f] # "pending"
      /\ \A g \in Fiber \ {f} : op'[g] = op[g] /\ ret'[g] = ret[g]
      /\ Queued' \subseteq Queued
  <2>1. CASE Close(f)
    BY <2>1, BlockFacts, EmptyQueue DEF WaitersInv, CallInv, Close, callVars, Queued
  <2>2. CASE \E o \in {"send", "recv"}, v \in Value : Call(f, o, v)
    BY <2>2, BlockFacts DEF WaitersInv, CallInv, Call, Return, channelVars, Queued, TypeOK
  <2> QED
    BY <2>1, <2>2
<1>2. \A p \in {"send", "recv"} : InFlight(p) \subseteq InFlight(p)'
  BY <1>1 DEF InFlight
<1>3. \A p \in {"send", "recv"} : InFlight(p)' \in SUBSET Fiber
  BY DEF InFlight
<1>4. \A p \in {"send", "recv"} : IsFiniteSet(InFlight(p)')
  BY <1>3, FS_Subset, ChannelAssumption
<1> QED
  BY <1>2, <1>4, FS_Subset

\* The machinery itself, and calls that fail, leave the others where they are.
LEMMA SteadyFlight ==
    ASSUME WaitersInv, NEW f \in Fiber
    PROVE  /\ WaitStep(f) => \A p \in {"send", "recv"} : InFlight(p)' = InFlight(p)
           /\ SendClosed(f) => InFlight("recv")' = InFlight("recv")
<1>1. WaitStep(f) => \A p \in {"send", "recv"} : InFlight(p)' = InFlight(p)
  BY DEF WaitStep, callVars, channelVars, InFlight, Queued
<1>2. ASSUME SendClosed(f) PROVE InFlight("recv")' = InFlight("recv")
  <2>1. /\ op[f] = "send" /\ op' = op /\ Queued' = Queued
        /\ \A g \in Fiber \ {f} : ret'[g] = ret[g]
    BY <1>2, BlockFacts DEF SendClosed, Return, channelVars, Queued, TypeOK
  <2> QED
    BY <2>1 DEF InFlight
<1> QED
  BY <1>1, <1>2

LEMMA CountInv ==
    ASSUME IInv, NEW f \in Fiber,
           \/ Close(f) \/ \E o \in {"send", "recv"}, v \in Value : Call(f, o, v)
           \/ Step(f) \/ WaitStep(f)
    PROVE  NobodyStranded' /\ RendezvousNotMissed'
<1> DEFINE sending == Cardinality(InFlight("send"))
           receiving == Cardinality(InFlight("recv"))
<1>0. /\ WaitersInv /\ TypeOK /\ NobodyStranded /\ RendezvousNotMissed
      /\ m_buffer \in Seq(Value) /\ Len(m_buffer) \in Nat /\ m_capacity \in Nat
      /\ m_buffer = <<>> <=> Len(m_buffer) = 0
      /\ m_capacity = 0 => Len(m_buffer) <= 1
      /\ sending \in Nat /\ receiving \in Nat
      /\ sending = 0 <=> InFlight("send") = {}
      /\ receiving = 0 <=> InFlight("recv") = {}
  BY InFlightFinite, FS_EmptySet, ChannelAssumption DEF IInv, WaitersInv, TypeOK, Room
<1>1. CASE SendPut(f)
  <2>1. /\ Len(m_buffer') = Len(m_buffer) + 1 /\ m_buffer' # <<>>
        /\ m_capacity' = m_capacity /\ m_senderWaiters' = m_senderWaiters
    BY <1>0, <1>1 DEF SendPut
  <2>2. sending' = sending - 1
    BY <1>0, <1>1, SendPutFlight, InFlightFinite, FS_RemoveElement
  <2>3. /\ m_receiverWaiters = <<>> => m_receiverWaiters' = <<>>
        /\ m_receiverWaiters # <<>> => receiving' = receiving + 1 /\ InFlight("recv")' # {}
    BY <1>0, <1>1, SendPutFlight, InFlightFinite, FS_AddElement
  <2>4. m_capacity = 0 => m_receiverWaiters # <<>>
    BY <1>1 DEF SendPut, CanSend
  <2>5. NobodyStranded'
    BY <1>0, <2>1, <2>2, <2>3 DEF NobodyStranded
  <2>6. RendezvousNotMissed'
    BY <2>1, <2>3, <2>4 DEF RendezvousNotMissed
  <2> QED
    BY <2>5, <2>6
<1>2. CASE SendWait(f)
  <2>1. /\ UNCHANGED <<m_buffer, m_capacity, m_receiverWaiters>>
        /\ IF m_capacity = 0 THEN m_receiverWaiters = <<>> \/ m_buffer # <<>>
           ELSE m_capacity <= Len(m_buffer)
    BY <1>0, <1>2 DEF SendWait, CanSend
  <2>2. InFlight("recv")' = InFlight("recv")
    BY <1>0, <1>2, SendWaitFlight
  <2>3. sending' \in Nat
    <3>1. InFlight("send")' \in SUBSET Fiber
      BY DEF InFlight
    <3> QED
      BY <3>1, FS_Subset, FS_CardinalityType, ChannelAssumption
  <2>4. NobodyStranded'
    BY <1>0, <2>1, <2>2, <2>3 DEF NobodyStranded
  <2>5. RendezvousNotMissed'
    BY <1>0, <2>1, <2>2 DEF RendezvousNotMissed
  <2> QED
    BY <2>4, <2>5
<1>3. CASE RecvGet(f) \/ RecvWait(f)
  <2>1. /\ m_capacity' = m_capacity
        /\ \/ /\ Len(m_buffer) > 0 /\ Len(m_buffer') = Len(m_buffer) - 1
              /\ m_buffer' \in Seq(Value) /\ m_receiverWaiters' = m_receiverWaiters
           \/ m_buffer = <<>> /\ m_buffer' = <<>>
    <3>1. CASE RecvGet(f)
      <4>1. /\ m_buffer # <<>> /\ m_buffer' = Tail(m_buffer)
            /\ UNCHANGED <<m_capacity, m_receiverWaiters>>
        BY <3>1 DEF RecvGet
      <4>2. Tail(m_buffer) \in Seq(Value) /\ Len(Tail(m_buffer)) = Len(m_buffer) - 1
        BY <1>0, <4>1
      <4> QED
        BY <1>0, <4>1, <4>2
    <3>2. CASE RecvWait(f)
      BY <3>2 DEF RecvWait
    <3> QED
      BY <1>3, <3>1, <3>2
  <2>2. receiving' = receiving - 1 /\ receiving' \in Nat
    <3>1. f \in InFlight("recv") /\ InFlight("recv")' = InFlight("recv") \ {f}
      BY <1>0, <1>3, RecvGetFlight
    <3>2. /\ Cardinality(InFlight("recv") \ {f}) = Cardinality(InFlight("recv")) - 1
          /\ Cardinality(InFlight("recv") \ {f}) \in Nat
      <4>1. IsFiniteSet(InFlight("recv") \ {f})
        BY InFlightFinite, FS_RemoveElement
      <4> QED
        BY <3>1, <4>1, InFlightFinite, FS_RemoveElement, FS_CardinalityType
    <3> QED
      BY <3>1, <3>2
  <2>3. /\ m_senderWaiters = <<>> => m_senderWaiters' = <<>>
        /\ m_senderWaiters # <<>> => sending' = sending + 1 /\ InFlight("send")' # {}
    BY <1>0, <1>3, RecvGetFlight, InFlightFinite, FS_AddElement
  <2>4. NobodyStranded'
    BY <1>0, <2>1, <2>2, <2>3 DEF NobodyStranded
  <2>5. RendezvousNotMissed'
    <3>1. m_capacity = 0 => Len(m_buffer') = 0 /\ m_buffer' = <<>>
      BY <1>0, <2>1
    <3> QED
      BY <2>1, <2>3, <3>1 DEF RendezvousNotMissed
  <2> QED
    BY <2>4, <2>5
<1>4. CASE SendClosed(f) \/ RecvClosed(f)
  <2>1. /\ UNCHANGED <<m_buffer, m_capacity, m_senderWaiters, m_receiverWaiters>>
        /\ m_senderWaiters = <<>> /\ m_receiverWaiters = <<>>
    BY <1>0, <1>4 DEF SendClosed, RecvClosed, channelVars, WaitersInv, ClosedInv
  <2>2. m_buffer # <<>> => InFlight("recv")' = InFlight("recv")
    BY <1>0, <1>4, SteadyFlight DEF RecvClosed
  <2> QED
    BY <1>0, <2>1, <2>2 DEF NobodyStranded, RendezvousNotMissed
<1>5. CASE Close(f) \/ \E o \in {"send", "recv"}, v \in Value : Call(f, o, v)
  <2>1. /\ UNCHANGED <<m_buffer, m_capacity>>
        /\ m_senderWaiters' # <<>> => m_senderWaiters # <<>>
        /\ m_receiverWaiters' # <<>> => m_receiverWaiters # <<>>
    BY <1>5 DEF Close, Call, channelVars
  <2>2. /\ sending <= sending' /\ receiving <= receiving'
        /\ InFlight("send") \subseteq InFlight("send")'
        /\ InFlight("recv") \subseteq InFlight("recv")'
    BY <1>0, <1>5, GrowingFlight
  <2>3. sending' \in Nat /\ receiving' \in Nat
    <3>1. InFlight("send")' \in SUBSET Fiber /\ InFlight("recv")' \in SUBSET Fiber
      BY DEF InFlight
    <3> QED
      BY <3>1, FS_Subset, FS_CardinalityType, ChannelAssumption
  <2>4. NobodyStranded'
    BY <1>0, <2>1, <2>2, <2>3 DEF NobodyStranded
  <2>5. RendezvousNotMissed'
    BY <1>0, <2>1, <2>2 DEF RendezvousNotMissed
  <2> QED
    BY <2>4, <2>5
<1>6. CASE WaitStep(f)
  <2>1. UNCHANGED <<m_buffer, m_capacity, m_senderWaiters, m_receiverWaiters>>
    BY <1>6 DEF WaitStep, channelVars
  <2>2. InFlight("send")' = InFlight("send") /\ InFlight("recv")' = InFlight("recv")
    BY <1>0, <1>6, SteadyFlight
  <2> QED
    BY <1>0, <2>1, <2>2 DEF NobodyStranded, RendezvousNotMissed
<1> QED
  BY <1>1, <1>2, <1>3, <1>4, <1>5, <1>6 DEF Step

LEMMA NextInv == IInv /\ [Next]_vars => IInv'
<1> SUFFICES ASSUME IInv, [Next]_vars PROVE IInv'
  OBVIOUS
<1>1. WaitersInv
  BY DEF IInv
<1>2. ASSUME NEW f \in Fiber, Close(f) \/ \E o \in {"send", "recv"}, v \in Value : Call(f, o, v)
      PROVE  IInv'
  BY <1>1, <1>2, CountInv, CloseWaiters, CallWaiters DEF IInv
<1>3. ASSUME NEW f \in Fiber, Step(f) PROVE IInv'
  BY <1>1, <1>3, CountInv, FailWaiters, SendPutWaiters, SendWaitWaiters, RecvGetWaiters,
     RecvWaitWaiters DEF IInv, Step
<1>4. ASSUME NEW f \in Fiber, WaitStep(f) PROVE IInv'
  BY <1>1, <1>4, CountInv, WaitStepWaiters DEF IInv
<1>5. CASE UNCHANGED vars
  <2>1. UNCHANGED <<pc, notified, resumes, toWake, op, val, ret, m_capacity, m_closed,
                    m_buffer, m_senderWaiters, m_receiverWaiters>>
    BY <1>5 DEF vars, waiterVars, callVars, channelVars
  <2>2. /\ \A g \in Fiber : ToNotify(g)' = ToNotify(g)
        /\ Queued' = Queued
    BY <2>1 DEF ToNotify, Queued
  <2>3. InFlight("send")' = InFlight("send") /\ InFlight("recv")' = InFlight("recv")
    BY <2>1, <2>2 DEF InFlight
  <2>4. TypeOK' /\ CallInv' /\ ClosedInv'
    BY <1>1, <2>1 DEF WaitersInv, TypeOK, CallInv, ClosedInv, Room
  <2>5. PlaceInv' /\ ListedInv'
    BY <1>1, <2>1, <2>2 DEF WaitersInv, PlaceInv, ListedInv
  <2>6. NobodyStranded' /\ RendezvousNotMissed'
    BY <2>1, <2>3 DEF IInv, NobodyStranded, RendezvousNotMissed
  <2> QED
    BY <2>4, <2>5, <2>6 DEF IInv, WaitersInv
<1>6. ASSUME NEW f \in Fiber, Call(f, "recv", val[f])
      PROVE  \E o \in {"send", "recv"}, v \in Value : Call(f, o, v)
  <2>1. val[f] \in Value
    BY <1>1 DEF WaitersInv, TypeOK
  <2> QED
    BY <1>6, <2>1
<1> QED
  BY <1>2, <1>3, <1>4, <1>5, <1>6 DEF Next, Quiescent

LEMMA Invariant == Spec => []IInv
BY InitInv, NextInv, PTL DEF Spec

-----------------------------------------------------------------------------
\* Every variable of the channel and of the wait machinery keeps its type; the
\* buffer never holds more than its room.
THEOREM TypeCorrect == Spec => []TypeOK
<1>1. IInv => TypeOK
  BY DEF IInv, WaitersInv
<1> QED
  BY <1>1, Invariant, PTL

\* One wakeup per value put and per value taken is enough, although a woken
\* fiber competes with newcomers: nobody sleeps on a value or on free room.
THEOREM WakeupsSuffice == Spec => []NobodyStranded
<1>1. IInv => NobodyStranded
  BY DEF IInv
<1> QED
  BY <1>1, Invariant, PTL

\* On a synchronous channel queued senders and receivers meet, and an accepted
\* value has a receiver on its way.
THEOREM RendezvousMet == Spec => []RendezvousNotMissed
<1>1. IInv => RendezvousNotMissed
  BY DEF IInv
<1> QED
  BY <1>1, Invariant, PTL

\* Every behaviour of Channel is one of the FIFO channel: send() and recv()
\* take effect once, in order, whatever waiting and waking goes on.
THEOREM FifoChannelRefined == Spec => ImplementsFifoChannel
<1>1. Init => Fifo!Init
  <2> SUFFICES ASSUME Init PROVE Fifo!Init
    OBVIOUS
  <2>1. TypeOK /\ Room \in Nat \ {0}
    BY InitInv, ChannelAssumption DEF Init, Room, IInv, WaitersInv
  <2> QED
    BY <2>1 DEF Init, TypeOK, Fifo!Init
<1>2. IInv /\ [Next]_vars => [Fifo!Next]_(Fifo!channelVars)
  <2> SUFFICES ASSUME IInv, [Next]_vars PROVE Fifo!Next \/ UNCHANGED Fifo!channelVars
    OBVIOUS
  <2>0. TypeOK /\ CallInv /\ val \in [Fiber -> Value]
    BY DEF IInv, WaitersInv, TypeOK
  <2>1. ASSUME NEW f \in Fiber, NEW o \in {"send", "recv"}, NEW v \in Value, Call(f, o, v)
        PROVE  Fifo!Next
    <3>1. Fifo!Call(f, o, v)
      BY <2>0, <2>1 DEF Call, Return, channelVars, CallInv, Room, Fifo!Call
    <3> QED
      BY <3>1 DEF Fifo!Next
  <2>2. ASSUME NEW f \in Fiber, Close(f) PROVE Fifo!Next
    <3>1. Fifo!Close
      BY <2>2 DEF Close, callVars, Room, Fifo!Close
    <3> QED
      BY <3>1 DEF Fifo!Next
  <2>3. ASSUME NEW f \in Fiber, SendPut(f) PROVE Fifo!Next
    <3>1. ret[f] = "pending"
      BY <2>0, <2>3 DEF SendPut, CallInv
    <3>2. Len(m_buffer) < Room
      BY <2>3 DEF SendPut, CanSend, Room
    <3>3. Fifo!Put(f)
      BY <2>3, <3>1, <3>2 DEF SendPut, Return, Room, Fifo!Put
    <3> QED
      BY <3>3 DEF Fifo!Next
  <2>4. ASSUME NEW f \in Fiber, RecvGet(f) PROVE Fifo!Next
    <3>1. ret[f] = "pending"
      BY <2>0, <2>4 DEF RecvGet, CallInv
    <3>2. Fifo!Get(f)
      BY <2>4, <3>1 DEF RecvGet, Return, Room, Fifo!Get
    <3> QED
      BY <3>2 DEF Fifo!Next
  <2>5. ASSUME NEW f \in Fiber, SendClosed(f) \/ RecvClosed(f) PROVE Fifo!Next
    <3>1. ret[f] = "pending"
      BY <2>0, <2>5 DEF SendClosed, RecvClosed, CallInv
    <3>2. Fifo!Fail(f)
      BY <2>5, <3>1 DEF SendClosed, RecvClosed, Return, channelVars, Room, Fifo!Fail
    <3> QED
      BY <3>2 DEF Fifo!Next
  <2>6. ASSUME NEW f \in Fiber, SendWait(f) \/ RecvWait(f) \/ WaitStep(f) \/ UNCHANGED vars
        PROVE  UNCHANGED Fifo!channelVars
    BY <2>6 DEF SendWait, RecvWait, WaitStep, vars, callVars, channelVars, Room,
       Fifo!channelVars
  <2>7. CASE UNCHANGED vars
    BY <2>7 DEF vars, callVars, channelVars, Room, Fifo!channelVars
  <2>8. ASSUME NEW f \in Fiber, Call(f, "recv", val[f]) PROVE Fifo!Next
    BY <2>0, <2>1, <2>8
  <2> QED
    BY <2>1, <2>2, <2>3, <2>4, <2>5, <2>6, <2>7, <2>8 DEF Next, Step, Quiescent
<1> QED
  BY <1>1, <1>2, Invariant, PTL DEF Spec, ImplementsFifoChannel, Fifo!Spec
=============================================================================
