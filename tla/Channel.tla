------------------------------ MODULE Channel ------------------------------
(***************************************************************************)
(* Channel<T> (include/mycoroutine/sync.h), buffered (m_capacity > 0) and  *)
(* synchronous (m_capacity = 0).  send() and recv() are loops around one   *)
(* locked block; a block that cannot finish queues the fiber's waiter, and *)
(* one that can pops a waiter of the other side, to be notified after the  *)
(* block.  A woken fiber competes again with those that never waited.      *)
(***************************************************************************)
EXTENDS FiberWaiter, FiniteSets, SequencesExt

CONSTANTS
    Value,
    Capacity    \* the capacities a channel is made with

ASSUME ChannelAssumption ==
    Capacity \subseteq Nat /\ MaxStale \in Nat /\ Value # {} /\ IsFiniteSet(Fiber)

VARIABLES
    m_capacity, \* never changes
    m_closed,
    m_buffer,
    m_senderWaiters,
    m_receiverWaiters,
    op,         \* [Fiber -> {"send", "recv"}]: the operation it is in
    val,        \* [Fiber -> Value]: the value it sends or has received
    ret         \* [Fiber -> {"pending", "true", "false"}]: `sent`, `received`
                \* and the value returned

callVars == <<op, val, ret>>
channelVars == <<m_capacity, m_closed, m_buffer, m_senderWaiters, m_receiverWaiters>>
vars == <<waiterVars, callVars, channelVars>>

Labels == {"run", "loop", "done"} \cup Waiting \cup Notifying

Init ==
    /\ FiberWaiterInit
    /\ op = [f \in Fiber |-> "send"]
    /\ val = [f \in Fiber |-> CHOOSE v \in Value : TRUE]
    /\ ret = [f \in Fiber |-> "false"]
    /\ m_capacity \in Capacity
    /\ m_closed = FALSE
    /\ m_buffer = <<>>
    /\ m_senderWaiters = <<>>
    /\ m_receiverWaiters = <<>>

-----------------------------------------------------------------------------
\* PopWaiterFront: what it returns, as a list, and what it leaves.
Popped(queue) == IF queue = <<>> THEN <<>> ELSE <<Head(queue)>>
Rest(queue) == IF queue = <<>> THEN <<>> ELSE Tail(queue)

\* After the block: first the waiters popped in it, then on to `next`.
NotifyThen(f, popped, next) ==
    /\ toWake' = [toWake EXCEPT ![f] = popped]
    /\ Goto(f, IF popped = <<>> THEN next ELSE "notify")

Return(f, result) == ret' = [ret EXCEPT ![f] = result]

Call(f, o, v) ==
    /\ pc[f] = "run"
    /\ \A g \in Fiber : resumes[g] <= MaxStale
    /\ Goto(f, "loop")
    /\ op' = [op EXCEPT ![f] = o]
    /\ val' = [val EXCEPT ![f] = v]
    /\ Return(f, "pending")
    /\ UNCHANGED <<notified, resumes, toWake, channelVars>>

\* Mutant: one value too many.
CanSendOneMore ==
    IF m_capacity = 0
    THEN m_receiverWaiters # <<>> /\ m_buffer = <<>>
    ELSE Len(m_buffer) <= m_capacity

\* A synchronous channel takes a value only for a receiver that waits.
CanSend ==
    IF m_capacity = 0
    THEN m_receiverWaiters # <<>> /\ m_buffer = <<>>
    ELSE Len(m_buffer) < m_capacity

SendClosed(f) ==
    /\ pc[f] = "loop" /\ op[f] = "send"
    /\ m_closed
    /\ Return(f, "false")
    /\ Goto(f, "run")
    /\ UNCHANGED <<notified, resumes, toWake, op, val, channelVars>>

\* Mutants: send() wakes a receiver only if the buffer was empty, ...
SendPutWakesAtFirst(f) ==
    /\ pc[f] = "loop" /\ op[f] = "send"
    /\ ~m_closed
    /\ CanSend
    /\ m_buffer' = Append(m_buffer, val[f])
    /\ Return(f, "true")
    /\ IF m_buffer = <<>>
       THEN /\ m_receiverWaiters' = Rest(m_receiverWaiters)
            /\ NotifyThen(f, Popped(m_receiverWaiters), "run")
       ELSE /\ NotifyThen(f, <<>>, "run")
            /\ UNCHANGED m_receiverWaiters
    /\ UNCHANGED <<notified, resumes, op, val, m_closed, m_senderWaiters, m_capacity>>

\* ... or puts its value on a closed channel.
SendPutClosed(f) ==
    /\ pc[f] = "loop" /\ op[f] = "send"
    /\ CanSend
    /\ m_buffer' = Append(m_buffer, val[f])
    /\ Return(f, "true")
    /\ m_receiverWaiters' = Rest(m_receiverWaiters)
    /\ NotifyThen(f, Popped(m_receiverWaiters), "run")
    /\ UNCHANGED <<notified, resumes, op, val, m_closed, m_senderWaiters, m_capacity>>

SendPut(f) ==
    /\ pc[f] = "loop" /\ op[f] = "send"
    /\ ~m_closed
    /\ CanSend
    /\ m_buffer' = Append(m_buffer, val[f])
    /\ Return(f, "true")
    /\ m_receiverWaiters' = Rest(m_receiverWaiters)
    /\ NotifyThen(f, Popped(m_receiverWaiters), "run")
    /\ UNCHANGED <<notified, resumes, op, val, m_closed, m_senderWaiters, m_capacity>>

SendWait(f) ==
    /\ pc[f] = "loop" /\ op[f] = "send"
    /\ ~m_closed
    /\ ~CanSend
    /\ notified' = [notified EXCEPT ![f] = FALSE]
    /\ m_senderWaiters' = Append(m_senderWaiters, f)
    /\ Goto(f, "test")
    /\ UNCHANGED <<resumes, toWake, callVars, m_closed, m_buffer, m_receiverWaiters, m_capacity>>

RecvGet(f) ==
    /\ pc[f] = "loop" /\ op[f] = "recv"
    /\ m_buffer # <<>>
    /\ val' = [val EXCEPT ![f] = Head(m_buffer)]
    /\ m_buffer' = Tail(m_buffer)
    /\ Return(f, "true")
    /\ m_senderWaiters' = Rest(m_senderWaiters)
    /\ NotifyThen(f, Popped(m_senderWaiters), "run")
    /\ UNCHANGED <<notified, resumes, op, m_closed, m_receiverWaiters, m_capacity>>

RecvClosed(f) ==
    /\ pc[f] = "loop" /\ op[f] = "recv"
    /\ m_buffer = <<>>
    /\ m_closed
    /\ Return(f, "false")
    /\ Goto(f, "run")
    /\ UNCHANGED <<notified, resumes, toWake, op, val, channelVars>>

\* Mutant: the receiver queues itself and invites nobody.
RecvWaitSilent(f) ==
    /\ pc[f] = "loop" /\ op[f] = "recv"
    /\ m_buffer = <<>>
    /\ ~m_closed
    /\ notified' = [notified EXCEPT ![f] = FALSE]
    /\ m_receiverWaiters' = Append(m_receiverWaiters, f)
    /\ NotifyThen(f, <<>>, "test")
    /\ UNCHANGED <<resumes, callVars, m_closed, m_buffer, m_senderWaiters, m_capacity>>

\* The receiver queues itself and invites a waiting sender.
RecvWait(f) ==
    /\ pc[f] = "loop" /\ op[f] = "recv"
    /\ m_buffer = <<>>
    /\ ~m_closed
    /\ notified' = [notified EXCEPT ![f] = FALSE]
    /\ m_receiverWaiters' = Append(m_receiverWaiters, f)
    /\ m_senderWaiters' = Rest(m_senderWaiters)
    /\ NotifyThen(f, Popped(m_senderWaiters), "test")
    /\ UNCHANGED <<resumes, callVars, m_closed, m_buffer, m_capacity>>

\* Mutant: close() forgets the senders.
CloseReceivers(f) ==
    /\ pc[f] = "run"
    /\ ~m_closed
    /\ m_closed' = TRUE
    /\ m_receiverWaiters' = <<>>
    /\ NotifyThen(f, m_receiverWaiters, "run")
    /\ UNCHANGED <<notified, resumes, callVars, m_buffer, m_senderWaiters, m_capacity>>

\* close(): all waiters, senders first.
Close(f) ==
    /\ pc[f] = "run"
    /\ ~m_closed
    /\ m_closed' = TRUE
    /\ m_senderWaiters' = <<>>
    /\ m_receiverWaiters' = <<>>
    /\ NotifyThen(f, m_senderWaiters \o m_receiverWaiters, "run")
    /\ UNCHANGED <<notified, resumes, callVars, m_buffer, m_capacity>>

\* Where the operation goes on after its notifications: a receiver that has
\* queued itself waits, any other returns.
AfterNotify(f) == IF ret[f] = "pending" THEN "test" ELSE "run"

\* The steps of FiberWaiter inside send(), recv() and close().
WaitStep(f) ==
    /\ \/ TestNotified(f, "loop")
       \/ Yield(f)
       \/ StoreNotified(f)
       \/ ScheduleWaiter(f, AfterNotify(f))
       \/ Resume(f)
       \/ DropTask(f)
       \/ Requeue(f)
       \/ Finish(f)
    /\ UNCHANGED <<callVars, channelVars>>

Step(f) ==
    \/ SendClosed(f)
    \/ SendPut(f)
    \/ SendWait(f)
    \/ RecvGet(f)
    \/ RecvClosed(f)
    \/ RecvWait(f)

\* Every fiber has returned or is parked for good: all senders on a channel
\* with no room (none is invited), or all receivers on an empty one.
Quiescent ==
    /\ \A f \in Fiber : pc[f] \in {"parked", "done"} /\ resumes[f] = 0
    /\ \/ \A f \in Fiber : pc[f] = "parked" => op[f] = "send" /\ ~m_closed /\ ~CanSend
       \/ \A f \in Fiber : pc[f] = "parked" => op[f] = "recv" /\ ~m_closed /\ m_buffer = <<>>
    /\ UNCHANGED vars

Next ==
    \/ \E f \in Fiber :
           \/ \E v \in Value : Call(f, "send", v)
           \/ Call(f, "recv", val[f])
           \/ Close(f)
           \/ Step(f)
           \/ WaitStep(f)
    \/ Quiescent

Spec == Init /\ [][Next]_vars

\* Fibers on a worker keep running and workers take the tasks of parked ones;
\* nobody has to call anything, and needless reschedules need not happen.
Progress(f) ==
    \/ Step(f)
    \/ /\ \/ TestNotified(f, "loop")
          \/ Yield(f)
          \/ StoreNotified(f)
          \/ ScheduleWaiter(f, AfterNotify(f))
          \/ Resume(f)
       /\ UNCHANGED <<callVars, channelVars>>

FairSpec == Spec /\ \A f \in Fiber : WF_vars(Progress(f))

-----------------------------------------------------------------------------
(* Properties.                                                             *)

\* The values the buffer may hold, one on a synchronous channel.
Room == IF m_capacity = 0 THEN 1 ELSE m_capacity

\* The values every variable may take; the buffer stays within its room.
TypeOK ==
    /\ pc \in [Fiber -> Labels]
    /\ notified \in [Fiber -> BOOLEAN]
    /\ resumes \in [Fiber -> Nat]
    /\ toWake \in [Fiber -> Seq(Fiber)]
    /\ m_capacity \in Capacity
    /\ m_closed \in BOOLEAN
    /\ m_buffer \in Seq(Value) /\ Len(m_buffer) <= Room
    /\ m_senderWaiters \in Seq(Fiber)
    /\ m_receiverWaiters \in Seq(Fiber)
    /\ op \in [Fiber -> {"send", "recv"}]
    /\ val \in [Fiber -> Value]
    /\ ret \in [Fiber -> {"pending", "true", "false"}]

Queued == ToSet(m_senderWaiters) \cup ToSet(m_receiverWaiters)

\* The fibers inside send(), respectively recv(), that will run its locked
\* block again without being popped first.
InFlight(o) == {f \in Fiber : op[f] = o /\ ret[f] = "pending" /\ f \notin Queued}

\* A wakeup per value and per place is enough although anybody may take them.
\* No receiver sleeps on a value and no sender on free room: while fibers are
\* queued, every buffered value, respectively every free place, has a fiber on
\* its way to it that was woken or has just come.
NobodyStranded ==
    /\ m_receiverWaiters # <<>> => Len(m_buffer) <= Cardinality(InFlight("recv"))
    /\ m_capacity > 0 /\ m_senderWaiters # <<>> =>
           m_capacity - Len(m_buffer) <= Cardinality(InFlight("send"))

\* On a synchronous channel a queued sender and a queued receiver are never
\* left facing each other: a value or a sender is on its way.  And a value that
\* was accepted has a receiver inside recv() that will take it, though the one
\* it was meant for may be overtaken.
RendezvousNotMissed ==
    m_capacity = 0 =>
        /\ m_senderWaiters # <<>> /\ m_receiverWaiters # <<>> =>
               m_buffer # <<>> \/ InFlight("send") # {}
        /\ m_buffer # <<>> => InFlight("recv") # {}

\* The channel is a FIFO queue on which every call takes effect at most once.
Fifo == INSTANCE FifoChannel WITH
    Client <- Fiber,
    queue <- m_buffer,
    closed <- m_closed,
    room <- Room

\* Waiting, waking up in vain and trying again are invisible: no value is
\* lost, duplicated, reordered, or refused after it was put.
ImplementsFifoChannel == Fifo!Spec

\* After close() every pending call returns.
CloseReleasesAll ==
    \A f \in Fiber : m_closed /\ ret[f] = "pending" ~> ret[f] # "pending"

\* All fibers are inside the channel's operations, senders and receivers
\* among them.
BothSidesBlocked ==
    /\ \A f \in Fiber : ret[f] = "pending"
    /\ {op[f] : f \in Fiber} = {"send", "recv"}

\* Then one of the operations completes.
SomeoneProceeds == BothSidesBlocked ~> ~BothSidesBlocked
=============================================================================
