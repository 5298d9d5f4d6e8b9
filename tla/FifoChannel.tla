---------------------------- MODULE FifoChannel ----------------------------
(***************************************************************************)
(* What a Channel promises: every send() and recv() takes effect once, in  *)
(* one step between its call and its return, on one queue of values; a     *)
(* send() that reports success has put its value, one that reports failure *)
(* has not; a closed channel takes no more values and is still drained.    *)
(***************************************************************************)
EXTENDS Naturals, Sequences

CONSTANTS Client, Value

VARIABLES
    room,       \* how many values the queue may hold
    queue,
    closed,
    op,         \* [Client -> {"send", "recv"}]: its current or last call
    val,        \* [Client -> Value]: what it sends or has received
    ret         \* [Client -> {"pending", "true", "false"}]: the result

channelVars == <<room, queue, closed, op, val, ret>>

Init ==
    /\ room \in Nat \ {0}
    /\ queue = <<>>
    /\ closed = FALSE
    /\ op \in [Client -> {"send", "recv"}]
    /\ val \in [Client -> Value]
    /\ ret = [c \in Client |-> "false"]

Call(c, o, v) ==
    /\ ret[c] # "pending"
    /\ ret' = [ret EXCEPT ![c] = "pending"]
    /\ op' = [op EXCEPT ![c] = o]
    /\ val' = [val EXCEPT ![c] = v]
    /\ UNCHANGED <<room, queue, closed>>

Put(c) ==
    /\ op[c] = "send" /\ ret[c] = "pending"
    /\ ~closed
    /\ Len(queue) < room
    /\ queue' = Append(queue, val[c])
    /\ ret' = [ret EXCEPT ![c] = "true"]
    /\ UNCHANGED <<room, closed, op, val>>

Get(c) ==
    /\ op[c] = "recv" /\ ret[c] = "pending"
    /\ queue # <<>>
    /\ val' = [val EXCEPT ![c] = Head(queue)]
    /\ queue' = Tail(queue)
    /\ ret' = [ret EXCEPT ![c] = "true"]
    /\ UNCHANGED <<room, closed, op>>

\* The channel is closed, and for a receiver also drained.
Fail(c) ==
    /\ ret[c] = "pending"
    /\ closed
    /\ op[c] = "recv" => queue = <<>>
    /\ ret' = [ret EXCEPT ![c] = "false"]
    /\ UNCHANGED <<room, queue, closed, op, val>>

Close ==
    /\ closed' = TRUE
    /\ UNCHANGED <<room, queue, op, val, ret>>

Next ==
    \/ \E c \in Client :
           \/ \E o \in {"send", "recv"}, v \in Value : Call(c, o, v)
           \/ Put(c)
           \/ Get(c)
           \/ Fail(c)
    \/ Close

Spec == Init /\ [][Next]_channelVars
=============================================================================
