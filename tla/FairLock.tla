------------------------------ MODULE FairLock ------------------------------
(***************************************************************************)
(* What a CoMutex promises its users, with no waiters, flags or tasks: one *)
(* holder at a time, and the lock passes to the clients that had to wait   *)
(* in the order they asked, nobody getting in between.                     *)
(***************************************************************************)
EXTENDS Naturals, Sequences

CONSTANTS Client, Nobody

VARIABLES
    holder,     \* the client the lock belongs to, or Nobody
    queue,      \* the clients that wait for it
    phase       \* [Client -> {"outside", "waiting", "inside"}]

lockVars == <<holder, queue, phase>>

Init ==
    /\ holder = Nobody
    /\ queue = <<>>
    /\ phase = [c \in Client |-> "outside"]

Acquire(c) ==
    /\ phase[c] = "outside"
    /\ holder = Nobody
    /\ holder' = c
    /\ phase' = [phase EXCEPT ![c] = "inside"]
    /\ UNCHANGED queue

Enqueue(c) ==
    /\ phase[c] = "outside"
    /\ holder # Nobody
    /\ queue' = Append(queue, c)
    /\ phase' = [phase EXCEPT ![c] = "waiting"]
    /\ UNCHANGED holder

\* A client that was given the lock while it waited gets to know.
Enter(c) ==
    /\ phase[c] = "waiting"
    /\ holder = c
    /\ phase' = [phase EXCEPT ![c] = "inside"]
    /\ UNCHANGED <<holder, queue>>

Release(c) ==
    /\ phase[c] = "inside"
    /\ phase' = [phase EXCEPT ![c] = "outside"]
    /\ \/ /\ queue = <<>>
          /\ holder' = Nobody
          /\ UNCHANGED queue
       \/ /\ queue # <<>>
          /\ holder' = Head(queue)
          /\ queue' = Tail(queue)

Next == \E c \in Client : Acquire(c) \/ Enqueue(c) \/ Enter(c) \/ Release(c)

Spec == Init /\ [][Next]_lockVars
=============================================================================
