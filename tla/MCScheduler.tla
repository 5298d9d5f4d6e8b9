---------------------------- MODULE MCScheduler ----------------------------
(* Scheduler for TLC: budgets of user code. *)
EXTENDS Scheduler

\* Under FIFO, fiber tasks that wait, are notified and reschedule themselves;
\* under MLFQ the same beside callbacks that do not yield.
FibersOrMixed ==
    [FIFO |-> [fibers |-> 2, callbacks |-> 0, waits |-> 2, yields |-> 1],
     MLFQ |-> [fibers |-> 1, callbacks |-> 2, waits |-> 1, yields |-> 1]]

\* Callbacks that wait for one another.
WaitingCallbacks == [FIFO |-> [fibers |-> 0, callbacks |-> 3, waits |-> 1, yields |-> 0]]

\* Callbacks that reschedule themselves.
YieldingCallbacks == [FIFO |-> [fibers |-> 0, callbacks |-> 3, waits |-> 0, yields |-> 1]]
=============================================================================
