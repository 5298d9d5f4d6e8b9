--------------------------- MODULE PrivateStacks ---------------------------
(***************************************************************************)
(* What fibers take for granted: one runs at a time, each has a stack of   *)
(* its own, and what it left there is there when it runs again.            *)
(***************************************************************************)
EXTENDS Naturals, Sequences

CONSTANTS Fiber, Main, Local, Base

VARIABLES
    running,    \* the fiber that runs, or Main, the thread's own code
    frames      \* [Fiber -> Seq]: its stack, from the outermost call

stackVars == <<running, frames>>

Init ==
    /\ running = Main
    /\ frames = [f \in Fiber |-> <<Base>>]

Switch(f) ==
    /\ running' = f
    /\ UNCHANGED frames

Push(f, v) ==
    /\ running = f
    /\ frames' = [frames EXCEPT ![f] = Append(@, v)]
    /\ UNCHANGED running

Pop(f) ==
    /\ running = f
    /\ Len(frames[f]) > 1
    /\ frames' = [frames EXCEPT ![f] = SubSeq(@, 1, Len(@) - 1)]
    /\ UNCHANGED running

Next ==
    \/ \E f \in Fiber \cup {Main} : Switch(f)
    \/ \E f \in Fiber : Pop(f) \/ \E v \in Local : Push(f, v)

Spec == Init /\ [][Next]_stackVars
=============================================================================
