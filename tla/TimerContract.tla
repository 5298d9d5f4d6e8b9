--------------------------- MODULE TimerContract ---------------------------
(***************************************************************************)
(* What a TimerManager promises to those who use it (timer.h), whatever    *)
(* the heap, the clock and the threads do: the callback of a timer is      *)
(* handed out only while the timer is armed, a timer that does not recur   *)
(* hands it out once, and after cancel() returned true never again.        *)
(***************************************************************************)
CONSTANTS
    Timer,
    Recurring   \* the timers added with recurring = true

VARIABLES
    phase,      \* [Timer -> "free", "armed", "over"]
    handed      \* timers whose callback is handed out and has not yet run

contractVars == <<phase, handed>>

ContractInit ==
    /\ phase \in [Timer -> {"free", "armed"}]
    /\ handed = {}

\* addTimer makes a Timer object; t may have stood for one that is done with.
ArmTimer(t) ==
    /\ phase[t] # "armed" /\ t \notin handed
    /\ phase' = [phase EXCEPT ![t] = "armed"]
    /\ UNCHANGED handed

\* The timers of S expire together.
ExpireTimers(S) ==
    /\ S # {} /\ \A t \in S : phase[t] = "armed"
    /\ phase' = [t \in Timer |-> IF t \in S \ Recurring THEN "over" ELSE phase[t]]
    /\ handed' = handed \cup S

\* cancel() returns true.
CancelArmed(t) ==
    /\ phase[t] = "armed"
    /\ phase' = [phase EXCEPT ![t] = "over"]
    /\ UNCHANGED handed

\* The callback runs.
CallbackRuns(t) ==
    /\ t \in handed
    /\ handed' = handed \ {t}
    /\ UNCHANGED phase

ContractNext ==
    \/ \E t \in Timer : ArmTimer(t) \/ CancelArmed(t) \/ CallbackRuns(t)
    \/ \E S \in SUBSET Timer : ExpireTimers(S)

ContractSpec == ContractInit /\ [][ContractNext]_contractVars
=============================================================================
