---------------------------- MODULE TimerManager ----------------------------
(***************************************************************************)
(* Timer and TimerManager (src/timer.cpp).  Every operator is one critical *)
(* section of TimerManager::m_mutex, except the computation of reset()     *)
(* between its two; the user of this module says which thread is where.    *)
(*                                                                         *)
(* Time is what is left until a deadline, counted down by a tick, up to    *)
(* MaxMs.  The system clock does not jump back by more than an hour, so    *)
(* detectClockRollover() finds nothing.                                    *)
(***************************************************************************)
EXTENDS Integers, FiniteSets

CONSTANTS
    Timer,
    Recurring,  \* timers added with recurring = true
    MaxMs       \* bound: the longest period

VARIABLES
    m_timers,   \* SUBSET Timer: the heap
    m_next,     \* [Timer -> 0 .. MaxMs]: what is left until m_next
    m_ms,       \* [Timer -> 0 .. MaxMs]: the period
    m_cb,       \* [Timer -> whether m_cb is not null]
    m_tickled,
    phase       \* history, [Timer -> "free", "armed", "over"]: not yet added, added,
                \* and expired (once) or cancelled with result true

timerVars == <<m_timers, m_next, m_ms, m_cb, m_tickled, phase>>

\* A recurring timer of 0 ms is left out: it is due again as soon as it is back in the
\* heap, and listExpiredCb would take it out for ever.
Period == 0 .. MaxMs
Periodic(t, ms) == t \in Recurring => ms > 0

TimerTypeOK ==
    /\ m_timers \subseteq Timer
    /\ m_next \in [Timer -> 0 .. MaxMs]
    /\ m_ms \in [Timer -> 0 .. MaxMs]
    /\ m_cb \in [Timer -> BOOLEAN]
    /\ m_tickled \in BOOLEAN
    /\ phase \in [Timer -> {"free", "armed", "over"}]

\* The timers of S have been added, the others not yet.
TimerInit(S) ==
    /\ m_timers = S
    /\ m_ms \in {ms \in [Timer -> Period] :
                  \A t \in Timer : IF t \in S THEN Periodic(t, ms[t]) ELSE ms[t] = 0}
    /\ m_next = m_ms
    /\ m_cb = [t \in Timer |-> t \in S]
    /\ m_tickled = (S # {})
    /\ phase = [t \in Timer |-> IF t \in S THEN "armed" ELSE "free"]

\* A millisecond passes for every timer.
TimersAge == m_next' = [t \in Timer |-> IF m_next[t] > 0 THEN m_next[t] - 1 ELSE 0]

\* Whether a timer with deadline next may be the first of the heap; timers with
\* the same deadline are ordered by address, either way.
First(t, next) == \A u \in m_timers \ {t} : next <= m_next[u]
NotFirst(t, next) == \E u \in m_timers \ {t} : m_next[u] <= next

\* addTimer(shared_ptr): true to the caller as atFront when it has to tickle.
Insert(t, next, atFront) ==
    /\ atFront => First(t, next) /\ ~m_tickled
    /\ ~atFront => NotFirst(t, next) \/ m_tickled
    /\ m_timers' = m_timers \cup {t}
    /\ m_tickled' = (m_tickled \/ atFront)

\* addTimer(ms, cb, recurring).
AddTimer(t, ms, atFront) ==
    /\ phase[t] = "free" /\ Periodic(t, ms)
    /\ Insert(t, ms, atFront)
    /\ m_next' = [m_next EXCEPT ![t] = ms]
    /\ m_ms' = [m_ms EXCEPT ![t] = ms]
    /\ m_cb' = [m_cb EXCEPT ![t] = TRUE]
    /\ phase' = [phase EXCEPT ![t] = "armed"]

\* Mutant: cancel() clears the callback only of a timer it finds in the heap.
CancelTimerInHeap(t) ==
    /\ m_cb[t]
    /\ m_cb' = [m_cb EXCEPT ![t] = t \notin m_timers]
    /\ m_timers' = m_timers \ {t}
    /\ phase' = [phase EXCEPT ![t] = "over"]
    /\ UNCHANGED <<m_next, m_ms, m_tickled>>

\* cancel() == true; it returns false when there is no callback.
CancelTimer(t) ==
    /\ m_cb[t]
    /\ m_cb' = [m_cb EXCEPT ![t] = FALSE]
    /\ m_timers' = m_timers \ {t}
    /\ phase' = [phase EXCEPT ![t] = "over"]
    /\ UNCHANGED <<m_next, m_ms, m_tickled>>

\* refresh() == true.
RefreshTimer(t) ==
    /\ m_cb[t] /\ t \in m_timers
    /\ m_next' = [m_next EXCEPT ![t] = m_ms[t]]
    /\ UNCHANGED <<m_timers, m_ms, m_cb, m_tickled, phase>>

\* reset(ms, from_now): the timer leaves the heap ...
ResetTakesOut(t, ms, fromNow) ==
    /\ ms # m_ms[t] \/ fromNow
    /\ Periodic(t, ms)
    /\ m_cb[t] /\ t \in m_timers
    /\ m_timers' = m_timers \ {t}
    /\ UNCHANGED <<m_next, m_ms, m_cb, m_tickled, phase>>

\* ... and enters it again, as addTimer does, with its new deadline.
ResetPutsBack(t, ms, fromNow, atFront) ==
    LET shifted == m_next[t] - m_ms[t] + ms
        next == IF fromNow THEN ms ELSE IF shifted > 0 THEN shifted ELSE 0
    IN  /\ Insert(t, next, atFront)
        /\ m_next' = [m_next EXCEPT ![t] = next]
        /\ m_ms' = [m_ms EXCEPT ![t] = ms]
        /\ UNCHANGED <<m_cb, phase>>

\* getNextTimer(): the wait until the first deadline, at most limit.
Earliest(limit) ==
    IF \E t \in m_timers : m_next[t] < limit
    THEN CHOOSE n \in 0 .. MaxMs :
            /\ \E t \in m_timers : m_next[t] = n
            /\ \A t \in m_timers : n <= m_next[t]
    ELSE limit

\* Mutant: getNextTimer() leaves the flag.
QueryLeavesTickled == UNCHANGED timerVars

\* Its effect.
QueryNextTimer ==
    /\ m_tickled' = FALSE
    /\ UNCHANGED <<m_timers, m_next, m_ms, m_cb, phase>>

\* listExpiredCb(): the timers it takes from the heap, and those of them whose
\* callback goes into cbs (an empty one is dropped when it is scheduled).
Expired == {t \in m_timers : m_next[t] = 0}
ExpiredCallbacks == {t \in Expired : m_cb[t]}

\* Mutant: a recurring timer is not put back.
ListExpiredForgetsRecurring ==
    /\ m_timers' = m_timers \ Expired
    /\ m_next' = [t \in Timer |-> IF t \in Expired \cap Recurring THEN m_ms[t] ELSE m_next[t]]
    /\ m_cb' = [t \in Timer |-> m_cb[t] /\ t \notin Expired \ Recurring]
    /\ phase' = [t \in Timer |-> IF t \in ExpiredCallbacks \ Recurring THEN "over" ELSE phase[t]]
    /\ UNCHANGED <<m_ms, m_tickled>>

\* Its effect: a recurring timer is back with a new deadline, another has no callback.
ListExpired ==
    /\ m_timers' = m_timers \ (Expired \ Recurring)
    /\ m_next' = [t \in Timer |-> IF t \in Expired \cap Recurring THEN m_ms[t] ELSE m_next[t]]
    /\ m_cb' = [t \in Timer |-> m_cb[t] /\ t \notin Expired \ Recurring]
    /\ phase' = [t \in Timer |-> IF t \in ExpiredCallbacks \ Recurring THEN "over" ELSE phase[t]]
    /\ UNCHANGED <<m_ms, m_tickled>>
=============================================================================
