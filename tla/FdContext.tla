----------------------------- MODULE FdContext -----------------------------
(***************************************************************************)
(* The descriptor contexts of IOManager (src/iomanager.cpp): which events  *)
(* of a descriptor are registered, who is to be scheduled for each, and    *)
(* what epoll has been told to watch.  Every operator is one critical      *)
(* section of FdContext::mutex; a module that uses it puts the handlers    *)
(* an operation triggers into its task queue.  stopping() reads the count  *)
(* without that mutex.  It may still find an event in it whose handler has *)
(* been queued, and says no then, as it would because of the queue; or,    *)
(* while cancelEvent runs, miss one whose handler is not queued yet, and   *)
(* says no because of its caller: a task that is still active, or the main *)
(* thread, which has not called stop().                                    *)
(*                                                                         *)
(* isOpen says whether the descriptor is open in the kernel, and ready     *)
(* what it is ready for: epoll_ctl makes epoll report that again.          *)
(*                                                                         *)
(* Descriptors are below the initial size of m_fdContexts, so no operation *)
(* has to resize the table.                                                *)
(***************************************************************************)
EXTENDS Integers, FiniteSets, SequencesExt

CONSTANTS
    Fd,         \* descriptors
    Handler,    \* fibers and callbacks an event may be registered for
    None

READ == "READ"
WRITE == "WRITE"
HUP == "HUP"            \* EPOLLHUP or EPOLLERR
Event == {READ, WRITE}

VARIABLES
    events,     \* [Fd -> SUBSET Event]: FdContext::events
    ctx,        \* [Fd -> [Event -> Handler or None]]: the event contexts
    interest,   \* [Fd -> SUBSET Event] epoll watches; {}: not in epoll
    edge,       \* [Fd -> SUBSET (Event \cup {HUP})]: epoll's ready list
    m_pendingEventCount

fdVars == <<events, ctx, interest, edge, m_pendingEventCount>>

FdTypeOK ==
    /\ events \in [Fd -> SUBSET Event]
    /\ ctx \in [Fd -> [Event -> Handler \cup {None}]]
    /\ interest \in [Fd -> SUBSET Event]
    /\ edge \in [Fd -> SUBSET (Event \cup {HUP})]
    /\ m_pendingEventCount \in Nat

FdInit ==
    /\ events = [fd \in Fd |-> {}]
    /\ ctx = [fd \in Fd |-> [e \in Event |-> None]]
    /\ interest = [fd \in Fd |-> {}]
    /\ edge = [fd \in Fd |-> {}]
    /\ m_pendingEventCount = 0

\* epoll_ctl: ADD refuses a descriptor it has, MOD and DEL one it has not,
\* and all of them one that is not open.
CtlSucceeds(fd, add, isOpen) == isOpen /\ (add <=> interest[fd] = {})

\* A successful epoll_ctl, edge triggered: what is ready is reported once more, and
\* what is no longer watched not at all.
Watch(fd, evs, ready) ==
    /\ interest' = [interest EXCEPT ![fd] = evs]
    /\ edge' = [edge EXCEPT ![fd] =
                   IF evs = {} THEN {} ELSE (@ \cap (evs \cup {HUP})) \cup (evs \cap ready)]

\* A watched descriptor becomes ready; HUP needs no interest.
BecomesReady(fd, e) ==
    /\ interest[fd] # {}
    /\ e \in interest[fd] \cup {HUP}
    /\ edge' = [edge EXCEPT ![fd] = @ \cup {e}]
    /\ UNCHANGED <<events, ctx, interest, m_pendingEventCount>>

\* addEvent, when it returns true and when it returns false.
AddEvent(fd, ev, h, isOpen, ready) ==
    /\ ev \notin events[fd]
    /\ CtlSucceeds(fd, events[fd] = {}, isOpen)
    /\ Watch(fd, events[fd] \cup {ev}, ready)
    /\ m_pendingEventCount' = m_pendingEventCount + 1
    /\ events' = [events EXCEPT ![fd] = @ \cup {ev}]
    /\ ctx' = [ctx EXCEPT ![fd][ev] = h]

AddEventRefused(fd, ev, isOpen) ==
    \/ ev \in events[fd]
    \/ ~CtlSucceeds(fd, events[fd] = {}, isOpen)

\* The handlers of evs in the order they are triggered.
Handlers(fd, evs) ==
    LET triggered(e) == IF e \in evs THEN <<ctx[fd][e]>> ELSE <<>>
    IN  triggered(READ) \o triggered(WRITE)

\* Mutant: the contexts are not reset.
UnregisterKeepsContext(fd, evs) ==
    /\ events' = [events EXCEPT ![fd] = @ \ evs]
    /\ m_pendingEventCount' = m_pendingEventCount - Cardinality(evs)
    /\ UNCHANGED ctx

\* Mutant: triggered, but still registered.
UnregisterKeepsBits(fd, evs) ==
    /\ m_pendingEventCount' = m_pendingEventCount - Cardinality(evs)
    /\ UNCHANGED <<events, ctx>>

\* The registrations evs end: bits cleared, contexts reset, count lowered.
Unregister(fd, evs) ==
    /\ events' = [events EXCEPT ![fd] = @ \ evs]
    /\ ctx' = [ctx EXCEPT ![fd] = [e \in Event |-> IF e \in evs THEN None ELSE @[e]]]
    /\ m_pendingEventCount' = m_pendingEventCount - Cardinality(evs)

\* Of delEvent, and of cancelEvent, which also schedules Handlers(fd, {ev}).
RemoveEvent(fd, ev, isOpen, ready) ==
    /\ ev \in events[fd]
    /\ CtlSucceeds(fd, FALSE, isOpen)
    /\ Watch(fd, events[fd] \ {ev}, ready)
    /\ Unregister(fd, {ev})

RemoveEventRefused(fd, ev, isOpen) ==
    ev \notin events[fd] \/ ~CtlSucceeds(fd, FALSE, isOpen)

\* Mutant: cancelAll leaves the count to its caller.
RemoveAllKeepsCount(fd, isOpen) ==
    /\ events[fd] # {}
    /\ CtlSucceeds(fd, FALSE, isOpen)
    /\ Watch(fd, {}, {})
    /\ events' = [events EXCEPT ![fd] = {}]
    /\ ctx' = [ctx EXCEPT ![fd] = [e \in Event |-> None]]
    /\ UNCHANGED m_pendingEventCount

\* Of cancelAll, which also schedules Handlers(fd, events[fd]).
RemoveAll(fd, isOpen) ==
    /\ events[fd] # {}
    /\ CtlSucceeds(fd, FALSE, isOpen)
    /\ Watch(fd, {}, {})
    /\ Unregister(fd, events[fd])

RemoveAllRefused(fd, isOpen) ==
    events[fd] = {} \/ ~CtlSucceeds(fd, FALSE, isOpen)

\* idle(): what a report of epoll_wait stands for when it is handled.  An error
\* counts as whatever is registered; IN and OUT count as they were reported.
RealEvents(fd, reported) ==
    (reported \cap Event) \cup (IF HUP \in reported THEN events[fd] ELSE {})

\* Mutant: a report is skipped unless it is of all that is registered.
ReportSkippedUnlessAll(fd, reported, isOpen) ==
    \/ events[fd] # RealEvents(fd, reported)
    \/ ~CtlSucceeds(fd, FALSE, isOpen)

\* A report that concerns nothing registered, or whose epoll_ctl fails.
ReportSkipped(fd, reported, isOpen) ==
    \/ events[fd] \cap RealEvents(fd, reported) = {}
    \/ ~CtlSucceeds(fd, FALSE, isOpen)

\* Mutant: the descriptor is always taken out of epoll.
DispatchDeletes(fd, reported, isOpen, ready) ==
    LET real == RealEvents(fd, reported) IN
    /\ events[fd] \cap real # {}
    /\ real \subseteq events[fd]
    /\ CtlSucceeds(fd, FALSE, isOpen)
    /\ Watch(fd, {}, {})
    /\ Unregister(fd, real)

\* A report handled: real events are triggered, each of which has to be registered
\* still, and the others are watched on.  A report of both events one of which is gone
\* has no step: the assertion of triggerEvent fails, and without assertions the
\* scheduler of an empty context is called; either ends the process.
Dispatch(fd, reported, isOpen, ready) ==
    LET real == RealEvents(fd, reported) IN
    /\ events[fd] \cap real # {}
    /\ real \subseteq events[fd]
    /\ CtlSucceeds(fd, FALSE, isOpen)
    /\ Watch(fd, events[fd] \ real, ready)
    /\ Unregister(fd, real)
=============================================================================
