------------------------------ MODULE HookedIO ------------------------------
(***************************************************************************)
(* The hooked system calls (src/hook.cpp) of fibers on the workers of one  *)
(* IOManager, with the contexts FdManager keeps of the descriptors         *)
(* (src/fd_manager.cpp).                                                   *)
(*                                                                         *)
(* A call that would block arms a timer, registers its event, yields, and  *)
(* tries again when it is resumed: by the event, by the timer, whose       *)
(* callback cancels the event, or by close().  These steps interleave with *)
(* those of every other fiber; there is always a worker to run one.        *)
(* Timers keep TimerContract, which IOManager is checked against; when one *)
(* fires is open.                                                          *)
(*                                                                         *)
(* The scheduler is FIFO.  Under MLFQ it queues again each fiber that      *)
(* leaves its worker READY: a fiber that yields in do_io or in sleep is    *)
(* then resumed with nothing done, and the addEvent of its second try is   *)
(* refused.  What follows is not about that.                               *)
(*                                                                         *)
(* Outside: the kernel's sockets, and epoll, which reports the events of a *)
(* descriptor one at a time.  Descriptors are sockets in blocking mode as  *)
(* far as the user is concerned.                                           *)
(***************************************************************************)
EXTENDS FdContext, TimerContract

CONSTANTS
    Fiber,
    Opened,     \* sockets made before, with their timeouts: [fds -> SUBSET Event]
    Budget      \* bounds: [calls, arrivals] of user code and of the peers

VARIABLES
    owner,      \* [Timer -> the fiber whose call it belongs to, None once that returned]
    goal,       \* [Timer -> what its callback cancels (fd, event), or None: it resumes]
    firing,     \* timers whose callback is between its flag and cancelEvent
    pc,         \* [Fiber -> point of the call it is in]
    call,       \* [Fiber -> [fd, ev, timed, connect] of the call it is in]
    cancelled,  \* [Fiber -> timer_info::cancelled of that call is ETIMEDOUT]
    tasks,      \* [Fiber -> tasks for it in the scheduler's queue]
    held,       \* SUBSET (Fd \X Event): reported by epoll, not yet handled
    open,       \* SUBSET Fd: open in the kernel
    avail,      \* [Fd -> SUBSET Event]: what would not block
    fdCtx,      \* [Fd -> "none", "open", "closed"]: FdManager's context, its m_isClosed
    timed,      \* [Fd -> SUBSET Event]: directions a timeout is set for
    left        \* what is left of Budget

handlerVars == <<owner, goal, firing>>
callVars == <<pc, call, cancelled>>
kernelVars == <<open, avail>>
vars == <<fdVars, contractVars, handlerVars, callVars, tasks, held, kernelVars, fdCtx,
          timed, left>>

ASSUME HookedIOAssumption ==
    /\ Handler = Fiber /\ None \notin Fiber \cup Timer \cup (Fd \X Event)
    /\ IsFiniteSet(Fd)
    /\ Recurring = {}   \* the hooks add no recurring timer
    /\ DOMAIN Opened \subseteq Fd /\ Opened \in [DOMAIN Opened -> SUBSET Event]
    /\ Budget.calls \in Nat /\ Budget.arrivals \in Nat

Init ==
    /\ FdInit /\ phase = [t \in Timer |-> "free"] /\ handed = {}
    /\ owner = [t \in Timer |-> None]
    /\ goal = [t \in Timer |-> None]
    /\ firing = {}
    /\ pc = [f \in Fiber |-> "user"]
    /\ call = [f \in Fiber |-> None]
    /\ cancelled = [f \in Fiber |-> FALSE]
    /\ tasks = [f \in Fiber |-> 0]
    /\ held = {}
    /\ open = DOMAIN Opened
    /\ avail = [fd \in Fd |-> {}]
    /\ fdCtx = [fd \in Fd |-> IF fd \in open THEN "open" ELSE "none"]
    /\ timed = [fd \in Fd |-> IF fd \in open THEN Opened[fd] ELSE {}]
    /\ left = Budget

Goto(f, label) == pc' = [pc EXCEPT ![f] = label]

Spend(what) ==
    /\ left[what] > 0
    /\ left' = [left EXCEPT ![what] = @ - 1]

\* scheduleLock of the fibers in handlers.
Schedule(handlers) ==
    tasks' = [f \in Fiber |-> tasks[f] + Cardinality({i \in DOMAIN handlers : handlers[i] = f})]

\* The call of f returns; its timer_info goes with it.
Return(f) ==
    /\ Goto(f, "user")
    /\ call' = [call EXCEPT ![f] = None]
    /\ cancelled' = [cancelled EXCEPT ![f] = FALSE]
    /\ owner' = [t \in Timer |-> IF owner[t] = f THEN None ELSE owner[t]]
    /\ UNCHANGED <<goal, firing>>

TimerOf(f) == {t \in Timer : owner[t] = f}

-----------------------------------------------------------------------------
(* socket, setsockopt, sleep and close.                                    *)

UserCall(f) == pc[f] = "user" /\ Spend("calls")

\* socket() and accept(): a free number, and a context for it (get(fd, true)).
Socket(f, fd) ==
    /\ UserCall(f)
    /\ fd \notin open
    /\ open' = open \cup {fd}
    /\ avail' = [avail EXCEPT ![fd] = {}]
    /\ fdCtx' = [fdCtx EXCEPT ![fd] = "open"]
    /\ timed' = [timed EXCEPT ![fd] = {}]
    /\ UNCHANGED <<fdVars, contractVars, handlerVars, callVars, tasks, held>>

\* setsockopt(SO_RCVTIMEO) sets the timeout of reads, SO_SNDTIMEO that of writes.
SetTimeout(f, fd, ev) ==
    /\ UserCall(f)
    /\ fdCtx[fd] # "none"
    /\ timed' = [timed EXCEPT ![fd] = @ \cup {ev}]
    /\ UNCHANGED <<fdVars, contractVars, handlerVars, callVars, tasks, held, kernelVars, fdCtx>>

\* sleep, usleep and nanosleep: a timer that resumes the fiber, and a yield.
Sleep(f) ==
    /\ UserCall(f)
    /\ \E t \in Timer \ firing :
          /\ ArmTimer(t)
          /\ owner' = [owner EXCEPT ![t] = f]
          /\ goal' = [goal EXCEPT ![t] = None]
    /\ Goto(f, "asleep")
    /\ UNCHANGED <<fdVars, firing, call, cancelled, tasks, held, kernelVars, fdCtx, timed>>

SleepEnds(f) ==
    /\ pc[f] = "asleep" /\ tasks[f] > 0
    /\ tasks' = [tasks EXCEPT ![f] = @ - 1]
    /\ Return(f)
    /\ UNCHANGED <<fdVars, contractVars, held, kernelVars, fdCtx, timed, left>>

\* close() of a socket, by one fiber: its context is marked, ...
Close(f, fd) ==
    /\ UserCall(f)
    /\ fdCtx[fd] = "open"
    /\ call' = [call EXCEPT ![f] = [fd |-> fd, ev |-> None, timed |-> FALSE, connect |-> FALSE]]
    /\ fdCtx' = [fdCtx EXCEPT ![fd] = "closed"]
    /\ Goto(f, "cancelAll")
    /\ UNCHANGED <<fdVars, contractVars, handlerVars, cancelled, tasks, held, kernelVars, timed>>

\* ... every event is cancelled, ...
CloseCancelsAll(f) ==
    LET fd == call[f].fd IN
    /\ pc[f] = "cancelAll"
    /\ Goto(f, "closing")
    /\ \/ RemoveAllRefused(fd, fd \in open) /\ UNCHANGED <<fdVars, tasks>>
       \/ RemoveAll(fd, fd \in open) /\ Schedule(Handlers(fd, events[fd]))
    /\ UNCHANGED <<contractVars, handlerVars, call, cancelled, held, kernelVars, fdCtx, timed, left>>

\* ... and FdManager forgets the context before the kernel closes the descriptor, which
\* leaves epoll with that.  Who calls in between finds no context, and so makes the plain
\* system call, or does nothing; the number is not free yet.  Thus one step.
CloseEnds(f) ==
    LET fd == call[f].fd IN
    /\ pc[f] = "closing"
    /\ fdCtx' = [fdCtx EXCEPT ![fd] = "none"]
    /\ open' = open \ {fd}
    /\ interest' = [interest EXCEPT ![fd] = {}]
    /\ edge' = [edge EXCEPT ![fd] = {}]
    /\ Return(f)
    /\ UNCHANGED <<events, ctx, m_pendingEventCount, contractVars, tasks, held, avail, timed, left>>

-----------------------------------------------------------------------------
(* do_io, and connect_with_timeout, which tries once.                      *)

\* With a context that is not closed, a call begins; otherwise it fails, or is the
\* plain system call, which a fiber does not wait in, and nothing changes.
Enter(f, fd, ev, isTimed, connect) ==
    /\ UserCall(f)
    /\ fdCtx[fd] = "open"
    /\ call' = [call EXCEPT ![f] =
                   [fd |-> fd, ev |-> ev, timed |-> isTimed, connect |-> connect]]
    /\ Goto(f, "try")
    /\ UNCHANGED <<fdVars, contractVars, handlerVars, cancelled, tasks, held, kernelVars,
                   fdCtx, timed>>

\* read, recv, accept, write, send and their like, with the descriptor's timeout.
DoIO(f, fd, ev) == Enter(f, fd, ev, ev \in timed[fd], FALSE)

\* connect, and connect_with_timeout with the caller's timeout.
Connect(f, fd) == \E isTimed \in BOOLEAN : Enter(f, fd, WRITE, isTimed, TRUE)

\* The system call succeeds or fails, and the call returns.
Try(f) ==
    LET fd == call[f].fd  ev == call[f].ev IN
    /\ pc[f] = "try"
    /\ fd \notin open \/ ev \in avail[fd]
    /\ avail' = [avail EXCEPT ![fd] = @ \ {ev}]
    /\ Return(f)
    /\ UNCHANGED <<fdVars, contractVars, tasks, held, open, fdCtx, timed, left>>

\* It would block (EAGAIN, EINPROGRESS): addConditionTimer, if there is a timeout.
WouldBlock(f) ==
    LET fd == call[f].fd  ev == call[f].ev IN
    /\ pc[f] = "try"
    /\ fd \in open /\ ev \notin avail[fd]
    /\ Goto(f, "add")
    /\ IF call[f].timed
       THEN \E t \in Timer \ firing :
                /\ ArmTimer(t)
                /\ owner' = [owner EXCEPT ![t] = f]
                /\ goal' = [goal EXCEPT ![t] = <<fd, ev>>]
       ELSE UNCHANGED <<contractVars, owner, goal>>
    /\ UNCHANGED <<fdVars, firing, call, cancelled, tasks, held, kernelVars, fdCtx, timed, left>>

\* addEvent for the current fiber, and the yield; or the way out if it fails.
Register(f) ==
    LET fd == call[f].fd IN
    /\ pc[f] = "add"
    /\ \/ AddEvent(fd, call[f].ev, f, fd \in open, avail[fd]) /\ Goto(f, "parked")
       \/ /\ AddEventRefused(fd, call[f].ev, fd \in open) /\ Goto(f, "refused")
          /\ UNCHANGED fdVars
    /\ UNCHANGED <<contractVars, handlerVars, call, cancelled, tasks, held, kernelVars, fdCtx, timed, left>>

\* A worker resumes the fiber for a task it has, which under FIFO someone posted for it.
Resumed(f) ==
    /\ pc[f] = "parked" /\ tasks[f] > 0
    /\ tasks' = [tasks EXCEPT ![f] = @ - 1]
    /\ Goto(f, "resumed")
    /\ UNCHANGED <<fdVars, contractVars, handlerVars, call, cancelled, held, kernelVars, fdCtx, timed, left>>

\* timer->cancel(), of a timer that may have fired already.
CancelTimeout(f) ==
    IF \E t \in TimerOf(f) : phase[t] = "armed"
    THEN \E t \in TimerOf(f) : CancelArmed(t)
    ELSE UNCHANGED contractVars

\* Mutant: a call whose addEvent fails returns without it.
RefusedKeepsTimer(f) ==
    /\ pc[f] = "refused"
    /\ Return(f)
    /\ UNCHANGED <<fdVars, contractVars, tasks, held, kernelVars, fdCtx, timed, left>>

\* addEvent failed: -1.
Refused(f) ==
    /\ pc[f] = "refused"
    /\ CancelTimeout(f)
    /\ Return(f)
    /\ UNCHANGED <<fdVars, tasks, held, kernelVars, fdCtx, timed, left>>

StopTimer(f) ==
    /\ pc[f] = "resumed"
    /\ CancelTimeout(f)
    /\ Goto(f, "check")
    /\ UNCHANGED <<fdVars, handlerVars, call, cancelled, tasks, held, kernelVars, fdCtx, timed, left>>

\* ETIMEDOUT, or once more; connect asks for SO_ERROR instead.
Check(f) ==
    /\ pc[f] = "check"
    /\ IF cancelled[f] \/ call[f].connect
       THEN Return(f)
       ELSE Goto(f, "try") /\ UNCHANGED <<call, cancelled, handlerVars>>
    /\ UNCHANGED <<fdVars, contractVars, tasks, held, kernelVars, fdCtx, timed, left>>

-----------------------------------------------------------------------------
(* The timers' callbacks, epoll, and the world outside.                    *)

TimerExpires(t) ==
    /\ ExpireTimers({t})
    /\ UNCHANGED <<fdVars, handlerVars, callVars, tasks, held, kernelVars, fdCtx, timed, left>>

\* The callback of a sleep resumes the fiber.  That of a timeout finds the call over,
\* or timed out before, and ends; or it sets the flag and goes on to cancelEvent.
Callback(t) ==
    LET f == owner[t] IN
    /\ CallbackRuns(t)
    /\ IF f # None /\ goal[t] = None
       THEN tasks' = [tasks EXCEPT ![f] = @ + 1] /\ UNCHANGED <<cancelled, firing>>
       ELSE /\ IF f # None /\ ~cancelled[f]
               THEN cancelled' = [cancelled EXCEPT ![f] = TRUE] /\ firing' = firing \cup {t}
               ELSE UNCHANGED <<cancelled, firing>>
            /\ UNCHANGED tasks
    /\ UNCHANGED <<fdVars, owner, goal, pc, call, held, kernelVars, fdCtx, timed, left>>

\* Mutant: the flag is set, and the event left alone.
CallbackLeavesEvent(t) ==
    /\ t \in firing
    /\ firing' = firing \ {t}
    /\ UNCHANGED <<fdVars, contractVars, owner, goal, callVars, tasks, held, kernelVars, fdCtx, timed, left>>

\* cancelEvent of the callback, whoever's registration it meets by now.
CallbackCancels(t) ==
    LET fd == goal[t][1]  ev == goal[t][2] IN
    /\ t \in firing
    /\ firing' = firing \ {t}
    /\ \/ RemoveEventRefused(fd, ev, fd \in open) /\ UNCHANGED <<fdVars, tasks>>
       \/ RemoveEvent(fd, ev, fd \in open, avail[fd]) /\ Schedule(Handlers(fd, {ev}))
    /\ UNCHANGED <<contractVars, owner, goal, callVars, held, kernelVars, fdCtx, timed, left>>

\* Data or room arrives from the peer, and epoll finds it, if it watches for that.
Arrives(fd, ev) ==
    /\ fd \in open /\ ev \notin avail[fd]
    /\ Spend("arrivals")
    /\ avail' = [avail EXCEPT ![fd] = @ \cup {ev}]
    /\ \/ BecomesReady(fd, ev)
       \/ ev \notin interest[fd] /\ UNCHANGED fdVars
    /\ UNCHANGED <<contractVars, handlerVars, callVars, tasks, held, open, fdCtx, timed>>

\* Some worker's epoll_wait reports what was found, if it is still so, and only once, ...
EpollReturns(fd, ev) ==
    /\ ev \in edge[fd] /\ <<fd, ev>> \notin held
    /\ edge' = [edge EXCEPT ![fd] = @ \ {ev}]
    /\ held' = held \cup {r \in {<<fd, ev>>} : ev \in avail[fd]}
    /\ UNCHANGED <<events, ctx, interest, m_pendingEventCount, contractVars, handlerVars,
                   callVars, tasks, kernelVars, fdCtx, timed, left>>

\* ... and that worker handles the report, whatever has happened since.
HandleReport(fd, ev) ==
    /\ <<fd, ev>> \in held
    /\ held' = held \ {<<fd, ev>>}
    /\ \/ ReportSkipped(fd, {ev}, fd \in open) /\ UNCHANGED <<fdVars, tasks>>
       \/ Dispatch(fd, {ev}, fd \in open, avail[fd]) /\ Schedule(Handlers(fd, {ev}))
    /\ UNCHANGED <<contractVars, handlerVars, callVars, kernelVars, fdCtx, timed, left>>

\* What a fiber does on its own once it has called.
FiberNext(f) ==
    \/ SleepEnds(f) \/ CloseCancelsAll(f) \/ CloseEnds(f)
    \/ Try(f) \/ WouldBlock(f) \/ Register(f) \/ Resumed(f) \/ Refused(f) \/ StopTimer(f)
    \/ Check(f)

UserNext(f) ==
    \/ Sleep(f)
    \/ \E fd \in Fd :
          \/ Socket(f, fd) \/ Close(f, fd) \/ Connect(f, fd)
          \/ \E ev \in Event : SetTimeout(f, fd, ev) \/ DoIO(f, fd, ev)

TimerNext(t) == TimerExpires(t) \/ Callback(t) \/ CallbackCancels(t)

EpollNext(fd, ev) == EpollReturns(fd, ev) \/ HandleReport(fd, ev)

Next ==
    \/ \E f \in Fiber : FiberNext(f) \/ UserNext(f)
    \/ \E t \in Timer : TimerNext(t)
    \/ \E fd \in Fd, ev \in Event : EpollNext(fd, ev) \/ Arrives(fd, ev)

Spec == Init /\ [][Next]_vars

\* Workers run what is scheduled, timers expire, epoll reports what is ready.
FairSpec ==
    /\ Spec
    /\ \A f \in Fiber : WF_vars(FiberNext(f))
    /\ \A t \in Timer : WF_vars(TimerNext(t))
    /\ \A fd \in Fd, ev \in Event : WF_vars(EpollNext(fd, ev))
-----------------------------------------------------------------------------
(* Properties.                                                             *)

TypeOK ==
    /\ FdTypeOK
    /\ phase \in [Timer -> {"free", "armed", "over"}] /\ handed \subseteq Timer
    /\ owner \in [Timer -> Fiber \cup {None}]
    /\ goal \in [Timer -> (Fd \X Event) \cup {None}]
    /\ firing \subseteq Timer
    /\ pc \in [Fiber -> {"user", "asleep", "cancelAll", "closing", "try", "add",
                          "parked", "refused", "resumed", "check"}]
    /\ \A f \in Fiber : call[f] = None \/ call[f].fd \in Fd
    /\ cancelled \in [Fiber -> BOOLEAN]
    /\ tasks \in [Fiber -> 0 .. 1]
    /\ held \subseteq Fd \X Event
    /\ open \subseteq Fd /\ avail \in [Fd -> SUBSET Event]
    /\ fdCtx \in [Fd -> {"none", "open", "closed"}]
    /\ timed \in [Fd -> SUBSET Event]

\* The timer of a sleep that has yet to resume its fiber.
Alarms(f) == {t \in TimerOf(f) : goal[t] = None /\ (phase[t] = "armed" \/ t \in handed)}

\* A fiber that waits has exactly one way back, its registration, its sleep's timer or
\* the task made of either, and one that does not wait has none: event, timeout and
\* close(), however they meet, resume a call once, and nothing of it is left over to
\* cut short a later sleep or wait (do_io, sleep, close).  Under FIFO: MLFQ makes tasks
\* of its own for fibers that wait.
OneWayBack ==
    \A f \in Fiber :
        tasks[f] + Cardinality(Alarms(f)) + Cardinality({r \in Fd \X Event : ctx[r[1]][r[2]] = f})
            = IF pc[f] \in {"parked", "asleep"} THEN 1 ELSE 0

\* A timer outlives neither its call nor the try it was armed for: a call cancels it
\* on every way out, or stopping() would wait for it (do_io, connect_with_timeout).
TimersBelongToWaits ==
    \A t \in Timer : phase[t] = "armed" =>
        \E f \in Fiber : owner[t] = f /\ pc[f] \in {"add", "parked", "refused", "resumed", "asleep"}

\* After close() nobody stays registered on the descriptor ("cancel all I/O events of
\* this descriptor", hook.cpp): a fiber that does is never resumed.
ClosedLeavesNobody == \A fd \in Fd : fd \notin open => events[fd] = {}

\* A report is never lost on a waiting fiber: what it waits for being there, it goes
\* on, also when the data came between its EAGAIN and its addEvent.
ReadyWakes ==
    \A fd \in Fd, ev \in Event :
        (ctx[fd][ev] # None /\ interest[fd] # {} /\ ev \in avail[fd])
            ~> (ctx[fd][ev] = None \/ interest[fd] = {} \/ ev \notin avail[fd])

\* A wait whose timer is still armed, and that no earlier timer has marked, ends,
\* though no data ever comes; unless the descriptor is closed meanwhile.
TimedWaitEnds ==
    \A f \in Fiber :
        (pc[f] = "parked" /\ ~cancelled[f] /\ \E t \in TimerOf(f) : phase[t] = "armed")
            ~> (pc[f] # "parked" \/ interest[call[f].fd] = {})
=============================================================================
