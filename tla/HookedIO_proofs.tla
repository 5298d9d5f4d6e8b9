--------------------------- MODULE HookedIO_proofs ---------------------------
(***************************************************************************)
(* Proofs about HookedIO for any fibers, descriptors, timers and budgets.  *)
(***************************************************************************)
EXTENDS TLAPS, HookedIO, FiniteSetTheorems

Trying == {"try", "add", "parked", "refused", "resumed", "check"}
Closing == {"cancelAll", "closing"}
Labels == {"user", "asleep"} \cup Closing \cup Trying

\* Where the call of a fiber may have a timer running.
Armable == {"add", "parked", "refused", "resumed", "asleep"}

Calls == [fd : Fd, ev : Event \cup {None}, timed : BOOLEAN, connect : BOOLEAN]

Registered == {r \in Fd \X Event : r[2] \in events[r[1]]}

\* Events registered, contexts filled and count kept, all alike.  What epoll watches is
\* another matter: the kernel forgets a descriptor that is closed.
FdInv ==
    /\ events \in [Fd -> SUBSET Event]
    /\ ctx \in [Fd -> [Event -> Handler \cup {None}]]
    /\ interest \in [Fd -> SUBSET Event]
    /\ edge \in [Fd -> SUBSET (Event \cup {HUP})]
    /\ m_pendingEventCount = Cardinality(Registered)
    /\ \A fd \in Fd, ev \in Event : ev \in events[fd] <=> ctx[fd][ev] # None

KernelInv ==
    /\ held \subseteq Fd \X Event
    /\ open \subseteq Fd /\ avail \in [Fd -> SUBSET Event]
    /\ fdCtx \in [Fd -> {"none", "open", "closed"}]
    /\ timed \in [Fd -> SUBSET Event]

CallInv ==
    /\ pc \in [Fiber -> Labels]
    /\ call \in [Fiber -> Calls \cup {None}]
    /\ cancelled \in [Fiber -> BOOLEAN]
    /\ \A f \in Fiber :
          /\ pc[f] \in Trying => call[f] \in Calls /\ call[f].ev \in Event
          /\ pc[f] \in Closing => call[f] \in Calls

\* A timer that is armed belongs to a call that waits or is about to, and is the only
\* one it has armed; one that is owned at all has the aim of the call it is owned by.
TimerInv ==
    /\ phase \in [Timer -> {"free", "armed", "over"}] /\ handed \subseteq Timer
    /\ owner \in [Timer -> Fiber \cup {None}]
    /\ goal \in [Timer -> (Fd \X Event) \cup {None}]
    /\ firing \subseteq Timer
    /\ \A t \in firing : goal[t] # None
    /\ \A t \in handed : phase[t] = "over"
    /\ \A t \in Timer : phase[t] = "armed" => owner[t] # None /\ pc[owner[t]] \in Armable
    /\ \A s, t \in Timer :
          phase[s] = "armed" /\ phase[t] = "armed" /\ owner[s] = owner[t] => s = t
    /\ \A t \in Timer : owner[t] # None =>
          /\ pc[owner[t]] \in Trying \cup {"asleep"}
          /\ goal[t] = None <=> pc[owner[t]] = "asleep"

\* OneWayBack for one fiber, with the way it has.
Way(f) ==
    /\ \A fd \in Fd, ev \in Event : ctx[fd][ev] = f =>
          pc[f] = "parked" /\ call[f].fd = fd /\ call[f].ev = ev /\ tasks[f] = 0
    /\ pc[f] = "parked" =>
          tasks[f] = 1 \/ (tasks[f] = 0 /\ ctx[call[f].fd][call[f].ev] = f)
    /\ pc[f] = "asleep" =>
          \/ tasks[f] = 1 /\ Alarms(f) = {}
          \/ tasks[f] = 0 /\ \E t \in Timer : Alarms(f) = {t}
    /\ pc[f] \notin {"parked", "asleep"} => tasks[f] = 0

BackInv == tasks \in [Fiber -> Nat] /\ \A f \in Fiber : Way(f)

IInv == FdInv /\ KernelInv /\ CallInv /\ TimerInv /\ BackInv
-----------------------------------------------------------------------------
(* The descriptor contexts and the kernel.                                 *)

LEMMA EventFacts == READ # WRITE /\ Event = {READ, WRITE} /\ IsFiniteSet(Event) /\ HUP \notin Event
<1>1. READ # WRITE /\ HUP \notin {READ, WRITE}
  BY DEF READ, WRITE, HUP
<1>2. IsFiniteSet({READ} \cup {WRITE})
  BY FS_Singleton, FS_Union
<1>3. {READ, WRITE} = {READ} \cup {WRITE}
  OBVIOUS
<1> QED
  BY <1>1, <1>2, <1>3 DEF Event

LEMMA RegisteredFinite == IsFiniteSet(Registered) /\ Cardinality(Registered) \in Nat
<1>1. IsFiniteSet(Fd \X Event)
  BY EventFacts, FS_Product, HookedIOAssumption
<1>2. Registered \in SUBSET (Fd \X Event)
  BY DEF Registered
<1> QED
  BY <1>1, <1>2, FS_Subset, FS_CardinalityType

\* What cancelAll, cancelEvent and a report have in common: some registrations of a
\* descriptor end, and their fibers are scheduled.
EndsWaits ==
    \E fd \in Fd : \E evs, watched \in SUBSET events[fd] :
        /\ \E ready : Watch(fd, watched, ready)
        /\ Unregister(fd, evs) /\ Schedule(Handlers(fd, evs))

LEMMA CloseCancelsAllEnds ==
    ASSUME FdInv, CallInv, NEW f \in Fiber, CloseCancelsAll(f)
    PROVE  UNCHANGED <<fdVars, tasks>> \/ EndsWaits
<1>1. call[f].fd \in Fd
  BY DEF CloseCancelsAll, CallInv, Closing, Calls
<1>2. {} \subseteq events[call[f].fd]
  OBVIOUS
<1> QED
  BY <1>1, <1>2 DEF CloseCancelsAll, RemoveAll, EndsWaits

LEMMA CallbackCancelsEnds ==
    ASSUME FdInv, TimerInv, NEW t \in Timer, CallbackCancels(t)
    PROVE  UNCHANGED <<fdVars, tasks>> \/ EndsWaits
<1>1. goal[t][1] \in Fd /\ goal[t][2] \in Event
  BY DEF CallbackCancels, TimerInv
<1> DEFINE fd == goal[t][1]
           ev == goal[t][2]
<1>2. CASE RemoveEvent(fd, ev, fd \in open, avail[fd]) /\ Schedule(Handlers(fd, {ev}))
  <2>1. {ev} \in SUBSET events[fd] /\ events[fd] \ {ev} \in SUBSET events[fd]
    BY <1>2 DEF RemoveEvent
  <2> QED
    BY <1>1, <1>2, <2>1 DEF RemoveEvent, EndsWaits
<1> QED
  BY <1>2 DEF CallbackCancels

LEMMA HandleReportEnds ==
    ASSUME NEW fd \in Fd, NEW ev \in Event, HandleReport(fd, ev)
    PROVE  UNCHANGED <<fdVars, tasks>> \/ EndsWaits
<1>1. RealEvents(fd, {ev}) = {ev}
  BY EventFacts DEF RealEvents
<1>2. CASE Dispatch(fd, {ev}, fd \in open, avail[fd]) /\ Schedule(Handlers(fd, {ev}))
  <2>1. {ev} \in SUBSET events[fd] /\ events[fd] \ {ev} \in SUBSET events[fd]
    BY <1>1, <1>2 DEF Dispatch
  <2> QED
    BY <1>1, <1>2, <2>1 DEF Dispatch, EndsWaits
<1> QED
  BY <1>2 DEF HandleReport

LEMMA InitFd == Init => FdInv /\ KernelInv
<1> SUFFICES ASSUME Init PROVE FdInv /\ KernelInv
  OBVIOUS
<1>1. Registered = {}
  BY DEF Registered, Init, FdInit
<1>2. m_pendingEventCount = Cardinality(Registered)
  BY <1>1, FS_EmptySet DEF Init, FdInit
<1>3. FdInv
  BY <1>2 DEF Init, FdInit, FdInv
<1>4. KernelInv
  BY HookedIOAssumption DEF Init, KernelInv
<1> QED
  BY <1>3, <1>4

\* addEvent, successful.
LEMMA AddEventInv ==
    ASSUME FdInv, NEW fd \in Fd, NEW ev \in Event, NEW f \in Fiber,
           AddEvent(fd, ev, f, fd \in open, avail[fd])
    PROVE  FdInv'
<1>0. /\ ev \notin events[fd]
      /\ events' = [events EXCEPT ![fd] = @ \cup {ev}]
      /\ interest' = [interest EXCEPT ![fd] = events[fd] \cup {ev}]
      /\ edge' \in [Fd -> SUBSET (Event \cup {HUP})]
      /\ ctx' = [ctx EXCEPT ![fd][ev] = f]
      /\ m_pendingEventCount' = m_pendingEventCount + 1
  BY DEF AddEvent, Watch, FdInv
<1>1. Registered' = Registered \cup {<<fd, ev>>} /\ <<fd, ev>> \notin Registered
  BY <1>0 DEF FdInv, Registered
<1>2. Cardinality(Registered') = Cardinality(Registered) + 1
  BY <1>1, RegisteredFinite, FS_AddElement
<1>3. /\ events' \in [Fd -> SUBSET Event] /\ interest' \in [Fd -> SUBSET Event]
      /\ ctx' \in [Fd -> [Event -> Handler \cup {None}]]
  BY <1>0, HookedIOAssumption DEF FdInv
<1>4. \A d \in Fd, e \in Event : e \in events'[d] <=> ctx'[d][e] # None
  BY <1>0, HookedIOAssumption DEF FdInv
<1> QED
  BY <1>0, <1>2, <1>3, <1>4 DEF FdInv

\* Whatever ends the registrations evs of fd.
LEMMA UnregisterInv ==
    ASSUME FdInv, NEW fd \in Fd, NEW evs \in SUBSET events[fd], NEW watched \in SUBSET events[fd],
           NEW ready, Watch(fd, watched, ready), Unregister(fd, evs)
    PROVE  /\ FdInv'
           /\ \A d \in Fd, e \in Event :
                 ctx'[d][e] = IF d = fd /\ e \in evs THEN None ELSE ctx[d][e]
<1>0. /\ events' = [events EXCEPT ![fd] = @ \ evs]
      /\ interest' = [interest EXCEPT ![fd] = watched]
      /\ edge' \in [Fd -> SUBSET (Event \cup {HUP})]
      /\ ctx' = [ctx EXCEPT ![fd] = [e \in Event |-> IF e \in evs THEN None ELSE @[e]]]
      /\ m_pendingEventCount' = m_pendingEventCount - Cardinality(evs)
  BY DEF Watch, Unregister, FdInv
<1>1. Registered' = Registered \ ({fd} \X evs) /\ {fd} \X evs \subseteq Registered
  BY <1>0 DEF FdInv, Registered
<1>2. Cardinality({fd} \X evs) = Cardinality(evs)
  <2>1. IsFiniteSet(evs) /\ IsFiniteSet({fd}) /\ Cardinality({fd}) = 1
    <3>1. evs \in SUBSET Event
      BY DEF FdInv
    <3> QED
      BY <3>1, EventFacts, FS_Subset, FS_Singleton
  <2>2. Cardinality(evs) \in Nat /\ Cardinality({fd} \X evs) = 1 * Cardinality(evs)
    BY <2>1, FS_Product, FS_CardinalityType
  <2> QED
    BY <2>2
<1>3. Cardinality(Registered') = Cardinality(Registered) - Cardinality(evs)
  <2>1. Registered \cap ({fd} \X evs) = {fd} \X evs
    BY <1>1
  <2>2. Cardinality(Registered \ ({fd} \X evs))
            = Cardinality(Registered) - Cardinality(Registered \cap ({fd} \X evs))
    BY RegisteredFinite, FS_Difference
  <2> QED
    BY <1>1, <1>2, <2>1, <2>2
<1>4. \A d \in Fd, e \in Event :
         ctx'[d][e] = IF d = fd /\ e \in evs THEN None ELSE ctx[d][e]
  BY <1>0 DEF FdInv
<1>5. /\ events' \in [Fd -> SUBSET Event]
      /\ ctx' \in [Fd -> [Event -> Handler \cup {None}]]
  BY <1>0 DEF FdInv
<1>6. interest' \in [Fd -> SUBSET Event]
  BY <1>0 DEF FdInv
<1>7. \A d \in Fd, e \in Event : e \in events'[d] <=> ctx'[d][e] # None
  BY <1>0, <1>4 DEF FdInv
<1> QED
  BY <1>0, <1>3, <1>4, <1>5, <1>6, <1>7 DEF FdInv

LEMMA EndsWaitsFd == FdInv /\ EndsWaits => FdInv'
BY UnregisterInv DEF EndsWaits

\* What a fiber calls leaves the contexts alone until it registers or closes.
LEMMA UserKeepsFd ==
    ASSUME NEW f \in Fiber, UserNext(f)
    PROVE  UNCHANGED fdVars
BY DEF UserNext, Sleep, Socket, Close, Connect, SetTimeout, DoIO, Enter

LEMMA NextFd == FdInv /\ CallInv /\ TimerInv /\ [Next]_vars => FdInv'
<1> SUFFICES ASSUME FdInv, CallInv, TimerInv, [Next]_vars PROVE FdInv'
  OBVIOUS
<1>1. ASSUME UNCHANGED <<events, ctx, m_pendingEventCount>>,
             interest' \in [Fd -> SUBSET Event], edge' \in [Fd -> SUBSET (Event \cup {HUP})]
      PROVE  FdInv'
  BY <1>1 DEF FdInv, Registered
<1>2. ASSUME UNCHANGED fdVars PROVE FdInv'
  BY <1>1, <1>2 DEF fdVars, FdInv
<1>3. ASSUME NEW f \in Fiber, UserNext(f) PROVE FdInv'
  BY <1>2, <1>3, UserKeepsFd
<1>4. ASSUME NEW f \in Fiber, FiberNext(f) PROVE FdInv'
  <2>1. CASE CloseCancelsAll(f)
    BY <1>2, <2>1, CloseCancelsAllEnds, EndsWaitsFd
  <2>2. CASE CloseEnds(f)
    BY <1>1, <2>2 DEF CloseEnds, FdInv
  <2>3. CASE Register(f)
    <3>1. call[f].fd \in Fd /\ call[f].ev \in Event
      BY <2>3 DEF Register, CallInv, Trying, Calls
    <3> QED
      BY <1>2, <2>3, <3>1, AddEventInv DEF Register
  <2> QED
    BY <1>2, <1>4, <2>1, <2>2, <2>3
       DEF FiberNext, SleepEnds, Try, WouldBlock, Resumed, Refused, StopTimer, Check
<1>5. ASSUME NEW t \in Timer, TimerNext(t) PROVE FdInv'
  BY <1>2, <1>5, CallbackCancelsEnds, EndsWaitsFd DEF TimerNext, TimerExpires, Callback
<1>6. ASSUME NEW fd \in Fd, NEW ev \in Event, EpollNext(fd, ev) \/ Arrives(fd, ev) PROVE FdInv'
  <2>1. CASE EpollReturns(fd, ev)
    BY <1>1, <2>1 DEF EpollReturns, FdInv
  <2>2. CASE Arrives(fd, ev)
    <3>1. CASE BecomesReady(fd, ev)
      BY <1>1, <3>1 DEF BecomesReady, FdInv
    <3> QED
      BY <1>2, <2>2, <3>1 DEF Arrives
  <2> QED
    BY <1>2, <1>6, <2>1, <2>2, HandleReportEnds, EndsWaitsFd DEF EpollNext
<1>7. CASE UNCHANGED vars
  BY <1>2, <1>7 DEF vars
<1> QED
  BY <1>3, <1>4, <1>5, <1>6, <1>7 DEF Next

LEMMA NextKernel == KernelInv /\ CallInv /\ [Next]_vars => KernelInv'
<1> SUFFICES ASSUME KernelInv, CallInv, [Next]_vars PROVE KernelInv'
  OBVIOUS
<1>1. ASSUME UNCHANGED <<held, kernelVars, fdCtx, timed>> PROVE KernelInv'
  BY <1>1 DEF KernelInv, kernelVars
<1>2. ASSUME NEW f \in Fiber, UserNext(f) PROVE KernelInv'
  <2>1. ASSUME NEW fd \in Fd, Socket(f, fd) \/ Close(f, fd) PROVE KernelInv'
    BY <2>1 DEF Socket, Close, KernelInv, kernelVars
  <2>2. ASSUME NEW fd \in Fd, NEW ev \in Event, SetTimeout(f, fd, ev) PROVE KernelInv'
    BY <2>2 DEF SetTimeout, KernelInv, kernelVars
  <2> QED
    BY <1>1, <1>2, <2>1, <2>2 DEF UserNext, Sleep, Connect, DoIO, Enter
<1>3. ASSUME NEW f \in Fiber, FiberNext(f) PROVE KernelInv'
  <2>1. CASE CloseEnds(f)
    <3>1. call[f].fd \in Fd
      BY <2>1 DEF CloseEnds, CallInv, Closing, Calls
    <3> QED
      BY <2>1, <3>1 DEF CloseEnds, KernelInv
  <2>2. CASE Try(f)
    BY <2>2 DEF Try, KernelInv
  <2> QED
    BY <1>1, <1>3, <2>1, <2>2
       DEF FiberNext, SleepEnds, CloseCancelsAll, WouldBlock, Register, Resumed, Refused,
           StopTimer, Check
<1>4. ASSUME NEW t \in Timer, TimerNext(t) PROVE KernelInv'
  BY <1>1, <1>4 DEF TimerNext, TimerExpires, Callback, CallbackCancels
<1>5. ASSUME NEW fd \in Fd, NEW ev \in Event, EpollNext(fd, ev) \/ Arrives(fd, ev)
      PROVE  KernelInv'
  <2>1. CASE EpollReturns(fd, ev)
    BY <2>1 DEF EpollReturns, KernelInv, kernelVars
  <2>2. CASE HandleReport(fd, ev)
    BY <2>2 DEF HandleReport, KernelInv, kernelVars
  <2>3. CASE Arrives(fd, ev)
    BY <2>3 DEF Arrives, KernelInv
  <2> QED
    BY <1>5, <2>1, <2>2, <2>3 DEF EpollNext
<1>6. CASE UNCHANGED vars
  BY <1>1, <1>6 DEF vars
<1> QED
  BY <1>2, <1>3, <1>4, <1>5, <1>6 DEF Next
-----------------------------------------------------------------------------
(* The calls.                                                              *)

LEMMA LabelFacts ==
    /\ Trying \subseteq Labels /\ Closing \subseteq Labels
    /\ "user" \in Labels /\ "asleep" \in Labels
    /\ "user" \notin Trying \cup Closing /\ "asleep" \notin Trying \cup Closing
    /\ Trying \cap Closing = {}
    /\ Armable \subseteq Trying \cup {"asleep"}
BY DEF Trying, Closing, Labels, Armable

LEMMA InitCall == Init => CallInv
BY LabelFacts DEF Init, CallInv

\* A call goes on, or returns.
LEMMA CallGoesOn ==
    ASSUME CallInv, NEW f \in Fiber, NEW label \in Labels, Goto(f, label),
           UNCHANGED <<call, cancelled>>,
           \/ label \in {"user", "asleep"}
           \/ label \in Trying /\ pc[f] \in Trying
           \/ label \in Closing /\ pc[f] \in Closing
    PROVE  CallInv'
BY LabelFacts DEF CallInv, Goto

LEMMA CallReturns ==
    ASSUME CallInv, NEW f \in Fiber, Return(f)
    PROVE  CallInv'
BY LabelFacts DEF CallInv, Return, Goto

LEMMA CallBegins ==
    ASSUME CallInv, NEW f \in Fiber, NEW c \in Calls, call' = [call EXCEPT ![f] = c],
           UNCHANGED cancelled,
           \/ Goto(f, "cancelAll")
           \/ Goto(f, "try") /\ c.ev \in Event
    PROVE  CallInv'
<1>1. call' \in [Fiber -> Calls \cup {None}] /\ cancelled' \in [Fiber -> BOOLEAN]
  BY DEF CallInv
<1>2. PICK label \in {"cancelAll", "try"} :
         pc' = [pc EXCEPT ![f] = label] /\ (label = "try" => c.ev \in Event)
  BY DEF Goto
<1>3. label \in Labels /\ (label \in Trying => c.ev \in Event)
  BY <1>2 DEF Labels, Trying, Closing
<1>4. pc' \in [Fiber -> Labels]
  BY <1>2, <1>3 DEF CallInv
<1> QED
  BY <1>1, <1>2, <1>3, <1>4 DEF CallInv

LEMMA NextCall == CallInv /\ KernelInv /\ [Next]_vars => CallInv'
<1> SUFFICES ASSUME CallInv, KernelInv, [Next]_vars PROVE CallInv'
  OBVIOUS
<1>1. ASSUME UNCHANGED callVars PROVE CallInv'
  BY <1>1 DEF CallInv, callVars
<1>2. ASSUME NEW f \in Fiber, UserNext(f) PROVE CallInv'
  <2>1. CASE Sleep(f)
    BY <2>1, CallGoesOn, LabelFacts DEF Sleep
  <2>2. ASSUME NEW fd \in Fd, NEW ev \in Event, NEW isTimed \in BOOLEAN, NEW connect \in BOOLEAN,
               Enter(f, fd, ev, isTimed, connect)
        PROVE  CallInv'
    <3>1. [fd |-> fd, ev |-> ev, timed |-> isTimed, connect |-> connect] \in Calls
      BY DEF Calls
    <3> QED
      BY <2>2, <3>1, CallBegins DEF Enter
  <2>3. ASSUME NEW fd \in Fd, Close(f, fd) PROVE CallInv'
    <3>1. [fd |-> fd, ev |-> None, timed |-> FALSE, connect |-> FALSE] \in Calls
      BY DEF Calls
    <3> QED
      BY <2>3, <3>1, CallBegins DEF Close
  <2>4. ASSUME NEW fd \in Fd, Connect(f, fd) PROVE CallInv'
    BY <2>2, <2>4, EventFacts DEF Connect
  <2>5. ASSUME NEW fd \in Fd, NEW ev \in Event, DoIO(f, fd, ev) PROVE CallInv'
    <3>1. (ev \in timed[fd]) \in BOOLEAN
      OBVIOUS
    <3> QED
      BY <2>2, <2>5, <3>1 DEF DoIO
  <2>6. ASSUME NEW fd \in Fd, Socket(f, fd) PROVE CallInv'
    BY <1>1, <2>6 DEF Socket
  <2>7. ASSUME NEW fd \in Fd, NEW ev \in Event, SetTimeout(f, fd, ev) PROVE CallInv'
    BY <1>1, <2>7 DEF SetTimeout
  <2> QED
    BY <1>2, <2>1, <2>3, <2>4, <2>5, <2>6, <2>7 DEF UserNext
<1>3. ASSUME NEW f \in Fiber, FiberNext(f) PROVE CallInv'
  <2>1. CASE SleepEnds(f) \/ CloseEnds(f) \/ Try(f) \/ Refused(f)
    BY <2>1, CallReturns DEF SleepEnds, CloseEnds, Try, Refused
  <2>2. CASE CloseCancelsAll(f)
    BY <2>2, CallGoesOn, LabelFacts DEF CloseCancelsAll, Closing
  <2>3. CASE WouldBlock(f) \/ Register(f) \/ Resumed(f) \/ StopTimer(f)
    <3>1. /\ pc[f] \in Trying /\ UNCHANGED <<call, cancelled>>
          /\ \E label \in Trying : Goto(f, label)
      BY <2>3 DEF WouldBlock, Register, Resumed, StopTimer, Trying
    <3> QED
      BY <3>1, CallGoesOn, LabelFacts
  <2>4. CASE Check(f)
    <3>1. pc[f] \in Trying /\ "try" \in Trying
      BY <2>4 DEF Check, Trying
    <3> QED
      BY <2>4, <3>1, CallGoesOn, CallReturns, LabelFacts DEF Check
  <2> QED
    BY <1>3, <2>1, <2>2, <2>3, <2>4 DEF FiberNext
<1>4. ASSUME NEW t \in Timer, TimerNext(t) PROVE CallInv'
  <2>1. CASE Callback(t)
    BY <2>1 DEF Callback, CallInv
  <2> QED
    BY <1>1, <1>4, <2>1 DEF TimerNext, TimerExpires, CallbackCancels, callVars
<1>5. ASSUME NEW fd \in Fd, NEW ev \in Event, EpollNext(fd, ev) \/ Arrives(fd, ev)
      PROVE  CallInv'
  BY <1>1, <1>5 DEF EpollNext, EpollReturns, HandleReport, Arrives
<1>6. CASE UNCHANGED vars
  BY <1>1, <1>6 DEF vars
<1> QED
  BY <1>2, <1>3, <1>4, <1>5, <1>6 DEF Next

-----------------------------------------------------------------------------
(* The timers of the calls.                                                *)

LEMMA InitTimer == Init => TimerInv
<1> SUFFICES ASSUME Init PROVE TimerInv
  OBVIOUS
<1> QED
  BY DEF Init, TimerInv

LEMMA OwnerFacts ==
    ASSUME TimerInv, CallInv
    PROVE  /\ \A t \in Timer : owner[t] # None =>
                 owner[t] \in Fiber /\ pc[owner[t]] \notin {"user"} \cup Closing
           /\ None \notin Fiber
BY HookedIOAssumption, LabelFacts DEF TimerInv, CallInv

\* No timer is touched, and a fiber goes on: where it may have one running, or where it
\* has none.
LEMMA TimersAloneInv ==
    ASSUME TimerInv, CallInv, NEW f \in Fiber, NEW label \in Labels, Goto(f, label),
           UNCHANGED <<contractVars, handlerVars>>,
           \/ pc[f] \in {"user"} \cup Closing
           \/ /\ pc[f] \in Trying /\ label \in Trying
              /\ \/ label \in Armable
                 \/ \A t \in Timer : phase[t] = "armed" => owner[t] # f
    PROVE  TimerInv'
<1>1. pc' \in [Fiber -> Labels] /\ \A g \in Fiber : pc'[g] = IF g = f THEN label ELSE pc[g]
  BY DEF Goto, CallInv
<1>2. /\ UNCHANGED <<phase, handed, owner, goal, firing>>
      /\ owner \in [Timer -> Fiber \cup {None}]
  BY DEF contractVars, handlerVars, TimerInv
<1>3. ASSUME NEW t \in Timer, owner[t] # None
      PROVE  /\ pc'[owner[t]] \in Trying \cup {"asleep"}
             /\ goal[t] = None <=> pc'[owner[t]] = "asleep"
  BY <1>1, <1>2, <1>3, OwnerFacts, LabelFacts DEF TimerInv
<1>4. ASSUME NEW t \in Timer, phase[t] = "armed"
      PROVE  owner[t] # None /\ pc'[owner[t]] \in Armable
  BY <1>1, <1>2, <1>4, OwnerFacts DEF TimerInv
<1> QED
  BY <1>2, <1>3, <1>4 DEF TimerInv

\* The call returns after its timer was stopped, or had none.
LEMMA ReturnTimers ==
    ASSUME TimerInv, CallInv, NEW f \in Fiber, Return(f),
           \/ phase' = phase
           \/ \E s \in TimerOf(f) : phase[s] = "armed" /\ phase' = [phase EXCEPT ![s] = "over"],
           handed' = handed, \A t \in Timer : phase'[t] = "armed" => owner[t] # f
    PROVE  TimerInv'
<1>1. pc' \in [Fiber -> Labels] /\ \A g \in Fiber : g # f => pc'[g] = pc[g]
  BY LabelFacts DEF Return, Goto, CallInv
<1>2. /\ owner' \in [Timer -> Fiber \cup {None}]
      /\ \A t \in Timer : owner'[t] = IF owner[t] = f THEN None ELSE owner[t]
      /\ UNCHANGED <<goal, firing>>
  BY DEF Return, TimerInv
<1>3. /\ phase' \in [Timer -> {"free", "armed", "over"}]
      /\ \A t \in Timer : phase'[t] = phase[t] \/ (phase[t] = "armed" /\ phase'[t] = "over")
  BY DEF TimerInv, TimerOf
<1>4. ASSUME NEW t \in Timer, owner'[t] # None
      PROVE  /\ pc'[owner'[t]] \in Trying \cup {"asleep"}
             /\ goal'[t] = None <=> pc'[owner'[t]] = "asleep"
  BY <1>1, <1>2, <1>4, OwnerFacts DEF TimerInv
<1>5. ASSUME NEW t \in Timer, phase'[t] = "armed"
      PROVE  owner'[t] = owner[t] /\ owner'[t] # None /\ pc'[owner'[t]] \in Armable
  BY <1>1, <1>2, <1>3, <1>5, OwnerFacts DEF TimerInv
<1>6. \A t \in handed' : phase'[t] = "over"
  BY <1>3 DEF TimerInv
<1>7. \A s, t \in Timer :
         phase'[s] = "armed" /\ phase'[t] = "armed" /\ owner'[s] = owner'[t] => s = t
  BY <1>3, <1>5 DEF TimerInv
<1> QED
  BY <1>2, <1>3, <1>4, <1>5, <1>6, <1>7 DEF TimerInv

\* A call arms a timer, from where it has none armed.
LEMMA ArmInv ==
    ASSUME TimerInv, CallInv, NEW f \in Fiber, NEW t \in Timer \ firing, ArmTimer(t),
           NEW what \in (Fd \X Event) \cup {None}, NEW label \in Armable, Goto(f, label),
           owner' = [owner EXCEPT ![t] = f], goal' = [goal EXCEPT ![t] = what], UNCHANGED firing,
           \/ pc[f] = "user" /\ label = "asleep" /\ what = None
           \/ pc[f] = "try" /\ label \in Trying /\ what # None
    PROVE  TimerInv'
<1>0. /\ label \in Labels /\ label \in Trying \cup {"asleep"}
      /\ pc[f] \notin Armable /\ f # None
  BY LabelFacts, HookedIOAssumption DEF Armable, Labels, Trying
<1>1. pc' \in [Fiber -> Labels] /\ \A g \in Fiber : pc'[g] = IF g = f THEN label ELSE pc[g]
  BY <1>0 DEF Goto, CallInv
<1>2. /\ owner' \in [Timer -> Fiber \cup {None}] /\ goal' \in [Timer -> (Fd \X Event) \cup {None}]
      /\ \A s \in Timer : owner'[s] = IF s = t THEN f ELSE owner[s]
      /\ \A s \in Timer : goal'[s] = IF s = t THEN what ELSE goal[s]
  BY DEF TimerInv
<1>3. /\ phase' \in [Timer -> {"free", "armed", "over"}]
      /\ \A s \in Timer : phase'[s] = IF s = t THEN "armed" ELSE phase[s]
      /\ t \notin handed /\ handed' = handed
  BY DEF TimerInv, ArmTimer
<1>4. ASSUME NEW s \in Timer, owner'[s] # None
      PROVE  /\ pc'[owner'[s]] \in Trying \cup {"asleep"}
             /\ goal'[s] = None <=> pc'[owner'[s]] = "asleep"
  <2>1. CASE s = t
    BY <1>0, <1>1, <1>2, <2>1, LabelFacts
  <2>2. CASE s # t /\ owner[s] = f
    <3>1. pc[f] = "try" /\ label \in Trying
      BY <1>2, <1>4, <2>2, OwnerFacts
    <3>2. goal[s] # None
      BY <1>0, <2>2, <3>1 DEF TimerInv
    <3> QED
      BY <1>1, <1>2, <2>2, <3>1, <3>2, LabelFacts
  <2>3. CASE s # t /\ owner[s] # f
    BY <1>1, <1>2, <1>4, <2>3, OwnerFacts DEF TimerInv
  <2> QED
    BY <2>1, <2>2, <2>3
<1>5. ASSUME NEW s \in Timer, phase[s] = "armed"
      PROVE  owner[s] # f
  BY <1>0, <1>5 DEF TimerInv
<1>6. ASSUME NEW s \in Timer, phase'[s] = "armed"
      PROVE  owner'[s] # None /\ pc'[owner'[s]] \in Armable
  BY <1>0, <1>1, <1>2, <1>3, <1>6, OwnerFacts DEF TimerInv
<1>7. \A s, u \in Timer :
         phase'[s] = "armed" /\ phase'[u] = "armed" /\ owner'[s] = owner'[u] => s = u
  BY <1>2, <1>3, <1>5 DEF TimerInv
<1>8. (\A s \in firing' : goal'[s] # None) /\ firing' \subseteq Timer
  BY <1>2 DEF TimerInv
<1>9. handed' \subseteq Timer /\ \A s \in handed' : phase'[s] = "over"
  BY <1>3 DEF TimerInv
<1> QED
  BY <1>2, <1>3, <1>4, <1>6, <1>7, <1>8, <1>9 DEF TimerInv
\* timer->cancel() leaves no timer of the call running.
LEMMA CancelTimeoutStops ==
    ASSUME TimerInv, NEW f \in Fiber, CancelTimeout(f)
    PROVE  /\ \/ phase' = phase
              \/ \E s \in TimerOf(f) : phase[s] = "armed" /\ phase' = [phase EXCEPT ![s] = "over"]
           /\ handed' = handed
           /\ \A t \in Timer : phase'[t] = "armed" => owner[t] # f
           /\ \A t \in Timer : owner[t] # f => phase'[t] = phase[t]
<1>1. CASE \E t \in TimerOf(f) : phase[t] = "armed"
  <2>1. PICK s \in TimerOf(f) : CancelArmed(s)
    BY <1>1 DEF CancelTimeout
  <2>2. /\ phase[s] = "armed" /\ owner[s] = f /\ s \in Timer
        /\ phase' = [phase EXCEPT ![s] = "over"] /\ handed' = handed
    BY <2>1 DEF CancelArmed, TimerOf
  <2> QED
    BY <2>2 DEF TimerInv, TimerOf
<1>2. CASE ~\E t \in TimerOf(f) : phase[t] = "armed"
  <2>1. UNCHANGED <<phase, handed>>
    BY <1>2 DEF CancelTimeout, contractVars
  <2> QED
    BY <1>2, <2>1 DEF TimerOf
<1> QED
  BY <1>1, <1>2

\* A call that is resumed stops its timer and goes on.
LEMMA StopTimerInv ==
    ASSUME TimerInv, CallInv, NEW f \in Fiber, StopTimer(f)
    PROVE  TimerInv'
<1>1. /\ pc[f] = "resumed" /\ pc' = [pc EXCEPT ![f] = "check"]
      /\ UNCHANGED <<owner, goal, firing>>
  BY DEF StopTimer, Goto, handlerVars
<1>2. /\ handed' = handed
      /\ \A t \in Timer : phase'[t] = "armed" => owner[t] # f
      /\ \/ phase' = phase
         \/ \E s \in TimerOf(f) : phase[s] = "armed" /\ phase' = [phase EXCEPT ![s] = "over"]
  BY CancelTimeoutStops DEF StopTimer
<1>3. /\ phase' \in [Timer -> {"free", "armed", "over"}]
      /\ \A t \in Timer : phase'[t] = phase[t] \/ (phase[t] = "armed" /\ phase'[t] = "over")
  BY <1>2 DEF TimerInv, TimerOf
<1>4. \A g \in Fiber : pc'[g] = IF g = f THEN "check" ELSE pc[g]
  BY <1>1 DEF CallInv
<1>5. ASSUME NEW t \in Timer, owner'[t] # None
      PROVE  /\ pc'[owner'[t]] \in Trying \cup {"asleep"}
             /\ goal'[t] = None <=> pc'[owner'[t]] = "asleep"
  BY <1>1, <1>4, <1>5, OwnerFacts DEF TimerInv, Trying
<1>6. ASSUME NEW t \in Timer, phase'[t] = "armed"
      PROVE  owner'[t] # None /\ pc'[owner'[t]] \in Armable
  BY <1>1, <1>2, <1>3, <1>4, <1>6, OwnerFacts DEF TimerInv
<1>7. \A t \in handed' : phase'[t] = "over"
  BY <1>2, <1>3 DEF TimerInv
<1>8. \A s, t \in Timer :
         phase'[s] = "armed" /\ phase'[t] = "armed" /\ owner'[s] = owner'[t] => s = t
  BY <1>1, <1>3 DEF TimerInv
<1> QED
  BY <1>1, <1>2, <1>3, <1>5, <1>6, <1>7, <1>8 DEF TimerInv

\* A timer whose call does not wait for it is not armed.
LEMMA NoneArmed ==
    ASSUME TimerInv, NEW f \in Fiber, pc[f] \notin Armable \/ (pc[f] = "asleep" /\ Alarms(f) = {})
    PROVE  \A t \in Timer : phase[t] = "armed" => owner[t] # f
<1>1. ASSUME NEW t \in Timer, phase[t] = "armed", owner[t] = f PROVE FALSE
  <2>1. owner[t] # None /\ pc[f] \in Armable
    BY <1>1 DEF TimerInv
  <2>2. goal[t] = None
    BY <1>1, <2>1 DEF TimerInv
  <2> QED
    BY <1>1, <2>1, <2>2 DEF Alarms, TimerOf
<1> QED
  BY <1>1

LEMMA FiberKeepsTimers ==
    ASSUME TimerInv, CallInv, BackInv, NEW f \in Fiber, FiberNext(f)
    PROVE  TimerInv'
<1>1. CASE SleepEnds(f)
  <2>1. pc[f] = "asleep" /\ tasks[f] > 0 /\ Return(f) /\ UNCHANGED <<phase, handed>>
    BY <1>1 DEF SleepEnds, contractVars
  <2>2. Alarms(f) = {}
    BY <2>1 DEF BackInv, Way
  <2> QED
    BY <2>1, <2>2, NoneArmed, ReturnTimers
<1>2. CASE CloseEnds(f) \/ Try(f)
  <2>1. pc[f] \notin Armable /\ Return(f) /\ UNCHANGED <<phase, handed>>
    BY <1>2 DEF CloseEnds, Try, contractVars, Armable
  <2> QED
    BY <2>1, NoneArmed, ReturnTimers
<1>3. CASE Refused(f)
  BY <1>3, CancelTimeoutStops, ReturnTimers DEF Refused
<1>4. CASE Check(f)
  <2>1. pc[f] = "check" /\ UNCHANGED contractVars /\ (Return(f) \/ Goto(f, "try"))
    BY <1>4 DEF Check
  <2>2. \A t \in Timer : phase[t] = "armed" => owner[t] # f
    BY <2>1, NoneArmed DEF Armable
  <2>3. CASE Return(f)
    BY <2>1, <2>2, <2>3, ReturnTimers DEF contractVars
  <2>4. CASE Goto(f, "try") /\ UNCHANGED handlerVars
    <3>1. "try" \in Labels /\ "try" \in Trying /\ pc[f] \in Trying
      BY <2>1 DEF Labels, Trying
    <3> QED
      BY <2>1, <2>2, <2>4, <3>1, TimersAloneInv
  <2> QED
    BY <1>4, <2>3, <2>4 DEF Check
<1>5. CASE CloseCancelsAll(f)
  <2>1. pc[f] \in Closing /\ "closing" \in Labels
    BY <1>5 DEF CloseCancelsAll, Closing, Labels
  <2> QED
    BY <1>5, <2>1, TimersAloneInv DEF CloseCancelsAll
<1>6. CASE WouldBlock(f)
  <2>1. /\ pc[f] = "try" /\ pc[f] \in Trying /\ "add" \in Labels \cap Trying \cap Armable
        /\ call[f].fd \in Fd /\ call[f].ev \in Event
    BY <1>6 DEF WouldBlock, CallInv, Trying, Armable, Labels, Calls
  <2>2. <<call[f].fd, call[f].ev>> \in Fd \X Event /\ <<call[f].fd, call[f].ev>> # None
    BY <2>1, HookedIOAssumption
  <2>3. CASE call[f].timed
    <3>1. PICK t \in Timer \ firing :
             /\ ArmTimer(t)
             /\ owner' = [owner EXCEPT ![t] = f]
             /\ goal' = [goal EXCEPT ![t] = <<call[f].fd, call[f].ev>>]
      BY <1>6, <2>3 DEF WouldBlock
    <3> QED
      BY <1>6, <2>1, <2>2, <3>1, ArmInv DEF WouldBlock
  <2>4. CASE ~call[f].timed
    <3>1. Goto(f, "add") /\ UNCHANGED <<contractVars, handlerVars>>
      BY <1>6, <2>4 DEF WouldBlock, handlerVars
    <3> QED
      BY <2>1, <3>1, TimersAloneInv
  <2> QED
    BY <2>3, <2>4
<1>7. CASE Register(f) \/ Resumed(f)
  <2>1. /\ pc[f] \in Trying /\ UNCHANGED <<contractVars, handlerVars>>
        /\ \E label \in Labels \cap Trying \cap Armable : Goto(f, label)
    BY <1>7 DEF Register, Resumed, Trying, Armable, Labels
  <2> QED
    BY <2>1, TimersAloneInv
<1>8. CASE StopTimer(f)
  BY <1>8, StopTimerInv
<1> QED
  BY <1>1, <1>2, <1>3, <1>4, <1>5, <1>6, <1>7, <1>8 DEF FiberNext

LEMMA UserKeepsTimers ==
    ASSUME TimerInv, CallInv, NEW f \in Fiber, UserNext(f)
    PROVE  TimerInv'
<1>1. CASE Sleep(f)
  <2>1. PICK t \in Timer \ firing :
           /\ ArmTimer(t)
           /\ owner' = [owner EXCEPT ![t] = f]
           /\ goal' = [goal EXCEPT ![t] = None]
    BY <1>1 DEF Sleep
  <2>2. pc[f] = "user" /\ Goto(f, "asleep") /\ UNCHANGED firing /\ "asleep" \in Armable
    BY <1>1 DEF Sleep, UserCall, Armable
  <2> QED
    BY <2>1, <2>2, ArmInv
<1>2. ASSUME UNCHANGED <<contractVars, handlerVars, pc>> PROVE TimerInv'
  BY <1>2 DEF TimerInv, contractVars, handlerVars
<1>3. CASE /\ pc[f] = "user" /\ UNCHANGED <<contractVars, handlerVars>>
           /\ Goto(f, "try") \/ Goto(f, "cancelAll")
  <2>1. "try" \in Labels /\ "cancelAll" \in Labels
    BY DEF Labels, Trying, Closing
  <2> QED
    BY <1>3, <2>1, TimersAloneInv
<1>4. ASSUME NEW fd \in Fd, Socket(f, fd) \/ Close(f, fd) \/ Connect(f, fd) PROVE TimerInv'
  BY <1>2, <1>3, <1>4 DEF Socket, Close, Connect, Enter, UserCall, callVars
<1>5. ASSUME NEW fd \in Fd, NEW ev \in Event, SetTimeout(f, fd, ev) \/ DoIO(f, fd, ev)
      PROVE  TimerInv'
  BY <1>2, <1>3, <1>5 DEF SetTimeout, DoIO, Enter, UserCall, callVars
<1> QED
  BY <1>1, <1>4, <1>5 DEF UserNext

LEMMA NextTimers == TimerInv /\ CallInv /\ BackInv /\ [Next]_vars => TimerInv'
<1> SUFFICES ASSUME TimerInv, CallInv, BackInv, [Next]_vars PROVE TimerInv'
  OBVIOUS
<1>1. ASSUME UNCHANGED <<contractVars, handlerVars, pc>> PROVE TimerInv'
  BY <1>1 DEF TimerInv, contractVars, handlerVars
<1>2. ASSUME NEW t \in Timer, TimerNext(t) PROVE TimerInv'
  <2>1. CASE TimerExpires(t)
    <3>1. /\ phase[t] = "armed" /\ UNCHANGED <<owner, goal, firing, pc>>
          /\ \A s \in Timer : phase'[s] = IF s = t THEN "over" ELSE phase[s]
          /\ phase' \in [Timer -> {"free", "armed", "over"}]
          /\ handed' = handed \cup {t}
      BY <2>1, HookedIOAssumption
         DEF TimerExpires, ExpireTimers, handlerVars, callVars, TimerInv
    <3> QED
      BY <3>1 DEF TimerInv
  <2>2. CASE Callback(t)
    <3>1. /\ UNCHANGED <<phase, owner, goal, pc>> /\ handed' \subseteq handed
          /\ firing' = firing \/ (firing' = firing \cup {t} /\ goal[t] # None)
      BY <2>2 DEF Callback, CallbackRuns
    <3> QED
      BY <3>1 DEF TimerInv
  <2>3. CASE CallbackCancels(t)
    <3>1. /\ UNCHANGED <<phase, handed, owner, goal, pc>> /\ firing' \subseteq firing
      BY <2>3 DEF CallbackCancels, contractVars, callVars
    <3> QED
      BY <3>1 DEF TimerInv
  <2> QED
    BY <1>2, <2>1, <2>2, <2>3 DEF TimerNext
<1>3. ASSUME NEW fd \in Fd, NEW ev \in Event, EpollNext(fd, ev) \/ Arrives(fd, ev)
      PROVE  TimerInv'
  BY <1>1, <1>3 DEF EpollNext, EpollReturns, HandleReport, Arrives, callVars
<1>4. CASE UNCHANGED vars
  BY <1>1, <1>4 DEF vars, callVars
<1> QED
  BY <1>2, <1>3, <1>4, FiberKeepsTimers, UserKeepsTimers DEF Next
-----------------------------------------------------------------------------
(* One way back for each fiber.                                            *)

LEMMA InitBack == Init => BackInv
<1> SUFFICES ASSUME Init PROVE BackInv
  OBVIOUS
<1> QED
  BY HookedIOAssumption DEF Init, FdInit, BackInv, Way

\* How many of the handlers triggered are tasks for f, which waits for one event at most.
LEMMA HandlersCount ==
    ASSUME FdInv, NEW fd \in Fd, NEW evs \in SUBSET Event, NEW f \in Fiber,
           \A d, e \in Event : ctx[fd][d] = f /\ ctx[fd][e] = f => d = e
    PROVE  Cardinality({i \in DOMAIN Handlers(fd, evs) : Handlers(fd, evs)[i] = f})
               = IF \E e \in evs : ctx[fd][e] = f THEN 1 ELSE 0
<1>1. PICK a : a = ctx[fd][READ]
  OBVIOUS
<1>2. PICK b : b = ctx[fd][WRITE]
  OBVIOUS
<1>3. ~(a = f /\ b = f)
  BY <1>1, <1>2, EventFacts
<1>4. (\E e \in evs : ctx[fd][e] = f) <=> (READ \in evs /\ a = f) \/ (WRITE \in evs /\ b = f)
  BY <1>1, <1>2, EventFacts
<1>5. PICK s : s = Handlers(fd, evs)
  OBVIOUS
<1>6. s = (IF READ \in evs THEN <<a>> ELSE <<>>) \o (IF WRITE \in evs THEN <<b>> ELSE <<>>)
  BY <1>1, <1>2, <1>5 DEF Handlers
<1>7. \A i : Cardinality({i}) = 1
  BY FS_Singleton
<1>8. Cardinality({}) = 0
  BY FS_EmptySet
<1>9. CASE READ \in evs /\ WRITE \in evs
  <2>0. s = <<a>> \o <<b>>
    BY <1>6, <1>9
  <2>1. <<a>> \in Seq({a, b}) /\ <<b>> \in Seq({a, b}) /\ Len(<<a>>) = 1 /\ Len(<<b>>) = 1
    OBVIOUS
  <2>2. DOMAIN s = 1 .. 2 /\ s[1] = a /\ s[2] = b
    BY <2>0, <2>1
  <2>3. /\ a = f => {i \in DOMAIN s : s[i] = f} = {1}
        /\ b = f => {i \in DOMAIN s : s[i] = f} = {2}
        /\ a # f /\ b # f => {i \in DOMAIN s : s[i] = f} = {}
    BY <1>3, <2>2
  <2> QED
    BY <1>4, <1>5, <1>7, <1>8, <1>9, <2>3
<1>10. CASE READ \in evs /\ WRITE \notin evs
  <2>1. s = <<a>>
    BY <1>6, <1>10
  <2>2. {i \in DOMAIN s : s[i] = f} = IF a = f THEN {1} ELSE {}
    BY <2>1
  <2>3. (\E e \in evs : ctx[fd][e] = f) <=> a = f
    BY <1>4, <1>10
  <2>4. Cardinality({i \in DOMAIN s : s[i] = f}) = IF a = f THEN 1 ELSE 0
    BY <1>7, <1>8, <2>2
  <2> QED
    BY <1>5, <2>3, <2>4
<1>11. CASE READ \notin evs /\ WRITE \in evs
  <2>1. s = <<b>>
    BY <1>6, <1>11
  <2>2. {i \in DOMAIN s : s[i] = f} = IF b = f THEN {1} ELSE {}
    BY <2>1
  <2>3. (\E e \in evs : ctx[fd][e] = f) <=> b = f
    BY <1>4, <1>11
  <2>4. Cardinality({i \in DOMAIN s : s[i] = f}) = IF b = f THEN 1 ELSE 0
    BY <1>7, <1>8, <2>2
  <2> QED
    BY <1>5, <2>3, <2>4
<1>12. CASE READ \notin evs /\ WRITE \notin evs
  <2>1. s = <<>>
    BY <1>6, <1>12
  <2>2. {i \in DOMAIN s : s[i] = f} = {}
    BY <2>1
  <2> QED
    BY <1>4, <1>5, <1>8, <1>12, <2>2
<1> QED
  BY <1>9, <1>10, <1>11, <1>12

\* A fiber keeps its way back while it waits, and needs none while it does not.
Same(f) ==
    \/ pc'[f] = pc[f] /\ call'[f] = call[f] /\ Alarms(f)' = Alarms(f)
    \/ pc[f] \notin {"parked", "asleep"} /\ pc'[f] \notin {"parked", "asleep"}

LEMMA WayKept ==
    ASSUME CallInv, NEW f \in Fiber, Way(f), Same(f), tasks'[f] = tasks[f],
           \A fd \in Fd, ev \in Event : ctx'[fd][ev] = f <=> ctx[fd][ev] = f
    PROVE  Way(f)'
<1>1. pc[f] = "parked" => call[f].fd \in Fd /\ call[f].ev \in Event
  BY DEF CallInv, Trying, Calls
<1> QED
  BY <1>1 DEF Way, Same

LEMMA WaysKept ==
    ASSUME CallInv, BackInv, UNCHANGED <<tasks, ctx>>, \A f \in Fiber : Same(f)
    PROVE  BackInv'
BY WayKept DEF BackInv

\* A registration that ends becomes one task of the fiber that waits.
LEMMA EndsWaitsBack ==
    ASSUME FdInv, CallInv, BackInv, EndsWaits, \A f \in Fiber : Same(f)
    PROVE  BackInv'
<1>1. PICK fd \in Fd : \E evs, watched \in SUBSET events[fd] :
         /\ \E ready : Watch(fd, watched, ready)
         /\ Unregister(fd, evs) /\ Schedule(Handlers(fd, evs))
  BY DEF EndsWaits
<1>2. PICK evs \in SUBSET events[fd] :
         /\ Schedule(Handlers(fd, evs))
         /\ \A d \in Fd, e \in Event :
               ctx'[d][e] = IF d = fd /\ e \in evs THEN None ELSE ctx[d][e]
  BY <1>1, UnregisterInv
<1>3. evs \in SUBSET Event
  BY DEF FdInv
<1>4. ASSUME NEW f \in Fiber
      PROVE  tasks'[f] = tasks[f] + IF \E e \in evs : ctx[fd][e] = f THEN 1 ELSE 0
  <2>1. \A d, e \in Event : ctx[fd][d] = f /\ ctx[fd][e] = f => d = e
    BY DEF BackInv, Way
  <2> QED
    BY <1>2, <1>3, <2>1, HandlersCount DEF Schedule
<1>5. tasks' \in [Fiber -> Nat]
  <2>1. tasks' = [f \in Fiber |-> tasks'[f]]
    BY <1>2 DEF Schedule
  <2>2. \A f \in Fiber : tasks'[f] \in Nat
    BY <1>4 DEF BackInv
  <2> QED
    BY <2>1, <2>2
<1>6. ASSUME NEW f \in Fiber PROVE Way(f)'
  <2>0. None # f /\ Way(f) /\ Same(f)
    BY HookedIOAssumption DEF BackInv
  <2>1. CASE \E e \in evs : ctx[fd][e] = f
    <3>1. PICK e \in evs : ctx[fd][e] = f
      BY <2>1
    <3>2. pc[f] = "parked" /\ call[f].fd = fd /\ call[f].ev = e /\ tasks[f] = 0
      BY <1>3, <2>0, <3>1 DEF Way
    <3>3. \A d \in Fd, k \in Event : ctx'[d][k] # f
      <4>1. \A d \in Fd, k \in Event : ctx[d][k] = f => d = fd /\ k = e
        BY <2>0, <3>2 DEF Way
      <4> QED
        BY <1>2, <2>0, <4>1
    <3>4. pc'[f] = "parked" /\ tasks'[f] = 1
      BY <1>4, <2>0, <2>1, <3>2 DEF Same
    <3> QED
      BY <3>3, <3>4 DEF Way
  <2>2. CASE ~\E e \in evs : ctx[fd][e] = f
    <3>1. tasks'[f] = tasks[f]
      BY <1>4, <2>2 DEF BackInv
    <3>2. \A d \in Fd, k \in Event : ctx'[d][k] = f <=> ctx[d][k] = f
      BY <1>2, <2>0, <2>2
    <3> QED
      BY <2>0, <3>1, <3>2, WayKept
  <2> QED
    BY <2>1, <2>2
<1> QED
  BY <1>5, <1>6 DEF BackInv
\* What leaves timers, owners and aims alone leaves the alarms of sleeps alone.
LEMMA AlarmsKept ==
    ASSUME UNCHANGED <<phase, handed, owner, goal>>, NEW f
    PROVE  Alarms(f)' = Alarms(f)
BY DEF Alarms, TimerOf

\* The step is one of f, and no sleep of another fiber is touched.
Others(f) ==
    \A g \in Fiber \ {f} : pc'[g] = pc[g] /\ call'[g] = call[g] /\ Alarms(g)' = Alarms(g)

LEMMA AlarmsElsewhere ==
    ASSUME TimerInv, CallInv, NEW f \in Fiber
    PROVE  /\ Return(f) /\ (UNCHANGED contractVars \/ CancelTimeout(f)) => Others(f)
           /\ StopTimer(f) => Others(f)
           /\ UNCHANGED <<contractVars, owner, goal>> /\ (\E label \in Labels : Goto(f, label))
                /\ (\A g \in Fiber \ {f} : call'[g] = call[g]) => Others(f)
<1>1. ASSUME Return(f), UNCHANGED contractVars \/ CancelTimeout(f) PROVE Others(f)
  <2>1. /\ handed' = handed
        /\ \A t \in Timer : owner[t] # f => phase'[t] = phase[t]
    BY <1>1, CancelTimeoutStops DEF contractVars
  <2>2. /\ \A g \in Fiber \ {f} : pc'[g] = pc[g] /\ call'[g] = call[g]
        /\ \A t \in Timer : owner'[t] = IF owner[t] = f THEN None ELSE owner[t]
        /\ goal' = goal
    BY <1>1 DEF Return, Goto, CallInv
  <2>3. ASSUME NEW g \in Fiber \ {f} PROVE Alarms(g)' = Alarms(g)
    BY <2>1, <2>2, HookedIOAssumption DEF Alarms, TimerOf
  <2> QED
    BY <2>2, <2>3 DEF Others
<1>2. ASSUME StopTimer(f) PROVE Others(f)
  <2>1. /\ handed' = handed
        /\ \A t \in Timer : owner[t] # f => phase'[t] = phase[t]
    BY <1>2, CancelTimeoutStops DEF StopTimer
  <2>2. /\ \A g \in Fiber \ {f} : pc'[g] = pc[g] /\ call'[g] = call[g]
        /\ owner' = owner /\ goal' = goal
    BY <1>2 DEF StopTimer, Goto, CallInv, handlerVars
  <2>3. ASSUME NEW g \in Fiber \ {f} PROVE Alarms(g)' = Alarms(g)
    BY <2>1, <2>2 DEF Alarms, TimerOf
  <2> QED
    BY <2>2, <2>3 DEF Others
<1>3. ASSUME UNCHANGED <<contractVars, owner, goal>>, NEW label \in Labels, Goto(f, label),
             \A g \in Fiber \ {f} : call'[g] = call[g]
      PROVE  Others(f)
  BY <1>3, AlarmsKept DEF Others, contractVars, Goto, CallInv
<1> QED
  BY <1>1, <1>2, <1>3

\* Nor by a timer that is armed: whose it was before, it was over.
LEMMA ArmElsewhere ==
    ASSUME TimerInv, CallInv, NEW f \in Fiber, NEW t \in Timer \ firing, NEW what, NEW label,
           ArmTimer(t), owner' = [owner EXCEPT ![t] = f], goal' = [goal EXCEPT ![t] = what],
           Goto(f, label), call' = call
    PROVE  Others(f)
<1>1. /\ phase[t] # "armed" /\ t \notin handed /\ handed' = handed
      /\ \A s \in Timer : s # t =>
            phase'[s] = phase[s] /\ owner'[s] = owner[s] /\ goal'[s] = goal[s]
      /\ owner'[t] = f
  BY DEF ArmTimer, TimerInv
<1>2. ASSUME NEW g \in Fiber \ {f} PROVE Alarms(g)' = Alarms(g)
  <2>1. \A s \in Timer : s \in Alarms(g)' <=> s \in Alarms(g)
    BY <1>1 DEF Alarms, TimerOf
  <2>2. Alarms(g)' \subseteq Timer /\ Alarms(g) \subseteq Timer
    BY DEF Alarms, TimerOf
  <2> QED
    BY <2>1, <2>2
<1> QED
  BY <1>2 DEF Others, Goto, CallInv

\* A step of f changes its own way back only.
LEMMA OthersKeep ==
    ASSUME CallInv, BackInv, NEW f \in Fiber, Others(f),
           tasks' \in [Fiber -> Nat],
           \A g \in Fiber \ {f} : /\ tasks'[g] = tasks[g]
                                  /\ \A fd \in Fd, ev \in Event :
                                        ctx'[fd][ev] = g <=> ctx[fd][ev] = g,
           Way(f)'
    PROVE  BackInv'
<1>1. ASSUME NEW g \in Fiber \ {f} PROVE Way(g)'
  BY WayKept DEF BackInv, Others, Same
<1> QED
  BY <1>1 DEF BackInv

LEMMA NotWaiting ==
    ASSUME CallInv, NEW f \in Fiber, Others(f), pc[f] \notin {"parked", "asleep"},
           pc'[f] \notin {"parked", "asleep"}
    PROVE  \A g \in Fiber : Same(g)
BY DEF Others, Same

\* The way back is taken: the task is resumed.
LEMMA TaskTaken ==
    ASSUME CallInv, BackInv, NEW f \in Fiber, Others(f), tasks[f] > 0, ctx' = ctx,
           tasks' = [tasks EXCEPT ![f] = @ - 1],
           pc[f] \in {"parked", "asleep"}, pc'[f] \notin {"parked", "asleep"}
    PROVE  BackInv'
<1>1. Way(f) /\ tasks[f] \in Nat /\ tasks \in [Fiber -> Nat]
  BY DEF BackInv
<1>2. tasks[f] = 1 /\ \A fd \in Fd, ev \in Event : ctx[fd][ev] # f
  BY <1>1 DEF Way
<1>3. tasks'[f] = 0 /\ tasks' \in [Fiber -> Nat]
  BY <1>1, <1>2
<1>4. Way(f)'
  BY <1>2, <1>3 DEF Way
<1> QED
  BY <1>1, <1>3, <1>4, OthersKeep

LEMMA RegisterBack ==
    ASSUME FdInv, CallInv, TimerInv, BackInv, NEW f \in Fiber, Register(f)
    PROVE  BackInv'
<1>1. call[f].fd \in Fd /\ call[f].ev \in Event
  BY DEF Register, CallInv, Trying, Calls
<1>2. "parked" \in Labels /\ "refused" \in Labels
  BY DEF Labels, Trying
<1>3. pc[f] = "add" /\ call' = call /\ tasks' = tasks
  BY DEF Register
<1>4. Others(f)
  BY <1>2, <1>3, AlarmsElsewhere DEF Register, handlerVars
<1>5. CASE /\ AddEvent(call[f].fd, call[f].ev, f, call[f].fd \in open, avail[call[f].fd])
           /\ Goto(f, "parked")
  <2>1. pc'[f] = "parked"
    BY <1>5 DEF Goto, CallInv
  <2>2. \A fd \in Fd, ev \in Event :
           ctx'[fd][ev] = IF fd = call[f].fd /\ ev = call[f].ev THEN f ELSE ctx[fd][ev]
    BY <1>1, <1>5 DEF AddEvent, FdInv
  <2>3. ctx[call[f].fd][call[f].ev] = None
    BY <1>1, <1>5 DEF AddEvent, FdInv
  <2>4. tasks[f] = 0 /\ \A fd \in Fd, ev \in Event : ctx[fd][ev] # f
    BY <1>3 DEF BackInv, Way
  <2>5. Way(f)'
    BY <1>1, <1>3, <2>1, <2>2, <2>4 DEF Way
  <2>6. \A g \in Fiber \ {f}, fd \in Fd, ev \in Event : ctx'[fd][ev] = g <=> ctx[fd][ev] = g
    BY <2>2, <2>3, HookedIOAssumption
  <2> QED
    BY <1>3, <1>4, <2>5, <2>6, OthersKeep DEF BackInv
<1>6. CASE Goto(f, "refused") /\ UNCHANGED fdVars
  <2>1. pc'[f] = "refused"
    BY <1>6 DEF Goto, CallInv
  <2> QED
    BY <1>3, <1>4, <1>6, <2>1, NotWaiting, WaysKept DEF fdVars
<1> QED
  BY <1>5, <1>6 DEF Register

LEMMA FiberKeepsWays ==
    ASSUME FdInv, CallInv, TimerInv, BackInv, NEW f \in Fiber, FiberNext(f)
    PROVE  BackInv'
<1>0. Return(f) => pc'[f] = "user"
  BY DEF Return, Goto, CallInv
<1>1. CASE SleepEnds(f)
  <2>1. /\ pc[f] = "asleep" /\ tasks[f] > 0 /\ tasks' = [tasks EXCEPT ![f] = @ - 1]
        /\ Return(f) /\ UNCHANGED contractVars /\ ctx' = ctx
    BY <1>1 DEF SleepEnds, fdVars
  <2>2. Others(f)
    BY <2>1, AlarmsElsewhere
  <2> QED
    BY <1>0, <2>1, <2>2, TaskTaken
<1>2. CASE Resumed(f)
  <2>1. /\ pc[f] = "parked" /\ tasks[f] > 0 /\ tasks' = [tasks EXCEPT ![f] = @ - 1]
        /\ Goto(f, "resumed") /\ UNCHANGED <<contractVars, owner, goal, call>> /\ ctx' = ctx
        /\ "resumed" \in Labels
    BY <1>2 DEF Resumed, fdVars, handlerVars, Labels, Trying
  <2>2. Others(f) /\ pc'[f] = "resumed"
    BY <2>1, AlarmsElsewhere DEF Goto, CallInv
  <2> QED
    BY <2>1, <2>2, TaskTaken
<1>3. CASE CloseEnds(f) \/ Try(f) \/ Refused(f)
  <2>1. /\ pc[f] \notin {"parked", "asleep"} /\ Return(f)
        /\ UNCHANGED contractVars \/ CancelTimeout(f)
        /\ UNCHANGED <<tasks, ctx>>
    BY <1>3 DEF CloseEnds, Try, Refused, fdVars
  <2>2. Others(f)
    BY <2>1, AlarmsElsewhere
  <2> QED
    BY <1>0, <2>1, <2>2, NotWaiting, WaysKept
<1>4. CASE Check(f)
  <2>1. /\ pc[f] = "check" /\ UNCHANGED <<tasks, ctx>> /\ UNCHANGED contractVars
        /\ Return(f) \/ (Goto(f, "try") /\ UNCHANGED <<call, cancelled, handlerVars>>)
        /\ "try" \in Labels
    BY <1>4 DEF Check, fdVars, Labels, Trying
  <2>2. CASE Return(f)
    <3>1. Others(f)
      BY <2>1, <2>2, AlarmsElsewhere
    <3> QED
      BY <1>0, <2>1, <2>2, <3>1, NotWaiting, WaysKept
  <2>3. CASE Goto(f, "try") /\ UNCHANGED <<call, cancelled, handlerVars>>
    <3>1. Others(f) /\ pc'[f] = "try"
      BY <2>1, <2>3, AlarmsElsewhere DEF handlerVars, Goto, CallInv
    <3> QED
      BY <2>1, <3>1, NotWaiting, WaysKept
  <2> QED
    BY <2>1, <2>2, <2>3
<1>5. CASE CloseCancelsAll(f)
  <2>1. /\ pc[f] = "cancelAll" /\ Goto(f, "closing") /\ "closing" \in Labels
        /\ UNCHANGED <<contractVars, owner, goal, call>>
    BY <1>5 DEF CloseCancelsAll, handlerVars, Labels, Closing
  <2>2. Others(f) /\ pc'[f] = "closing"
    BY <2>1, AlarmsElsewhere DEF Goto, CallInv
  <2>3. \A g \in Fiber : Same(g)
    BY <2>1, <2>2, NotWaiting
  <2> QED
    BY <1>5, <2>3, CloseCancelsAllEnds, EndsWaitsBack, WaysKept DEF fdVars
<1>6. CASE WouldBlock(f)
  <2>1. /\ pc[f] = "try" /\ Goto(f, "add") /\ UNCHANGED <<call, tasks, ctx>> /\ "add" \in Labels
    BY <1>6 DEF WouldBlock, fdVars, Labels, Trying
  <2>2. Others(f)
    <3>1. CASE call[f].timed
      BY <1>6, <2>1, <3>1, ArmElsewhere DEF WouldBlock
    <3>2. CASE ~call[f].timed
      <4>1. UNCHANGED <<contractVars, owner, goal>>
        BY <1>6, <3>2 DEF WouldBlock
      <4> QED
        BY <2>1, <4>1, AlarmsElsewhere
    <3> QED
      BY <3>1, <3>2
  <2>3. pc'[f] = "add"
    BY <2>1 DEF Goto, CallInv
  <2> QED
    BY <2>1, <2>2, <2>3, NotWaiting, WaysKept
<1>7. CASE Register(f)
  BY <1>7, RegisterBack
<1>8. CASE StopTimer(f)
  <2>1. /\ pc[f] = "resumed" /\ Others(f) /\ UNCHANGED <<tasks, ctx>> /\ Goto(f, "check")
    BY <1>8, AlarmsElsewhere DEF StopTimer, fdVars
  <2>2. pc'[f] = "check"
    BY <2>1 DEF Goto, CallInv
  <2> QED
    BY <2>1, <2>2, NotWaiting, WaysKept
<1> QED
  BY <1>1, <1>2, <1>3, <1>4, <1>5, <1>6, <1>7, <1>8 DEF FiberNext
LEMMA UserKeepsWays ==
    ASSUME CallInv, TimerInv, BackInv, NEW f \in Fiber, UserNext(f)
    PROVE  BackInv'
<1>1. CASE Sleep(f)
  <2>1. PICK t \in Timer \ firing :
           /\ ArmTimer(t)
           /\ owner' = [owner EXCEPT ![t] = f]
           /\ goal' = [goal EXCEPT ![t] = None]
    BY <1>1 DEF Sleep
  <2>2. /\ pc[f] = "user" /\ Goto(f, "asleep") /\ call' = call /\ tasks' = tasks /\ ctx' = ctx
    BY <1>1 DEF Sleep, UserCall, fdVars
  <2>3. Others(f) /\ pc'[f] = "asleep"
    BY <2>1, <2>2, ArmElsewhere DEF Goto, CallInv
  <2>4. TimerOf(f) = {}
    BY <2>2, OwnerFacts DEF TimerOf
  <2>5. Alarms(f)' = {t}
    <3>1. TimerOf(f)' = {t} /\ goal'[t] = None /\ phase'[t] = "armed"
      BY <2>1, <2>4 DEF TimerOf, ArmTimer, TimerInv
    <3> QED
      BY <3>1 DEF Alarms
  <2>6. tasks[f] = 0 /\ \A fd \in Fd, ev \in Event : ctx[fd][ev] # f
    BY <2>2 DEF BackInv, Way
  <2>7. Way(f)'
    BY <2>2, <2>3, <2>5, <2>6 DEF Way
  <2> QED
    BY <2>2, <2>3, <2>7, OthersKeep DEF BackInv
<1>2. ASSUME UNCHANGED <<contractVars, handlerVars, pc, call, tasks, ctx>> PROVE BackInv'
  BY <1>2, AlarmsKept, WaysKept DEF Same, contractVars, handlerVars
<1>3. CASE /\ pc[f] = "user" /\ UNCHANGED <<contractVars, handlerVars, tasks, ctx>>
           /\ \E c : call' = [call EXCEPT ![f] = c]
           /\ Goto(f, "try") \/ Goto(f, "cancelAll")
  <2>1. "try" \in Labels /\ "cancelAll" \in Labels
    BY DEF Labels, Trying, Closing
  <2>2. \A g \in Fiber \ {f} : call'[g] = call[g]
    BY <1>3 DEF CallInv
  <2>3. Others(f)
    BY <1>3, <2>1, <2>2, AlarmsElsewhere DEF handlerVars
  <2>4. pc'[f] \in {"try", "cancelAll"}
    BY <1>3 DEF Goto, CallInv
  <2> QED
    BY <1>3, <2>3, <2>4, NotWaiting, WaysKept
<1>4. ASSUME NEW fd \in Fd, Socket(f, fd) \/ Close(f, fd) \/ Connect(f, fd) PROVE BackInv'
  <2>1. CASE Socket(f, fd)
    BY <1>2, <2>1 DEF Socket, callVars, fdVars
  <2>2. CASE Close(f, fd) \/ Connect(f, fd)
    BY <1>3, <2>2 DEF Close, Connect, Enter, UserCall, fdVars
  <2> QED
    BY <1>4, <2>1, <2>2
<1>5. ASSUME NEW fd \in Fd, NEW ev \in Event, SetTimeout(f, fd, ev) \/ DoIO(f, fd, ev)
      PROVE  BackInv'
  <2>1. CASE SetTimeout(f, fd, ev)
    BY <1>2, <2>1 DEF SetTimeout, callVars, fdVars
  <2>2. CASE DoIO(f, fd, ev)
    BY <1>3, <2>2 DEF DoIO, Enter, UserCall, fdVars
  <2> QED
    BY <1>5, <2>1, <2>2
<1> QED
  BY <1>1, <1>4, <1>5 DEF UserNext

\* The callback of a sleep is the task that ends it; that of a timeout makes no task.
LEMMA CallbackBack ==
    ASSUME CallInv, TimerInv, BackInv, NEW t \in Timer, Callback(t)
    PROVE  BackInv'
<1>1. /\ t \in handed /\ handed' = handed \ {t}
      /\ UNCHANGED <<phase, owner, goal, pc, call, ctx>>
      /\ phase[t] = "over"
  BY DEF Callback, CallbackRuns, TimerInv, fdVars
<1>2. ASSUME NEW g \in Fiber, owner[t] # g \/ goal[t] # None PROVE Same(g)
  <2>1. Alarms(g)' = Alarms(g)
    BY <1>1, <1>2 DEF Alarms, TimerOf
  <2> QED
    BY <1>1, <2>1 DEF Same
<1>3. CASE owner[t] # None /\ goal[t] = None
  <2>1. PICK f \in Fiber : f = owner[t]
    BY <1>3, OwnerFacts
  <2>2. tasks' = [tasks EXCEPT ![f] = @ + 1]
    BY <1>3, <2>1 DEF Callback
  <2>3. pc[f] = "asleep" /\ t \in Alarms(f)
    BY <1>1, <1>3, <2>1 DEF TimerInv, Alarms, TimerOf
  <2>4. tasks[f] = 0 /\ Alarms(f) = {t} /\ tasks \in [Fiber -> Nat]
    BY <2>3 DEF BackInv, Way
  <2>5. Alarms(f)' = {}
    <3>1. Alarms(f)' \subseteq Alarms(f) /\ t \notin Alarms(f)'
      BY <1>1 DEF Alarms, TimerOf
    <3> QED
      BY <2>4, <3>1
  <2>6. tasks'[f] = 1 /\ tasks' \in [Fiber -> Nat]
    BY <2>2, <2>4
  <2>7. \A fd \in Fd, ev \in Event : ctx[fd][ev] # f
    BY <2>3 DEF BackInv, Way
  <2>8. Way(f)'
    BY <1>1, <2>3, <2>5, <2>6, <2>7 DEF Way
  <2>9. \A g \in Fiber \ {f} : Same(g) /\ tasks'[g] = tasks[g]
    BY <1>2, <2>1, <2>2, <2>4
  <2>10. ASSUME NEW g \in Fiber \ {f} PROVE Way(g)'
    BY <1>1, <2>9, WayKept DEF BackInv
  <2> QED
    BY <2>6, <2>8, <2>10 DEF BackInv
<1>4. CASE ~(owner[t] # None /\ goal[t] = None)
  <2>1. tasks' = tasks
    BY <1>4 DEF Callback
  <2>2. \A g \in Fiber : Same(g)
    BY <1>2, <1>4, HookedIOAssumption
  <2> QED
    BY <1>1, <2>1, <2>2, WaysKept
<1> QED
  BY <1>3, <1>4

LEMMA NextBack == FdInv /\ CallInv /\ TimerInv /\ BackInv /\ [Next]_vars => BackInv'
<1> SUFFICES ASSUME FdInv, CallInv, TimerInv, BackInv, [Next]_vars PROVE BackInv'
  OBVIOUS
<1>1. ASSUME UNCHANGED <<contractVars, owner, goal, pc, call>> PROVE \A f \in Fiber : Same(f)
  BY <1>1, AlarmsKept DEF Same, contractVars
<1>2. ASSUME NEW t \in Timer, TimerNext(t) PROVE BackInv'
  <2>1. CASE TimerExpires(t)
    <3>1. /\ phase[t] = "armed" /\ UNCHANGED <<owner, goal, pc, call, tasks, ctx>>
          /\ \A s \in Timer : phase'[s] = IF s = t THEN "over" ELSE phase[s]
          /\ handed' = handed \cup {t}
      BY <2>1, HookedIOAssumption
         DEF TimerExpires, ExpireTimers, handlerVars, callVars, fdVars
    <3>2. ASSUME NEW f \in Fiber PROVE Alarms(f)' = Alarms(f)
      BY <3>1 DEF Alarms, TimerOf
    <3> QED
      BY <3>1, <3>2, WaysKept DEF Same
  <2>2. CASE Callback(t)
    BY <2>2, CallbackBack
  <2>3. CASE CallbackCancels(t)
    BY <1>1, <2>3, CallbackCancelsEnds, EndsWaitsBack, WaysKept
       DEF CallbackCancels, callVars, fdVars
  <2> QED
    BY <1>2, <2>1, <2>2, <2>3 DEF TimerNext
<1>3. ASSUME NEW fd \in Fd, NEW ev \in Event, EpollNext(fd, ev) \/ Arrives(fd, ev)
      PROVE  BackInv'
  <2>1. UNCHANGED <<contractVars, owner, goal, pc, call>>
    BY <1>3 DEF EpollNext, EpollReturns, HandleReport, Arrives, handlerVars, callVars
  <2>2. CASE HandleReport(fd, ev)
    BY <1>1, <2>1, <2>2, HandleReportEnds, EndsWaitsBack, WaysKept DEF fdVars
  <2>3. CASE EpollReturns(fd, ev) \/ Arrives(fd, ev)
    <3>1. UNCHANGED <<tasks, ctx>>
      BY <2>3 DEF BecomesReady, EpollReturns, Arrives, fdVars
    <3> QED
      BY <1>1, <2>1, <3>1, WaysKept
  <2> QED
    BY <1>3, <2>2, <2>3 DEF EpollNext
<1>4. CASE UNCHANGED vars
  BY <1>1, <1>4, WaysKept DEF vars, handlerVars, callVars, fdVars
<1> QED
  BY <1>2, <1>3, <1>4, FiberKeepsWays, UserKeepsWays DEF Next

-----------------------------------------------------------------------------
(* The theorems.                                                           *)

LEMMA Invariant == Spec => []IInv
<1>1. Init => IInv
  BY InitFd, InitCall, InitTimer, InitBack DEF IInv
<1>2. IInv /\ [Next]_vars => IInv'
  BY NextFd, NextKernel, NextCall, NextTimers, NextBack DEF IInv
<1> QED
  BY <1>1, <1>2, PTL DEF Spec

\* A call cancels its timer on every way out (do_io, connect_with_timeout): what is armed
\* belongs to a fiber that waits or is about to, whatever has happened to it meanwhile.
THEOREM TimersHaveCallers == Spec => []TimersBelongToWaits
<1>1. IInv => TimersBelongToWaits
  <2>1. ASSUME TimerInv, NEW t \in Timer, phase[t] = "armed"
        PROVE  \E f \in Fiber : owner[t] = f /\ pc[f] \in Armable
    BY <2>1 DEF TimerInv
  <2> QED
    BY <2>1 DEF IInv, TimersBelongToWaits, Armable
<1> QED
  BY <1>1, Invariant, PTL

\* Event, timeout and close(), however they meet on any descriptors, resume a fiber that
\* waits in a hooked call once, and leave nothing behind for its next call, under FIFO.
THEOREM EachHasOneWayBack == Spec => []OneWayBack
<1>1. ASSUME IInv, NEW f \in Fiber
      PROVE  tasks[f] + Cardinality(Alarms(f))
                 + Cardinality({r \in Fd \X Event : ctx[r[1]][r[2]] = f})
                 = IF pc[f] \in {"parked", "asleep"} THEN 1 ELSE 0
  <2>0. Way(f) /\ CallInv /\ TimerInv
    BY <1>1 DEF IInv, BackInv
  <2>1. Cardinality({}) = 0 /\ \A x : Cardinality({x}) = 1
    BY FS_EmptySet, FS_Singleton
  <2> DEFINE W == {r \in Fd \X Event : ctx[r[1]][r[2]] = f}
  <2>2. pc[f] # "parked" \/ tasks[f] = 1 => W = {}
    BY <2>0 DEF Way
  <2>3. pc[f] = "parked" /\ tasks[f] = 0 => W = {<<call[f].fd, call[f].ev>>}
    <3>1. SUFFICES ASSUME pc[f] = "parked", tasks[f] = 0
                   PROVE  W = {<<call[f].fd, call[f].ev>>}
      OBVIOUS
    <3>2. call[f].fd \in Fd /\ call[f].ev \in Event /\ ctx[call[f].fd][call[f].ev] = f
      BY <2>0, <3>1 DEF Way, CallInv, Trying, Calls
    <3>3. \A r \in W : r = <<call[f].fd, call[f].ev>>
      BY <2>0 DEF Way
    <3> QED
      BY <3>2, <3>3
  <2>4. pc[f] # "asleep" => Alarms(f) = {}
    BY <2>0, HookedIOAssumption DEF TimerInv, Alarms, TimerOf
  <2> HIDE DEF W
  <2>5. CASE pc[f] = "parked"
    <3>1. \/ tasks[f] = 1 /\ Cardinality(W) = 0
          \/ tasks[f] = 0 /\ Cardinality(W) = 1
      BY <2>0, <2>1, <2>2, <2>3, <2>5 DEF Way
    <3>2. Cardinality(Alarms(f)) = 0
      BY <2>1, <2>4, <2>5
    <3> QED
      BY <2>5, <3>1, <3>2 DEF W
  <2>6. CASE pc[f] = "asleep"
    <3>1. \/ tasks[f] = 1 /\ Cardinality(Alarms(f)) = 0
          \/ tasks[f] = 0 /\ Cardinality(Alarms(f)) = 1
      BY <2>0, <2>1, <2>6 DEF Way
    <3>2. Cardinality(W) = 0
      BY <2>1, <2>2, <2>6
    <3> QED
      BY <2>6, <3>1, <3>2 DEF W
  <2>7. CASE pc[f] \notin {"parked", "asleep"}
    <3>1. tasks[f] = 0 /\ Cardinality(W) = 0 /\ Cardinality(Alarms(f)) = 0
      BY <2>0, <2>1, <2>2, <2>4, <2>7 DEF Way
    <3> QED
      BY <2>7, <3>1 DEF W
  <2> QED
    BY <2>5, <2>6, <2>7
<1>2. IInv => OneWayBack
  BY <1>1 DEF OneWayBack
<1> QED
  BY <1>2, Invariant, PTL

\* Types of the hooked calls' state; a fiber has one task queued at most, and the count
\* stopping() reads is never negative.
THEOREM TypeCorrect == Spec => []TypeOK
<1>1. ASSUME IInv PROVE TypeOK
  <2>1. FdTypeOK
    BY <1>1, RegisteredFinite DEF IInv, FdInv, FdTypeOK
  <2>2. tasks \in [Fiber -> 0 .. 1]
    <3>1. \A f \in Fiber : tasks[f] \in 0 .. 1
      BY <1>1 DEF IInv, BackInv, Way
    <3> QED
      BY <1>1, <3>1 DEF IInv, BackInv
  <2>3. \A f \in Fiber : call[f] = None \/ call[f].fd \in Fd
    BY <1>1 DEF IInv, CallInv, Calls
  <2>4. pc \in [Fiber -> {"user", "asleep", "cancelAll", "closing", "try", "add",
                          "parked", "refused", "resumed", "check"}]
    BY <1>1 DEF IInv, CallInv, Labels, Trying, Closing
  <2> QED
    BY <1>1, <2>1, <2>2, <2>3, <2>4 DEF IInv, KernelInv, CallInv, TimerInv, TypeOK
<1>2. IInv => TypeOK
  BY <1>1
<1> QED
  BY <1>2, Invariant, PTL

-----------------------------------------------------------------------------
(* What close() guarantees, since some fiber may stay behind.              *)

\* A descriptor that has a context is open, and one fiber at a time closes it.
CloseInv ==
    /\ \A fd \in Fd : fdCtx[fd] # "none" => fd \in open
    /\ \A f \in Fiber : pc[f] \in Closing => fdCtx[call[f].fd] = "closed"
    /\ \A f, g \in Fiber :
          pc[f] \in Closing /\ pc[g] \in Closing /\ call[f].fd = call[g].fd => f = g

\* Who is closing goes on with it, and nobody else begins to.
LEMMA CloseInvKept ==
    ASSUME CloseInv, UNCHANGED <<open, fdCtx>>,
           \A f \in Fiber : pc'[f] \in Closing => pc[f] \in Closing /\ call'[f] = call[f]
    PROVE  CloseInv'
BY DEF CloseInv

LEMMA NextClose == CallInv /\ KernelInv /\ CloseInv /\ [Next]_vars => CloseInv'
<1> SUFFICES ASSUME CallInv, KernelInv, CloseInv, [Next]_vars PROVE CloseInv'
  OBVIOUS
<1>1. ASSUME NEW f \in Fiber, UserNext(f) PROVE CloseInv'
  <2>1. ASSUME NEW fd \in Fd, Socket(f, fd) PROVE CloseInv'
    <3>1. /\ fd \notin open /\ open' = open \cup {fd} /\ fdCtx'[fd] = "open"
          /\ \A d \in Fd \ {fd} : fdCtx'[d] = fdCtx[d]
          /\ UNCHANGED <<pc, call>>
      BY <2>1 DEF Socket, callVars, KernelInv
    <3>2. \A g \in Fiber : pc[g] \in Closing => call[g].fd \in Fd \ {fd}
      BY <3>1 DEF CloseInv, CallInv, Calls
    <3> QED
      BY <3>1, <3>2 DEF CloseInv
  <2>2. ASSUME NEW fd \in Fd, Close(f, fd) PROVE CloseInv'
    <3>1. /\ fdCtx[fd] = "open" /\ fdCtx'[fd] = "closed"
          /\ \A d \in Fd \ {fd} : fdCtx'[d] = fdCtx[d]
          /\ call'[f].fd = fd /\ UNCHANGED open
          /\ \A g \in Fiber \ {f} : pc'[g] = pc[g] /\ call'[g] = call[g]
      BY <2>2 DEF Close, Goto, kernelVars, KernelInv, CallInv
    <3>2. \A g \in Fiber : pc[g] \in Closing => call[g].fd \in Fd \ {fd}
      BY <3>1 DEF CloseInv, CallInv, Calls
    <3> QED
      BY <3>1, <3>2 DEF CloseInv
  <2>3. CASE \/ Sleep(f)
             \/ \E fd \in Fd : \/ Connect(f, fd)
                               \/ \E ev \in Event : SetTimeout(f, fd, ev) \/ DoIO(f, fd, ev)
    <3>1. /\ UNCHANGED <<open, fdCtx>>
          /\ \A g \in Fiber \ {f} : pc'[g] = pc[g] /\ call'[g] = call[g]
          /\ pc'[f] \in {"user", "asleep", "try"}
      BY <2>3 DEF Sleep, Connect, DoIO, Enter, SetTimeout, UserCall, Goto, callVars, kernelVars,
                  CallInv
    <3>2. pc'[f] \notin Closing
      BY <3>1 DEF Closing
    <3> QED
      BY <3>1, <3>2, CloseInvKept
  <2> QED
    BY <1>1, <2>1, <2>2, <2>3 DEF UserNext
<1>2. ASSUME NEW f \in Fiber, FiberNext(f) PROVE CloseInv'
  <2>1. CASE CloseCancelsAll(f)
    <3>1. /\ UNCHANGED <<open, fdCtx, call>> /\ pc[f] \in Closing
          /\ \A g \in Fiber \ {f} : pc'[g] = pc[g]
      BY <2>1 DEF CloseCancelsAll, Goto, kernelVars, CallInv, Closing
    <3> QED
      BY <3>1, CloseInvKept
  <2>2. CASE CloseEnds(f)
    <3>1. PICK fd \in Fd : fd = call[f].fd
      BY <2>2 DEF CloseEnds, CallInv, Closing, Calls
    <3>2. /\ pc[f] \in Closing /\ pc'[f] \notin Closing
          /\ open' = open \ {fd} /\ fdCtx'[fd] = "none"
          /\ \A d \in Fd \ {fd} : fdCtx'[d] = fdCtx[d]
          /\ \A g \in Fiber \ {f} : pc'[g] = pc[g] /\ call'[g] = call[g]
      BY <2>2, <3>1 DEF CloseEnds, Return, Goto, KernelInv, CallInv, Closing
    <3>3. \A g \in Fiber \ {f} : pc[g] \in Closing => call[g].fd \in Fd \ {fd}
      BY <3>1, <3>2 DEF CloseInv, CallInv, Calls
    <3> QED
      BY <3>2, <3>3 DEF CloseInv
  <2>3. CASE SleepEnds(f) \/ Try(f) \/ Refused(f) \/ Check(f)
    <3>1. /\ UNCHANGED <<open, fdCtx>>
          /\ \A g \in Fiber \ {f} : pc'[g] = pc[g] /\ call'[g] = call[g]
          /\ pc'[f] \in {"user", "try"}
      BY <2>3 DEF SleepEnds, Try, Refused, Check, Return, Goto, kernelVars, CallInv
    <3>2. pc'[f] \notin Closing
      BY <3>1 DEF Closing
    <3> QED
      BY <3>1, <3>2, CloseInvKept
  <2>4. CASE WouldBlock(f) \/ Register(f) \/ Resumed(f) \/ StopTimer(f)
    <3>1. /\ UNCHANGED <<open, fdCtx, call>>
          /\ \A g \in Fiber \ {f} : pc'[g] = pc[g]
          /\ pc'[f] \in {"add", "parked", "refused", "resumed", "check"}
      BY <2>4 DEF WouldBlock, Register, Resumed, StopTimer, Goto, kernelVars, CallInv
    <3>2. pc'[f] \notin Closing
      BY <3>1 DEF Closing
    <3> QED
      BY <3>1, <3>2, CloseInvKept
  <2> QED
    BY <1>2, <2>1, <2>2, <2>3, <2>4 DEF FiberNext
<1>3. ASSUME UNCHANGED <<open, fdCtx, pc, call>> PROVE CloseInv'
  BY <1>3, CloseInvKept
<1>4. ASSUME NEW t \in Timer, TimerNext(t) PROVE CloseInv'
  BY <1>3, <1>4 DEF TimerNext, TimerExpires, Callback, CallbackCancels, callVars, kernelVars
<1>5. ASSUME NEW fd \in Fd, NEW ev \in Event, EpollNext(fd, ev) \/ Arrives(fd, ev)
      PROVE  CloseInv'
  BY <1>3, <1>5 DEF EpollNext, EpollReturns, HandleReport, Arrives, callVars,
                    kernelVars
<1>6. CASE UNCHANGED vars
  BY <1>3, <1>6 DEF vars, callVars, kernelVars
<1> QED
  BY <1>1, <1>2, <1>4, <1>5, <1>6 DEF Next

\* Registering and unregistering tell epoll the same.
LEMMA WatchedAlike ==
    ASSUME FdInv, NEW d \in Fd,
           \/ \E ev \in Event, f \in Fiber : AddEvent(d, ev, f, d \in open, avail[d])
           \/ \E ev \in Event : RemoveEvent(d, ev, d \in open, avail[d])
           \/ RemoveAll(d, d \in open)
           \/ \E ev \in Event : Dispatch(d, {ev}, d \in open, avail[d])
    PROVE  /\ interest'[d] = events'[d]
           /\ \A fd \in Fd \ {d} : interest'[fd] = interest[fd] /\ events'[fd] = events[fd]
<1>1. CASE \E ev \in Event, f \in Fiber : AddEvent(d, ev, f, d \in open, avail[d])
  BY <1>1 DEF AddEvent, Watch, FdInv
<1>2. CASE \E ev \in Event : RemoveEvent(d, ev, d \in open, avail[d])
  BY <1>2 DEF RemoveEvent, Watch, Unregister, FdInv
<1>3. CASE RemoveAll(d, d \in open)
  BY <1>3 DEF RemoveAll, Watch, Unregister, FdInv
<1>4. CASE \E ev \in Event : Dispatch(d, {ev}, d \in open, avail[d])
  BY <1>4 DEF Dispatch, Watch, Unregister, FdInv
<1> QED
  BY <1>1, <1>2, <1>3, <1>4

\* An event that is registered is one that epoll watches, until the kernel closes the
\* descriptor.
OnlyCloseForgets ==
    \A fd \in Fd : interest[fd] = events[fd] /\ interest'[fd] # events'[fd] =>
        \E f \in Fiber : CloseEnds(f) /\ call[f].fd = fd

LEMMA NextForgets == FdInv /\ CallInv /\ TimerInv /\ [Next]_vars => OnlyCloseForgets
<1> SUFFICES ASSUME FdInv, CallInv, TimerInv, [Next]_vars, NEW fd \in Fd,
                    interest[fd] = events[fd], interest'[fd] # events'[fd]
             PROVE  \E f \in Fiber : CloseEnds(f) /\ call[f].fd = fd
  BY DEF OnlyCloseForgets
<1>1. ASSUME UNCHANGED <<interest, events>> PROVE FALSE
  BY <1>1
<1>2. ASSUME NEW f \in Fiber, FiberNext(f) PROVE CloseEnds(f) /\ call[f].fd = fd
  <2>1. CASE CloseEnds(f)
    <3>1. /\ events' = events
          /\ call[f].fd # fd => interest'[fd] = interest[fd]
      BY <2>1 DEF CloseEnds, FdInv
    <3> QED
      BY <2>1, <3>1
  <2>2. ASSUME CloseCancelsAll(f) PROVE FALSE
    <3>1. call[f].fd \in Fd
      BY <2>2 DEF CloseCancelsAll, CallInv, Closing, Calls
    <3> QED
      BY <1>1, <2>2, <3>1, WatchedAlike DEF CloseCancelsAll, fdVars
  <2>3. ASSUME Register(f) PROVE FALSE
    <3>1. call[f].fd \in Fd /\ call[f].ev \in Event
      BY <2>3 DEF Register, CallInv, Trying, Calls
    <3> QED
      BY <1>1, <2>3, <3>1, WatchedAlike DEF Register, fdVars
  <2> QED
    BY <1>1, <1>2, <2>1, <2>2, <2>3
       DEF FiberNext, SleepEnds, Try, WouldBlock, Resumed, Refused, StopTimer, Check, fdVars
<1>3. ASSUME NEW f \in Fiber, UserNext(f) PROVE FALSE
  BY <1>1, <1>3, UserKeepsFd DEF fdVars
<1>4. ASSUME NEW t \in Timer, TimerNext(t) PROVE FALSE
  <2>1. CASE CallbackCancels(t)
    <3>1. goal[t][1] \in Fd /\ goal[t][2] \in Event
      BY <2>1 DEF CallbackCancels, TimerInv
    <3> QED
      BY <1>1, <2>1, <3>1, WatchedAlike DEF CallbackCancels, fdVars
  <2> QED
    BY <1>1, <1>4, <2>1 DEF TimerNext, TimerExpires, Callback, fdVars
<1>5. ASSUME NEW d \in Fd, NEW ev \in Event, EpollNext(d, ev) \/ Arrives(d, ev) PROVE FALSE
  <2>1. CASE HandleReport(d, ev)
    BY <1>1, <2>1, WatchedAlike DEF HandleReport, fdVars
  <2> QED
    BY <1>1, <1>5, <2>1 DEF EpollNext, BecomesReady, EpollReturns, Arrives, fdVars
<1> QED
  BY <1>1, <1>2, <1>3, <1>4, <1>5 DEF Next, vars, fdVars

\* Unless a registration was forgotten before, every fiber that waits on a descriptor
\* when close() cancels its events has a task then.
CloseWakes ==
    \A f, g \in Fiber :
        LET fd == call[f].fd IN
        CloseCancelsAll(f) /\ interest[fd] = events[fd] /\ pc[g] = "parked" /\ call[g].fd = fd
            => tasks'[g] = 1

LEMMA NextWakes == IInv /\ CloseInv /\ [Next]_vars => CloseWakes
<1> SUFFICES ASSUME IInv, CloseInv, [Next]_vars, NEW f \in Fiber, NEW g \in Fiber,
                    CloseCancelsAll(f), interest[call[f].fd] = events[call[f].fd],
                    pc[g] = "parked", call[g].fd = call[f].fd
             PROVE  tasks'[g] = 1
  BY DEF CloseWakes
<1>1. FdInv' /\ BackInv'
  BY NextFd, NextBack DEF IInv
<1>2. PICK fd \in Fd : fd = call[f].fd /\ fd \in open
  <2>1. pc[f] \in Closing
    BY DEF CloseCancelsAll, Closing
  <2>2. call[f].fd \in Fd
    BY <2>1 DEF IInv, CallInv, Calls
  <2> QED
    BY <2>1, <2>2 DEF CloseInv
<1>3. events'[fd] = {}
  <2>1. CASE RemoveAllRefused(fd, fd \in open) /\ UNCHANGED <<fdVars, tasks>>
    BY <1>2, <2>1 DEF RemoveAllRefused, CtlSucceeds, fdVars
  <2>2. CASE RemoveAll(fd, fd \in open)
    BY <2>2 DEF RemoveAll, Unregister, IInv, FdInv
  <2> QED
    BY <1>2, <2>1, <2>2 DEF CloseCancelsAll
<1>4. call[g].fd = fd /\ call[g].ev \in Event
  BY <1>2 DEF IInv, CallInv, Trying
<1>5. ctx'[fd][call[g].ev] # g
  <2>1. ctx'[fd][call[g].ev] = None
    BY <1>1, <1>3, <1>4 DEF FdInv
  <2> QED
    BY <2>1, HookedIOAssumption
<1>6. pc'[g] = "parked" /\ call'[g] = call[g]
  BY DEF CloseCancelsAll, Goto, IInv, CallInv
<1> QED
  BY <1>1, <1>4, <1>5, <1>6 DEF BackInv, Way

\* close() leaves no fiber behind that waited when it cancelled the events of its
\* descriptor, and epoll watches all that is registered until the kernel closes it: who
\* stays behind registered between these two steps of close(), or had stayed behind on
\* that number before.
THEOREM CloseWakesWaiters == Spec => [][OnlyCloseForgets /\ CloseWakes]_vars
<1>1. Init => CloseInv
  BY DEF Init, CloseInv, Closing
<1>2. IInv /\ CloseInv /\ [Next]_vars => CloseInv'
  BY NextClose DEF IInv
<1>3. IInv /\ CloseInv /\ [Next]_vars => [OnlyCloseForgets /\ CloseWakes]_vars
  BY NextForgets, NextWakes DEF IInv
<1> QED
  BY <1>1, <1>2, <1>3, Invariant, PTL DEF Spec
=============================================================================
