---------------------------- MODULE SharedStack ----------------------------
(***************************************************************************)
(* The fibers of one thread (src/fiber.cpp): resume(), call(), yield(),    *)
(* back() and reset(), with stacks of their own or on shared stack slots.  *)
(*                                                                         *)
(* A shared slot holds the frames of its owner.  Whoever runs on the slot  *)
(* next saves them into the owner's snapshot, up to the stack pointer in   *)
(* its context, and puts its own snapshot in their place.                  *)
(*                                                                         *)
(* A stack is counted from its top, where it starts: cell 1 holds the      *)
(* return address of FiberEntryPoint, the others a frame each.  The thread *)
(* runs one scheduler loop on its own stack, so that t_scheduler_fiber and *)
(* t_thread_fiber are both Main; the context that resume() saves is that   *)
(* fiber's, and only it resumes.  All shared fibers have one stack size,   *)
(* and m_ownerThread is this thread.                                       *)
(***************************************************************************)
EXTENDS Naturals, Sequences

CONSTANTS
    Fiber,
    Shared,     \* the fibers with m_useSharedStack
    Main,       \* the thread's main fiber
    None,
    SlotCount,  \* s_shared_stack_slot_count when the pool is made
    StackSize,  \* bound: cells of a stack
    Local,      \* what a frame may hold
    Zero,       \* the return address below which no frame returns
    Garbage     \* what malloc leaves in a cell

Slot == 0 .. SlotCount - 1
Stack == Slot \cup (Fiber \ Shared)
Cell == Local \cup {Zero, Garbage}

ASSUME SharedStackAssumption ==
    /\ Shared \subseteq Fiber
    /\ SlotCount \in Nat \ {0} /\ StackSize \in Nat \ {0}
    /\ Slot \cap Fiber = {}
    /\ Main \notin Fiber /\ None \notin Fiber \cup Slot \cup {Main}

VARIABLES
    t_fiber,
    sp,                 \* cells in use on the stack of t_fiber; 0 for Main
    m_state,            \* [Fiber -> Fiber::State]
    m_ctx,              \* [Fiber -> the saved sp; 0 if not initialized]
    m_parent,           \* [Fiber -> who called it, with m_returnToParent, or None]
    m_stack,            \* [Fiber -> m_stack, of a shared fiber m_sharedStackSlot]
    m_stackSnapshot,    \* [Fiber -> Seq(Cell)]
    slotOwner,          \* [Slot -> SharedStackSlot::owner; None if expired]
    m_next,             \* the slot the pool gives out next
    memory              \* [Stack -> its cells]

slotVars == <<m_stack, m_stackSnapshot, slotOwner, m_next, memory>>
vars == <<t_fiber, sp, m_state, m_ctx, m_parent, slotVars>>

\* initFiberContext: the return address, and the stack pointer at it.
Started(cells) == [cells EXCEPT ![1] = Zero]
Fresh == [i \in 1 .. StackSize |-> Garbage]

Init ==
    /\ t_fiber = Main
    /\ sp = 0
    /\ m_state = [f \in Fiber |-> "READY"]
    /\ m_ctx = [f \in Fiber |-> IF f \in Shared THEN 0 ELSE 1]
    /\ m_parent = [f \in Fiber |-> None]
    /\ m_stack = [f \in Fiber |-> IF f \in Shared THEN None ELSE f]
    /\ m_stackSnapshot = [f \in Fiber |-> <<>>]
    /\ slotOwner = [s \in Slot |-> None]
    /\ m_next = 0
    /\ memory = [s \in Stack |-> IF s \in Slot THEN Fresh ELSE Started(Fresh)]

-----------------------------------------------------------------------------
(* The code of the running fiber.                                          *)

\* A call, or a local variable, puts a frame on the stack.
Enter(v) ==
    /\ t_fiber # Main
    /\ sp < StackSize
    /\ memory' = [memory EXCEPT ![m_stack[t_fiber]][sp + 1] = v]
    /\ sp' = sp + 1
    /\ UNCHANGED <<t_fiber, m_state, m_ctx, m_parent, m_stack, m_stackSnapshot,
                   slotOwner, m_next>>

Return ==
    /\ t_fiber # Main
    /\ sp > 1
    /\ sp' = sp - 1
    /\ UNCHANGED <<t_fiber, m_state, m_ctx, m_parent, slotVars>>

-----------------------------------------------------------------------------
(* Switching.                                                              *)

\* Mutant: the slots are not a ring.
NextSlotUnwrapped == m_next + 1

\* acquireSlot: round robin.
NextSlot == (m_next + 1) % SlotCount

Saved(cells, depth) == [i \in 1 .. depth |-> cells[i]]
Restored(cells, snapshot) ==
    [i \in 1 .. StackSize |-> IF i <= Len(snapshot) THEN snapshot[i] ELSE cells[i]]

\* Mutant: the snapshot is put in place before the owner's frames are saved.
PrepareRestoresFirst(f) ==
    LET slot == IF m_stack[f] = None THEN m_next ELSE m_stack[f]
        cells == IF m_ctx[f] = 0 THEN Started(memory[slot]) ELSE memory[slot]
        restored == Restored(cells, m_stackSnapshot[f])
        owner == slotOwner[slot]
    IN  /\ m_stack' = [m_stack EXCEPT ![f] = slot]
        /\ m_next' = IF m_stack[f] = None THEN NextSlot ELSE m_next
        /\ slotOwner' = [slotOwner EXCEPT ![slot] = f]
        /\ memory' = [memory EXCEPT ![slot] = IF owner = f THEN cells ELSE restored]
        /\ m_stackSnapshot' =
               IF owner \in {f, None} THEN m_stackSnapshot
               ELSE [m_stackSnapshot EXCEPT ![owner] = Saved(restored, m_ctx[owner])]

\* A slot for the first run; the context, if it has none, which writes to the
\* slot while the owner's frames are still there; then the exchange.  (The owner
\* is never the running fiber: call() refuses that, and only Main resumes.)
PrepareSharedStack(f) ==
    LET slot == IF m_stack[f] = None THEN m_next ELSE m_stack[f]
        cells == IF m_ctx[f] = 0 THEN Started(memory[slot]) ELSE memory[slot]
        owner == slotOwner[slot]
        depth == IF owner = t_fiber THEN sp ELSE m_ctx[owner]
    IN  /\ m_stack' = [m_stack EXCEPT ![f] = slot]
        /\ m_next' = IF m_stack[f] = None THEN NextSlot ELSE m_next
        /\ slotOwner' = [slotOwner EXCEPT ![slot] = f]
        /\ memory' = [memory EXCEPT ![slot] =
               IF owner = f THEN cells ELSE Restored(cells, m_stackSnapshot[f])]
        /\ m_stackSnapshot' =
               IF owner \in {f, None} THEN m_stackSnapshot
               ELSE [m_stackSnapshot EXCEPT ![owner] = Saved(cells, depth)]

\* Before fiber f goes on, its frames must be on its stack.
Prepare(f) == IF f \in Shared THEN PrepareSharedStack(f) ELSE UNCHANGED slotVars

Ctx(f) == IF m_ctx[f] = 0 THEN 1 ELSE m_ctx[f]

\* mycoroutine_context_swap from the running fiber to f.
SwapTo(f) ==
    /\ t_fiber' = f
    /\ sp' = IF f = Main THEN 0 ELSE Ctx(f)
    /\ m_ctx' = [g \in Fiber |->
                    IF g = t_fiber THEN sp ELSE IF g = f THEN Ctx(g) ELSE m_ctx[g]]

Resume(f) ==
    /\ t_fiber = Main
    /\ m_state[f] = "READY"
    /\ Prepare(f)
    /\ m_state' = [m_state EXCEPT ![f] = "RUNNING"]
    /\ SwapTo(f)
    /\ UNCHANGED m_parent

\* call(), when it does not refuse: the caller becomes the parent.
Call(f) ==
    /\ f # t_fiber
    /\ m_state[f] = "READY"
    /\ ~ {f, t_fiber} \subseteq Shared
    /\ Prepare(f)
    /\ m_parent' = [m_parent EXCEPT ![f] = t_fiber]
    /\ m_state' = [m_state EXCEPT ![f] = "RUNNING"]
    /\ SwapTo(f)

\* Mutant: a fiber that was called yields to the thread.
LeavesToMain(f, state) ==
    /\ t_fiber = f
    /\ m_state' = [m_state EXCEPT ![f] = state]
    /\ SwapTo(Main)
    /\ UNCHANGED <<m_parent, slotVars>>

\* yield() of fiber f, READY to go on or TERM: to the parent, by back(), with
\* its frames put back first, and call() then drops the tie; or to the thread.
Leaves(f, state) ==
    /\ t_fiber = f
    /\ m_state' = [m_state EXCEPT ![f] = state]
    /\ m_parent' = [m_parent EXCEPT ![f] = None]
    /\ LET to == IF m_parent[f] = None THEN Main ELSE m_parent[f]
       IN  Prepare(to) /\ SwapTo(to)

Yield(f) == Leaves(f, "READY")

\* MainFunc: the callback has returned.
Finish(f) == sp = 1 /\ Leaves(f, "TERM")

-----------------------------------------------------------------------------
(* The life of Fiber objects.                                              *)

\* reset(): the slot's first cell is written whoever runs there.  (A fiber that
\* has ended has a stack.)
Reset(f) ==
    /\ m_state[f] = "TERM"
    /\ m_state' = [m_state EXCEPT ![f] = "READY"]
    /\ m_stackSnapshot' = [m_stackSnapshot EXCEPT ![f] = <<>>]
    /\ memory' = [memory EXCEPT ![m_stack[f]] = Started(@)]
    /\ m_ctx' = [m_ctx EXCEPT ![f] = 1]
    /\ m_parent' = [m_parent EXCEPT ![f] = None]
    /\ UNCHANGED <<t_fiber, sp, m_stack, slotOwner, m_next>>

\* The last reference to a fiber that has ended goes away, and f stands for a
\* new object.  The slot's weak pointer to the old one expires.
Replace(f) ==
    /\ m_state[f] = "TERM"
    /\ m_state' = [m_state EXCEPT ![f] = "READY"]
    /\ m_stackSnapshot' = [m_stackSnapshot EXCEPT ![f] = <<>>]
    /\ m_ctx' = [m_ctx EXCEPT ![f] = IF f \in Shared THEN 0 ELSE 1]
    /\ m_stack' = [m_stack EXCEPT ![f] = IF f \in Shared THEN None ELSE f]
    /\ slotOwner' = [s \in Slot |-> IF slotOwner[s] = f THEN None ELSE slotOwner[s]]
    /\ memory' = IF f \in Shared THEN memory
                 ELSE [memory EXCEPT ![f] = Started(Fresh)]
    /\ UNCHANGED <<t_fiber, sp, m_parent, m_next>>

Next ==
    \/ \E v \in Local : Enter(v)
    \/ Return
    \/ \E f \in Fiber :
           \/ Resume(f)
           \/ Call(f)
           \/ Yield(f)
           \/ Finish(f)
           \/ Reset(f)
           \/ Replace(f)

Spec == Init /\ [][Next]_vars

-----------------------------------------------------------------------------
(* Properties.                                                             *)

\* The values every variable may take; slots are given out of the pool.
TypeOK ==
    /\ t_fiber \in Fiber \cup {Main}
    /\ sp \in 0 .. StackSize
    /\ m_state \in [Fiber -> {"READY", "RUNNING", "TERM"}]
    /\ m_ctx \in [Fiber -> 0 .. StackSize]
    /\ m_parent \in [Fiber -> Fiber \cup {Main, None}]
    /\ m_stack \in [Fiber -> Stack \cup {None}]
    /\ m_stackSnapshot \in [Fiber -> Seq(Cell)]
    /\ slotOwner \in [Slot -> Shared \cup {None}]
    /\ m_next \in Slot
    /\ memory \in [Stack -> [1 .. StackSize -> Cell]]

\* call() and back() nest: a RUNNING fiber runs, or waits in a call for one
\* RUNNING child; nobody else has a parent; and when the thread's own code
\* runs nobody does.
CallersWait ==
    /\ t_fiber = Main => \A f \in Fiber : m_state[f] # "RUNNING"
    /\ \A f \in Fiber :
           m_state[f] = "RUNNING" <=> f = t_fiber \/ \E g \in Fiber : m_parent[g] = f
    /\ \A f, g \in Fiber : m_parent[f] # None =>
           /\ m_state[f] = "RUNNING"
           /\ m_parent[f] # t_fiber
           /\ m_parent[g] = m_parent[f] => f = g

\* What fiber f finds on its stack when it runs, or runs again.
Cells(f) ==
    IF m_stackSnapshot[f] # <<>> /\ slotOwner[m_stack[f]] # f
    THEN m_stackSnapshot[f] ELSE memory[m_stack[f]]
Depth(f) == IF f = t_fiber THEN sp ELSE m_ctx[f]
Frames(f) ==
    IF m_ctx[f] = 0 THEN <<Zero>> ELSE [i \in 1 .. Depth(f) |-> Cells(f)[i]]

Private == INSTANCE PrivateStacks WITH
    Base <- Zero,
    running <- t_fiber,
    frames <- [f \in Fiber |-> Frames(f)]

\* Saving and restoring are invisible: whatever runs on a slot in between, and
\* however calls nest, a fiber finds its stack as it left it.
ImplementsPrivateStacks == Private!Spec
=============================================================================
