------------------------- MODULE SharedStack_proofs -------------------------
(***************************************************************************)
(* Proofs about SharedStack for any fibers, slots, stack size and values.  *)
(***************************************************************************)
EXTENDS TLAPS, SharedStack

\* A fiber has a stack once it has a context.  Shared fibers are on slots.
AttachInv ==
    /\ \A f \in Fiber \ Shared : m_stack[f] = f /\ m_ctx[f] # 0
    /\ \A f \in Shared :
           m_stack[f] \in Slot \cup {None} /\ (m_ctx[f] = 0 <=> m_stack[f] = None)

\* Who owns a slot is on it, and so is, as the owner, who runs.
OwnerInv ==
    /\ \A s \in Slot : slotOwner[s] # None => m_stack[slotOwner[s]] = s
    /\ t_fiber \in Fiber => sp # 0 /\ m_ctx[t_fiber] # 0
    /\ t_fiber \in Shared => slotOwner[m_stack[t_fiber]] = t_fiber

\* The snapshot of a fiber that does not own its slot holds its stack; it has
\* none if it has not run since it was made or reset.
SnapshotInv ==
    /\ \A f \in Fiber : f \notin Shared \/ m_ctx[f] = 0 => m_stackSnapshot[f] = <<>>
    /\ \A f \in Shared : m_ctx[f] # 0 /\ slotOwner[m_stack[f]] # f =>
           m_ctx[f] = IF m_stackSnapshot[f] = <<>> THEN 1 ELSE Len(m_stackSnapshot[f])

\* The return address is where it was put, though it is written again and again.
BaseInv ==
    /\ \A f \in Fiber : m_ctx[f] # 0 => memory[m_stack[f]][1] = Zero
    /\ \A f \in Fiber : m_stackSnapshot[f] # <<>> => m_stackSnapshot[f][1] = Zero

StackInv == AttachInv /\ OwnerInv /\ SnapshotInv /\ BaseInv

\* The fibers under way, from the one the thread resumed to the one that runs.
IsChain(c, n) ==
    /\ t_fiber = IF n = 0 THEN Main ELSE c[n]
    /\ \A i \in 1 .. n : m_state[c[i]] = "RUNNING"
    /\ \A f \in Fiber : m_state[f] = "RUNNING" => \E i \in 1 .. n : c[i] = f
    /\ \A i, j \in 1 .. n : c[i] = c[j] => i = j
    /\ \A i \in 1 .. n :
           IF i = 1 THEN m_parent[c[i]] \in {Main, None} ELSE m_parent[c[i]] = c[i - 1]
    /\ \A f \in Fiber : m_state[f] # "RUNNING" => m_parent[f] = None

ChainInv == \E n \in Nat : \E c \in [1 .. n -> Fiber] : IsChain(c, n)

\* A fiber that has ended has left its stack.
TermInv == \A f \in Fiber : m_state[f] = "TERM" => m_ctx[f] = 1

IInv == TypeOK /\ StackInv /\ ChainInv /\ TermInv

-----------------------------------------------------------------------------
LEMMA SlotProperties ==
    /\ \A s \in Slot : s \in Nat /\ s \in Stack /\ s \notin Fiber /\ s # None
    /\ \A f \in Fiber : f # None /\ f # Main /\ f \notin Slot
    /\ \A f \in Fiber \ Shared : f \in Stack
    /\ 0 \in Slot
    /\ m_next \in Slot => NextSlot \in Slot
    /\ Main \notin Shared /\ None \notin Shared
    /\ StackSize \in Nat /\ 1 \in 1 .. StackSize
<1>1. m_next \in Slot => NextSlot \in Slot
  BY SharedStackAssumption DEF Slot, NextSlot
<1>2. \A s \in Slot : s \in Nat /\ s \in Stack /\ s \notin Fiber /\ s # None
  BY SharedStackAssumption DEF Stack, Slot
<1>3. 0 \in Slot /\ StackSize \in Nat /\ 1 \in 1 .. StackSize
  BY SharedStackAssumption DEF Slot
<1> QED
  BY <1>1, <1>2, <1>3, SharedStackAssumption DEF Stack

LEMMA InitInv == Init => IInv
<1> SUFFICES ASSUME Init PROVE IInv
  OBVIOUS
<1> USE DEF Init
<1>1. TypeOK
  <2>1. memory \in [Stack -> [1 .. StackSize -> Cell]]
    BY SlotProperties DEF Fresh, Started, Cell
  <2>2. m_stack \in [Fiber -> Stack \cup {None}]
    BY SlotProperties
  <2>3. m_ctx \in [Fiber -> 0 .. StackSize]
    BY SlotProperties
  <2> QED
    BY <2>1, <2>2, <2>3, SlotProperties DEF TypeOK
<1>2. AttachInv
  BY SharedStackAssumption DEF AttachInv
<1>3. OwnerInv
  BY SlotProperties DEF OwnerInv
<1>4. SnapshotInv
  BY SharedStackAssumption DEF SnapshotInv
<1>5. BaseInv
  BY SlotProperties DEF BaseInv, Fresh, Started
<1>6. ChainInv
  <2> DEFINE c == [i \in 1 .. 0 |-> Main]
  <2>1. c \in [1 .. 0 -> Fiber]
    OBVIOUS
  <2>2. IsChain(c, 0)
    BY DEF IsChain
  <2> QED
    BY <2>1, <2>2 DEF ChainInv
<1>7. TermInv
  BY DEF TermInv
<1> QED
  BY <1>1, <1>2, <1>3, <1>4, <1>5, <1>6, <1>7 DEF IInv, StackInv

-----------------------------------------------------------------------------
(* Switching from the running fiber to another.                            *)

\* What stays of a fiber's frames when its cells and their number stay.
LEMMA FramesKept ==
    ASSUME NEW g \in Fiber, m_ctx'[g] = 0 <=> m_ctx[g] = 0,
           m_ctx[g] # 0 => /\ Depth(g)' = Depth(g)
                           /\ \A i \in 1 .. Depth(g) : Cells(g)'[i] = Cells(g)[i]
    PROVE  Frames(g)' = Frames(g)
<1>1. CASE m_ctx[g] = 0
  BY <1>1 DEF Frames
<1>2. CASE m_ctx[g] # 0
  <2>1. Frames(g) = [i \in 1 .. Depth(g) |-> Cells(g)[i]]
    BY <1>2 DEF Frames
  <2>2. Frames(g)' = [i \in 1 .. Depth(g)' |-> Cells(g)'[i]]
    BY <1>2 DEF Frames
  <2> QED
    BY <1>2, <2>1, <2>2
<1> QED
  BY <1>1, <1>2

\* The context of the fiber that stops running becomes its depth; that of the
\* one that starts was its depth.
LEMMA SwapFacts ==
    ASSUME TypeOK, StackInv, NEW f \in Fiber \cup {Main}, f # t_fiber, SwapTo(f)
    PROVE  /\ t_fiber' = f /\ sp' \in 0 .. StackSize
           /\ f \in Fiber => sp' = Ctx(f) /\ sp' # 0
           /\ m_ctx' \in [Fiber -> 0 .. StackSize]
           /\ \A g \in Fiber \ {f} : m_ctx'[g] = Depth(g)
           /\ \A g \in Fiber \ {f} : m_ctx'[g] = 0 <=> m_ctx[g] = 0
           /\ f \in Fiber => m_ctx'[f] = Ctx(f)
<1>1. /\ sp \in 0 .. StackSize /\ \A g \in Fiber : m_ctx[g] \in 0 .. StackSize
      /\ StackSize \in Nat \ {0}
      /\ t_fiber \in Fiber => sp # 0 /\ m_ctx[t_fiber] # 0
  BY SharedStackAssumption DEF TypeOK, StackInv, OwnerInv
<1>2. \A g \in Fiber : Ctx(g) \in 0 .. StackSize /\ Ctx(g) # 0
  BY <1>1 DEF Ctx
<1>3. \A g \in Fiber : m_ctx'[g] = IF g = t_fiber THEN sp ELSE IF g = f THEN Ctx(g) ELSE m_ctx[g]
  BY DEF SwapTo
<1>4. f \in Fiber => f # Main
  BY SlotProperties
<1>5. t_fiber' = f /\ (f \in Fiber => sp' = Ctx(f)) /\ (f \notin Fiber => sp' = 0)
  BY <1>4 DEF SwapTo
<1>6. m_ctx' \in [Fiber -> 0 .. StackSize]
  BY <1>1, <1>2 DEF SwapTo
<1>7. sp' \in 0 .. StackSize
  BY <1>2, <1>5, SlotProperties
<1> QED
  BY <1>1, <1>2, <1>3, <1>5, <1>6, <1>7 DEF Depth

LEMMA SavedIsSeq ==
    ASSUME NEW cells \in [1 .. StackSize -> Cell], NEW depth \in 0 .. StackSize
    PROVE  /\ Saved(cells, depth) \in Seq(Cell)
           /\ Len(Saved(cells, depth)) = depth
           /\ \A i \in 1 .. depth : Saved(cells, depth)[i] = cells[i]
<1>1. StackSize \in Nat
  BY SlotProperties
<1>2. depth \in Nat /\ \A i \in 1 .. depth : cells[i] \in Cell
  BY <1>1
<1> QED
  BY <1>2 DEF Saved

\* What prepareSharedStack(f) leaves on f's slot and in the snapshots.
LEMMA PrepareFacts ==
    ASSUME TypeOK, StackInv, NEW f \in Shared, f # t_fiber, PrepareSharedStack(f),
           NEW slot, slot = IF m_stack[f] = None THEN m_next ELSE m_stack[f],
           NEW owner, owner = slotOwner[slot]
    PROVE  /\ slot \in Slot
           /\ m_stack' = [m_stack EXCEPT ![f] = slot]
           /\ slotOwner' = [slotOwner EXCEPT ![slot] = f]
           /\ m_next' \in Slot
           /\ memory' \in [Stack -> [1 .. StackSize -> Cell]]
           /\ \A s \in Stack \ {slot} : memory'[s] = memory[s]
           /\ memory'[slot][1] = Zero
           /\ m_ctx[f] # 0 /\ owner = f => memory'[slot] = memory[slot]
           /\ m_ctx[f] # 0 /\ owner # f =>
                  \A i \in 1 .. m_ctx[f] : memory'[slot][i] =
                      IF m_stackSnapshot[f] = <<>> THEN memory[slot][i]
                      ELSE m_stackSnapshot[f][i]
           /\ owner \in {f, None} => m_stackSnapshot' = m_stackSnapshot
           /\ owner \notin {f, None} =>
                  /\ owner \in Shared /\ m_stack[owner] = slot /\ m_ctx[owner] # 0
                  /\ Depth(owner) \in 1 .. StackSize
                  /\ \E saved \in Seq(Cell) :
                        /\ m_stackSnapshot' = [m_stackSnapshot EXCEPT ![owner] = saved]
                        /\ Len(saved) = Depth(owner)
                        /\ \A i \in 1 .. Depth(owner) : saved[i] = memory[slot][i]
<1> DEFINE cells == IF m_ctx[f] = 0 THEN Started(memory[slot]) ELSE memory[slot]
           restored == Restored(cells, m_stackSnapshot[f])
<1>1. /\ f \in Fiber /\ slot \in Slot /\ slot \in Stack /\ m_next \in Slot
      /\ StackSize \in Nat \ {0} /\ owner \in Shared \cup {None}
      /\ None \notin Shared /\ \A g \in Shared : g \in Fiber
  BY SharedStackAssumption, SlotProperties DEF TypeOK, StackInv, AttachInv
<1>2. /\ m_stack' = [m_stack EXCEPT ![f] = slot]
      /\ slotOwner' = [slotOwner EXCEPT ![slot] = f]
      /\ m_next' \in Slot
      /\ memory' = [memory EXCEPT ![slot] = IF owner = f THEN cells ELSE restored]
  BY <1>1, SlotProperties DEF PrepareSharedStack
<1>3. cells \in [1 .. StackSize -> Cell]
  BY <1>1 DEF Started, Cell, TypeOK
<1>4. /\ cells[1] = Zero /\ memory[slot] \in [1 .. StackSize -> Cell]
      /\ m_ctx[f] # 0 => cells = memory[slot]
  BY <1>1 DEF Started, StackInv, BaseInv, AttachInv, TypeOK
<1>5. /\ restored \in [1 .. StackSize -> Cell]
      /\ restored[1] = Zero
      /\ m_stackSnapshot[f] = <<>> => \A i \in 1 .. StackSize : restored[i] = cells[i]
      /\ \A i \in 1 .. StackSize : i <= Len(m_stackSnapshot[f]) => restored[i] = m_stackSnapshot[f][i]
  <2>1. m_stackSnapshot[f] \in Seq(Cell)
    BY <1>1 DEF TypeOK
  <2>2. m_stackSnapshot[f] # <<>> => m_stackSnapshot[f][1] = Zero /\ 1 <= Len(m_stackSnapshot[f])
    BY <1>1, <2>1 DEF StackInv, BaseInv
  <2>3. \A i \in 1 .. StackSize : i <= Len(m_stackSnapshot[f]) => m_stackSnapshot[f][i] \in Cell
    BY <1>1, <2>1
  <2>4. \A i \in 1 .. StackSize : restored[i] =
            IF i <= Len(m_stackSnapshot[f]) THEN m_stackSnapshot[f][i] ELSE cells[i]
    BY DEF Restored
  <2>5. restored \in [1 .. StackSize -> Cell]
    BY <1>3, <2>3 DEF Restored
  <2>6. restored[1] = Zero
    <3>1. m_stackSnapshot[f] = <<>> => Len(m_stackSnapshot[f]) = 0
      OBVIOUS
    <3> QED
      BY <1>1, <1>4, <2>2, <2>4, <3>1
  <2>7. m_stackSnapshot[f] = <<>> => \A i \in 1 .. StackSize : ~(i <= Len(m_stackSnapshot[f]))
    OBVIOUS
  <2> HIDE DEF cells, restored
  <2> QED
    BY <2>4, <2>5, <2>6, <2>7
<1> HIDE DEF cells, restored
<1>6. /\ memory' \in [Stack -> [1 .. StackSize -> Cell]]
      /\ \A s \in Stack \ {slot} : memory'[s] = memory[s]
      /\ memory'[slot] = IF owner = f THEN cells ELSE restored
  BY <1>1, <1>2, <1>3, <1>5 DEF TypeOK
<1>7. ASSUME m_ctx[f] # 0, owner # f
      PROVE  \A i \in 1 .. m_ctx[f] : memory'[slot][i] =
                 IF m_stackSnapshot[f] = <<>> THEN memory[slot][i] ELSE m_stackSnapshot[f][i]
  <2>1. m_stack[f] = slot /\ slotOwner[m_stack[f]] # f
    BY <1>7 DEF StackInv, AttachInv
  <2>2. m_ctx[f] = IF m_stackSnapshot[f] = <<>> THEN 1 ELSE Len(m_stackSnapshot[f])
    BY <1>1, <1>7, <2>1 DEF StackInv, SnapshotInv
  <2>3. m_ctx[f] \in 0 .. StackSize
    BY <1>1 DEF TypeOK
  <2>4. memory'[slot] = restored /\ cells = memory[slot]
    BY <1>4, <1>6, <1>7
  <2>5. CASE m_stackSnapshot[f] = <<>>
    BY <1>1, <1>5, <2>2, <2>3, <2>4, <2>5
  <2>6. CASE m_stackSnapshot[f] # <<>>
    BY <1>1, <1>5, <2>2, <2>3, <2>4, <2>6
  <2> QED
    BY <2>5, <2>6
<1>8. owner \in {f, None} => m_stackSnapshot' = m_stackSnapshot
  BY DEF PrepareSharedStack
<1>9. ASSUME owner \notin {f, None}
      PROVE  /\ owner \in Shared /\ m_stack[owner] = slot /\ m_ctx[owner] # 0
             /\ Depth(owner) \in 1 .. StackSize
             /\ \E saved \in Seq(Cell) :
                   /\ m_stackSnapshot' = [m_stackSnapshot EXCEPT ![owner] = saved]
                   /\ Len(saved) = Depth(owner)
                   /\ \A i \in 1 .. Depth(owner) : saved[i] = memory[slot][i]
  <2>1. owner \in Shared /\ m_stack[owner] = slot /\ owner \in Fiber
    BY <1>1, <1>9 DEF StackInv, OwnerInv
  <2>2. m_ctx[owner] # 0
    BY <1>1, <2>1, SlotProperties DEF StackInv, AttachInv
  <2>3. Depth(owner) \in 1 .. StackSize
    BY <1>1, <2>1, <2>2 DEF Depth, TypeOK, StackInv, OwnerInv
  <2>4. m_stackSnapshot' = [m_stackSnapshot EXCEPT ![owner] = Saved(cells, Depth(owner))]
    BY <1>9 DEF PrepareSharedStack, cells, Depth
  <2>5. \A i \in 1 .. StackSize : cells[i] = memory[slot][i]
    <3>1. memory[slot][1] = Zero
      BY <2>1, <2>2 DEF StackInv, BaseInv
    <3> QED
      BY <1>1, <1>4, <3>1 DEF cells, Started
  <2>6. Depth(owner) \in 0 .. StackSize
    BY <1>1, <2>3
  <2> DEFINE saved == Saved(cells, Depth(owner))
  <2>7. /\ saved \in Seq(Cell) /\ Len(saved) = Depth(owner)
        /\ \A i \in 1 .. Depth(owner) : saved[i] = cells[i]
    BY <1>3, <2>6, SavedIsSeq
  <2>8. \A i \in 1 .. Depth(owner) : saved[i] = memory[slot][i]
    BY <1>1, <2>3, <2>5, <2>7
  <2> HIDE DEF saved
  <2> QED
    BY <2>1, <2>2, <2>3, <2>4, <2>7, <2>8 DEF saved
<1>10. /\ memory'[slot][1] = Zero
       /\ m_ctx[f] # 0 /\ owner = f => memory'[slot] = memory[slot]
  BY <1>4, <1>5, <1>6
<1> QED
  BY <1>1, <1>2, <1>6, <1>7, <1>8, <1>9, <1>10

\* The part of the type invariant that a switch can disturb.
SwitchTypeOK ==
    /\ t_fiber \in Fiber \cup {Main}
    /\ sp \in 0 .. StackSize
    /\ m_ctx \in [Fiber -> 0 .. StackSize]
    /\ m_stack \in [Fiber -> Stack \cup {None}]
    /\ m_stackSnapshot \in [Fiber -> Seq(Cell)]
    /\ slotOwner \in [Slot -> Shared \cup {None}]
    /\ m_next \in Slot
    /\ memory \in [Stack -> [1 .. StackSize -> Cell]]

\* To a fiber with a stack of its own, or to the thread.
LEMMA SwitchPrivate ==
    ASSUME TypeOK, StackInv, NEW f \in Fiber \cup {Main}, f # t_fiber, f \notin Shared,
           Prepare(f), SwapTo(f)
    PROVE  SwitchTypeOK' /\ StackInv' /\ \A g \in Fiber : Frames(g)' = Frames(g)
<1>1. UNCHANGED <<m_stack, m_stackSnapshot, slotOwner, m_next, memory>>
  BY DEF Prepare, slotVars
<1>2. /\ t_fiber' = f /\ sp' \in 0 .. StackSize
      /\ f \in Fiber => sp' = Ctx(f) /\ sp' # 0 /\ m_ctx'[f] = Ctx(f)
      /\ m_ctx' \in [Fiber -> 0 .. StackSize]
      /\ \A g \in Fiber \ {f} : m_ctx'[g] = Depth(g)
      /\ \A g \in Fiber \ {f} : m_ctx'[g] = 0 <=> m_ctx[g] = 0
  BY SwapFacts
<1>3. f \in Fiber => m_ctx[f] # 0 /\ m_ctx'[f] = m_ctx[f]
  BY <1>2 DEF StackInv, AttachInv, Ctx
<1>4. \A g \in Fiber : m_ctx'[g] = 0 <=> m_ctx[g] = 0
  BY <1>2, <1>3
<1>5. SwitchTypeOK'
  BY <1>1, <1>2 DEF TypeOK, SwitchTypeOK
<1>6. AttachInv'
  BY <1>1, <1>4, SharedStackAssumption DEF StackInv, AttachInv
<1>7. OwnerInv'
  BY <1>1, <1>2, <1>3 DEF StackInv, OwnerInv
<1>8. SnapshotInv'
  <2>1. \A g \in Shared : slotOwner[m_stack[g]] # g => m_ctx'[g] = m_ctx[g]
    BY <1>2, SharedStackAssumption DEF StackInv, OwnerInv, Depth
  <2> QED
    BY <1>1, <1>4, <2>1 DEF StackInv, SnapshotInv
<1>9. BaseInv'
  BY <1>1, <1>4 DEF StackInv, BaseInv
<1>10. ASSUME NEW g \in Fiber PROVE Frames(g)' = Frames(g)
  <2>1. Depth(g)' = Depth(g)
    BY <1>2, <1>3, <1>10 DEF Depth
  <2>2. Cells(g)' = Cells(g)
    BY <1>1 DEF Cells
  <2> QED
    BY <1>4, <2>1, <2>2, FramesKept
<1> QED
  BY <1>5, <1>6, <1>7, <1>8, <1>9, <1>10 DEF StackInv

\* To a fiber on a shared slot: the owner of the slot is saved, f put back, and
\* every other fiber has its frames elsewhere or none but the return address.
LEMMA SwitchShared ==
    ASSUME TypeOK, StackInv, NEW f \in Shared, f # t_fiber, Prepare(f), SwapTo(f)
    PROVE  SwitchTypeOK' /\ StackInv' /\ \A g \in Fiber : Frames(g)' = Frames(g)
<1> DEFINE slot == IF m_stack[f] = None THEN m_next ELSE m_stack[f]
           owner == slotOwner[slot]
<1>00. /\ PrepareSharedStack(f) /\ owner = slotOwner[slot]
       /\ slot = IF m_stack[f] = None THEN m_next ELSE m_stack[f]
  BY DEF Prepare
<1> HIDE DEF slot, owner
<1>0. /\ f \in Fiber /\ \A g \in Shared : g \in Fiber
      /\ None \notin Fiber /\ None \notin Slot
      /\ \A g \in Fiber \ Shared : g \notin Slot
      /\ \A s \in Slot : s \in Stack
      /\ \A g \in Fiber : m_stack[g] \in Stack \cup {None}
      /\ \A g \in Fiber : m_stackSnapshot[g] \in Seq(Cell)
  BY SharedStackAssumption, SlotProperties DEF TypeOK
<1>1. /\ slot \in Slot
      /\ m_stack' = [m_stack EXCEPT ![f] = slot]
      /\ slotOwner' = [slotOwner EXCEPT ![slot] = f]
      /\ m_next' \in Slot
      /\ memory' \in [Stack -> [1 .. StackSize -> Cell]]
      /\ \A s \in Stack \ {slot} : memory'[s] = memory[s]
      /\ memory'[slot][1] = Zero
      /\ m_ctx[f] # 0 /\ owner = f => memory'[slot] = memory[slot]
      /\ m_ctx[f] # 0 /\ owner # f =>
             \A i \in 1 .. m_ctx[f] : memory'[slot][i] =
                 IF m_stackSnapshot[f] = <<>> THEN memory[slot][i] ELSE m_stackSnapshot[f][i]
      /\ owner \in {f, None} => m_stackSnapshot' = m_stackSnapshot
      /\ owner \notin {f, None} =>
             /\ owner \in Shared /\ m_stack[owner] = slot /\ m_ctx[owner] # 0
             /\ Depth(owner) \in 1 .. StackSize
             /\ \E saved \in Seq(Cell) :
                   /\ m_stackSnapshot' = [m_stackSnapshot EXCEPT ![owner] = saved]
                   /\ Len(saved) = Depth(owner)
                   /\ \A i \in 1 .. Depth(owner) : saved[i] = memory[slot][i]
  BY <1>00, PrepareFacts
<1>2. /\ t_fiber' = f /\ sp' \in 0 .. StackSize
      /\ sp' = Ctx(f) /\ sp' # 0 /\ m_ctx'[f] = Ctx(f)
      /\ m_ctx' \in [Fiber -> 0 .. StackSize]
      /\ \A g \in Fiber \ {f} : m_ctx'[g] = Depth(g)
      /\ \A g \in Fiber \ {f} : m_ctx'[g] = 0 <=> m_ctx[g] = 0
  BY <1>0, SwapFacts
\* The snapshots of the others, and of the owner.
<1>3. /\ \A g \in Fiber : g # owner \/ owner = f => m_stackSnapshot'[g] = m_stackSnapshot[g]
      /\ m_stackSnapshot' \in [Fiber -> Seq(Cell)]
      /\ owner \notin {f, None} =>
             /\ Len(m_stackSnapshot'[owner]) = Depth(owner)
             /\ m_stackSnapshot'[owner] # <<>>
             /\ \A i \in 1 .. Depth(owner) : m_stackSnapshot'[owner][i] = memory[slot][i]
  <2>1. CASE owner \in {f, None}
    BY <1>0, <1>1, <2>1 DEF TypeOK
  <2>2. CASE owner \notin {f, None}
    <3> PICK saved \in Seq(Cell) :
             /\ m_stackSnapshot' = [m_stackSnapshot EXCEPT ![owner] = saved]
             /\ Len(saved) = Depth(owner)
             /\ \A i \in 1 .. Depth(owner) : saved[i] = memory[slot][i]
      BY <1>1, <2>2
    <3>1. saved # <<>>
      BY <1>1, <2>2
    <3>2. owner \in Fiber
      BY <1>0, <1>1, <2>2
    <3> QED
      BY <1>0, <2>2, <3>1, <3>2 DEF TypeOK
  <2> QED
    BY <2>1, <2>2
\* Who else is on the slot.
<1>4. /\ m_stack'[f] = slot /\ slotOwner'[slot] = f
      /\ \A g \in Fiber \ {f} : m_stack'[g] = m_stack[g]
      /\ \A s \in Slot \ {slot} : slotOwner'[s] = slotOwner[s]
      /\ m_stack[f] \in {slot, None}
  BY <1>0, <1>1 DEF TypeOK, slot
<1>5. SwitchTypeOK'
  BY <1>0, <1>1, <1>2, <1>3 DEF TypeOK, SwitchTypeOK
<1>6. AttachInv'
  BY <1>0, <1>1, <1>2, <1>4 DEF StackInv, AttachInv
<1>7. OwnerInv'
  <2>1. m_ctx'[f] # 0
    BY <1>2
  <2>2. ASSUME NEW s \in Slot, slotOwner'[s] # None
        PROVE  m_stack'[slotOwner'[s]] = s
    <3>1. CASE s = slot
      BY <1>4, <3>1
    <3>2. CASE s # slot
      <4>1. slotOwner'[s] = slotOwner[s] /\ slotOwner[s] \in Shared
        BY <1>4, <2>2, <3>2 DEF TypeOK
      <4>2. m_stack[slotOwner[s]] = s
        BY <2>2, <4>1 DEF StackInv, OwnerInv
      <4> QED
        BY <1>0, <1>4, <2>2, <3>2, <4>1, <4>2
    <3> QED
      BY <3>1, <3>2
  <2> QED
    BY <1>2, <1>4, <2>1, <2>2 DEF OwnerInv
<1>8. SnapshotInv'
  <2>1. ASSUME NEW g \in Fiber, g \notin Shared \/ m_ctx'[g] = 0
        PROVE  m_stackSnapshot'[g] = <<>>
    <3>1. g # f /\ (m_ctx'[g] = 0 <=> m_ctx[g] = 0)
      BY <1>2, <2>1
    <3>2. g # owner
      BY <1>0, <1>1, <2>1, <3>1
    <3>3. g \notin Shared \/ m_ctx[g] = 0
      BY <1>2, <2>1, <3>2
    <3> QED
      BY <1>3, <3>2, <3>3 DEF StackInv, SnapshotInv
  <2>2. ASSUME NEW g \in Shared, m_ctx'[g] # 0, slotOwner'[m_stack'[g]] # g
        PROVE  m_ctx'[g] = IF m_stackSnapshot'[g] = <<>> THEN 1 ELSE Len(m_stackSnapshot'[g])
    <3>1. g # f /\ g \in Fiber /\ m_ctx'[g] = Depth(g) /\ m_ctx[g] # 0
      BY <1>0, <1>2, <1>4, <2>2
    <3>2. CASE g = owner
      BY <1>0, <1>3, <3>1, <3>2
    <3>3. CASE g # owner
      <4>1. m_stack[g] \in Slot /\ slotOwner[m_stack[g]] # g
        BY <1>4, <2>2, <3>1, <3>3 DEF StackInv, AttachInv, owner
      <4>2. m_ctx[g] = IF m_stackSnapshot[g] = <<>> THEN 1 ELSE Len(m_stackSnapshot[g])
        BY <3>1, <4>1 DEF StackInv, SnapshotInv
      <4>3. g # t_fiber
        BY <4>1 DEF StackInv, OwnerInv
      <4> QED
        BY <1>3, <3>1, <3>3, <4>2, <4>3 DEF Depth
    <3> QED
      BY <3>2, <3>3
  <2> QED
    BY <2>1, <2>2 DEF SnapshotInv
<1>9. BaseInv'
  <2>1. ASSUME NEW g \in Fiber, m_ctx'[g] # 0
        PROVE  memory'[m_stack'[g]][1] = Zero
    <3>1. CASE m_stack'[g] = slot
      BY <1>1, <3>1
    <3>2. CASE m_stack'[g] # slot
      <4>1. g # f /\ m_stack'[g] = m_stack[g] /\ m_ctx[g] # 0
        BY <1>2, <1>4, <2>1, <3>2
      <4>2. m_stack[g] \in Stack
        BY <1>0, <4>1, SlotProperties DEF StackInv, AttachInv
      <4> QED
        BY <1>1, <3>2, <4>1, <4>2 DEF StackInv, BaseInv
    <3> QED
      BY <3>1, <3>2
  <2>2. ASSUME NEW g \in Fiber, m_stackSnapshot'[g] # <<>>
        PROVE  m_stackSnapshot'[g][1] = Zero
    <3>1. CASE g = owner /\ owner # f
      <4>1. owner \notin {f, None} /\ 1 \in 1 .. Depth(owner)
        BY <1>0, <1>1, <3>1
      <4>2. memory[slot][1] = Zero
        BY <1>1, <3>1, <4>1 DEF StackInv, BaseInv
      <4> QED
        BY <1>3, <3>1, <4>1, <4>2
    <3>2. CASE ~ (g = owner /\ owner # f)
      BY <1>3, <2>2, <3>2 DEF StackInv, BaseInv
    <3> QED
      BY <3>1, <3>2
  <2> QED
    BY <2>1, <2>2 DEF BaseInv
<1>10. ASSUME NEW g \in Fiber PROVE Frames(g)' = Frames(g)
  <2>1. CASE g = f /\ m_ctx[f] = 0
    \* It starts: what it finds is the return address.
    <3>1. Frames(f) = <<Zero>> /\ m_stackSnapshot[f] = <<>> /\ m_ctx'[f] = 1 /\ sp' = 1
      BY <1>0, <1>2, <2>1 DEF Frames, StackInv, SnapshotInv, Ctx
    <3>2. owner # f
      BY <1>0, <1>1, <2>1 DEF StackInv, AttachInv, OwnerInv, owner
    <3>3. m_stackSnapshot'[f] = <<>>
      BY <1>0, <1>3, <3>1, <3>2
    <3>4. Frames(f)' = [i \in 1 .. 1 |-> memory'[slot][i]]
      BY <1>2, <1>4, <3>1, <3>3 DEF Frames, Depth, Cells
    <3>5. [i \in 1 .. 1 |-> memory'[slot][i]] = <<Zero>>
      BY <1>1
    <3> QED
      BY <2>1, <3>1, <3>4, <3>5
  <2>2. CASE g = f /\ m_ctx[f] # 0
    <3>1. Depth(f)' = Depth(f) /\ Depth(f) = m_ctx[f] /\ m_ctx'[f] # 0
      BY <1>2, <2>2 DEF Depth, Ctx
    <3>2. slot = m_stack[f] /\ m_stackSnapshot'[f] = m_stackSnapshot[f]
      BY <1>0, <1>3, <2>2 DEF slot, StackInv, AttachInv
    <3>3. Cells(f)' = memory'[slot]
      BY <1>4 DEF Cells
    <3>4. \A i \in 1 .. Depth(f) : Cells(f)'[i] = Cells(f)[i]
      BY <1>1, <2>2, <3>1, <3>2, <3>3 DEF Cells, owner
    <3> QED
      BY <2>2, <3>1, <3>4, FramesKept
  <2>3. CASE g = owner /\ g # f
    <3>1. owner \notin {f, None} /\ m_stack[g] = slot /\ m_ctx[g] # 0 /\ m_ctx'[g] # 0
      BY <1>0, <1>1, <1>2, <2>3
    <3>2. Depth(g)' = Depth(g)
      BY <1>2, <2>3 DEF Depth
    <3>3. Cells(g) = memory[slot]
      BY <2>3, <3>1 DEF Cells, owner
    <3>4. Cells(g)' = m_stackSnapshot'[g]
      BY <1>3, <1>4, <2>3, <3>1 DEF Cells
    <3>5. \A i \in 1 .. Depth(g) : Cells(g)'[i] = Cells(g)[i]
      BY <1>3, <2>3, <3>1, <3>3, <3>4
    <3> QED
      BY <3>1, <3>2, <3>5, FramesKept
  <2>4. CASE g # owner /\ g # f
    <3>1. /\ m_stack'[g] = m_stack[g] /\ m_stackSnapshot'[g] = m_stackSnapshot[g]
          /\ m_ctx'[g] = 0 <=> m_ctx[g] = 0
      BY <1>2, <1>3, <1>4, <2>4
    <3>2. ASSUME m_ctx[g] # 0
          PROVE  /\ Depth(g)' = Depth(g)
                 /\ \A i \in 1 .. Depth(g) : Cells(g)'[i] = Cells(g)[i]
      <4>1. Depth(g)' = Depth(g)
        BY <1>2, <2>4 DEF Depth
      <4>2. m_stack[g] \in Stack
        BY <1>0, <3>2, SlotProperties DEF StackInv, AttachInv
      <4>3. CASE m_stack[g] # slot
        <5>1. memory'[m_stack[g]] = memory[m_stack[g]]
          BY <1>1, <4>2, <4>3
        <5>2. m_stackSnapshot[g] # <<>> => m_stack[g] \in Slot
          BY <1>0, <3>2 DEF StackInv, SnapshotInv, AttachInv
        <5>3. Cells(g)' = Cells(g)
          BY <1>4, <3>1, <4>3, <5>1, <5>2 DEF Cells
        <5> QED
          BY <4>1, <5>3
      <4>4. CASE m_stack[g] = slot
        <5>1. g \in Shared /\ slotOwner[m_stack[g]] # g /\ slotOwner'[m_stack'[g]] # g
          BY <1>0, <1>1, <1>4, <2>4, <3>1, <4>4 DEF StackInv, AttachInv, owner
        <5>2. CASE m_stackSnapshot[g] # <<>>
          BY <3>1, <4>1, <5>1, <5>2 DEF Cells
        <5>3. CASE m_stackSnapshot[g] = <<>>
          <6>1. g # t_fiber /\ m_ctx[g] = 1 /\ Depth(g) = 1
            BY <1>0, <3>2, <5>1, <5>3 DEF StackInv, SnapshotInv, OwnerInv, Depth
          <6>2. Cells(g)[1] = Zero
            BY <3>2, <5>3 DEF Cells, StackInv, BaseInv
          <6>3. Cells(g)'[1] = Zero
            BY <1>1, <3>1, <4>4, <5>3 DEF Cells
          <6> QED
            BY <4>1, <6>1, <6>2, <6>3
        <5> QED
          BY <5>2, <5>3
      <4> QED
        BY <4>3, <4>4
    <3> QED
      BY <3>1, <3>2, FramesKept
  <2> QED
    BY <2>1, <2>2, <2>3, <2>4
<1> QED
  BY <1>5, <1>6, <1>7, <1>8, <1>9, <1>10 DEF StackInv

\* A switch, to whomever.
LEMMA SwitchInv ==
    ASSUME TypeOK, StackInv, NEW f \in Fiber \cup {Main}, f # t_fiber, Prepare(f), SwapTo(f)
    PROVE  SwitchTypeOK' /\ StackInv' /\ \A g \in Fiber : Frames(g)' = Frames(g)
BY SwitchPrivate, SwitchShared

-----------------------------------------------------------------------------
(* Every action preserves the invariant.                                   *)

\* The fibers of a chain that do not take part stay as they are.
LEMMA ResumeInv ==
    ASSUME IInv, NEW f \in Fiber, Resume(f)
    PROVE  IInv'
<1>0. /\ TypeOK /\ StackInv /\ t_fiber = Main /\ f # Main /\ m_state[f] = "READY"
      /\ m_state' = [m_state EXCEPT ![f] = "RUNNING"] /\ m_parent' = m_parent
      /\ Prepare(f) /\ SwapTo(f) /\ t_fiber' = f /\ Main \notin Fiber
  BY SharedStackAssumption DEF IInv, Resume, SwapTo
<1>1. SwitchTypeOK' /\ StackInv'
  BY <1>0, SwitchInv
<1>2. TypeOK'
  BY <1>0, <1>1 DEF SwitchTypeOK, TypeOK
<1>3. ChainInv'
  <2> PICK n \in Nat : \E c \in [1 .. n -> Fiber] : IsChain(c, n)
    BY DEF IInv, ChainInv
  <2> PICK c \in [1 .. n -> Fiber] : IsChain(c, n)
    OBVIOUS
  <2>1. n = 0 /\ \A g \in Fiber : m_state[g] # "RUNNING"
    BY <1>0 DEF IsChain
  <2> DEFINE d == [i \in 1 .. 1 |-> f]
  <2>2. m_parent[f] = None /\ \A g \in Fiber \ {f} : m_state'[g] = m_state[g]
    BY <1>0, <2>1 DEF IsChain, TypeOK
  <2>3. IsChain(d, 1)'
    BY <1>0, <2>1, <2>2 DEF IsChain, TypeOK
  <2> QED
    BY <2>3 DEF ChainInv
<1>4. TermInv'
  <2>1. \A g \in Fiber \ {f} : m_ctx'[g] = m_ctx[g] /\ m_state'[g] = m_state[g]
    BY <1>0 DEF SwapTo, TypeOK
  <2>2. m_state'[f] = "RUNNING"
    BY <1>0 DEF TypeOK
  <2> QED
    BY <2>1, <2>2 DEF IInv, TermInv
<1> QED
  BY <1>1, <1>2, <1>3, <1>4 DEF IInv

\* The fiber that runs is RUNNING, and so is its parent, if that is a fiber.
LEMMA RunnerFacts ==
    ASSUME IInv
    PROVE  /\ t_fiber \in Fiber => m_state[t_fiber] = "RUNNING"
           /\ t_fiber \in Fiber /\ m_parent[t_fiber] # None =>
                 /\ m_parent[t_fiber] \in Fiber \cup {Main}
                 /\ m_parent[t_fiber] # t_fiber
                 /\ m_parent[t_fiber] \in Fiber => m_state[m_parent[t_fiber]] = "RUNNING"
<1> PICK n \in Nat : \E c \in [1 .. n -> Fiber] : IsChain(c, n)
  BY DEF IInv, ChainInv
<1> PICK c \in [1 .. n -> Fiber] : IsChain(c, n)
  OBVIOUS
<1>1. ASSUME t_fiber \in Fiber
      PROVE  n \in 1 .. n /\ t_fiber = c[n] /\ n # 0
  BY <1>1, SharedStackAssumption DEF IsChain
<1>2. t_fiber \in Fiber => m_state[t_fiber] = "RUNNING"
  BY <1>1 DEF IsChain
<1>3. ASSUME t_fiber \in Fiber, m_parent[t_fiber] # None
      PROVE  /\ m_parent[t_fiber] \in Fiber \cup {Main}
             /\ m_parent[t_fiber] # t_fiber
             /\ m_parent[t_fiber] \in Fiber => m_state[m_parent[t_fiber]] = "RUNNING"
  <2>1. CASE n = 1
    BY <1>1, <1>3, <2>1, SharedStackAssumption DEF IsChain
  <2>2. CASE n # 1
    <3>1. n - 1 \in 1 .. n /\ m_parent[c[n]] = c[n - 1] /\ n - 1 # n
      BY <1>1, <1>3, <2>2 DEF IsChain
    <3>2. c[n - 1] \in Fiber /\ m_state[c[n - 1]] = "RUNNING" /\ c[n - 1] # c[n]
      BY <1>1, <1>3, <3>1 DEF IsChain
    <3> QED
      BY <1>1, <1>3, <3>1, <3>2
  <2> QED
    BY <2>1, <2>2
<1> QED
  BY <1>2, <1>3

LEMMA CallInv ==
    ASSUME IInv, NEW f \in Fiber, Call(f)
    PROVE  IInv'
<1>0. /\ TypeOK /\ StackInv /\ f # Main /\ f # t_fiber /\ m_state[f] = "READY"
      /\ m_state' = [m_state EXCEPT ![f] = "RUNNING"]
      /\ m_parent' = [m_parent EXCEPT ![f] = t_fiber]
      /\ Prepare(f) /\ SwapTo(f) /\ t_fiber' = f /\ Main \notin Fiber /\ None \notin Fiber
      /\ t_fiber \in Fiber \cup {Main}
  BY SharedStackAssumption DEF IInv, Call, SwapTo, TypeOK
<1>1. SwitchTypeOK' /\ StackInv'
  BY <1>0, SwitchInv
<1>2. TypeOK'
  BY <1>0, <1>1 DEF SwitchTypeOK, TypeOK
<1>3. ChainInv'
  <2> PICK n \in Nat : \E c \in [1 .. n -> Fiber] : IsChain(c, n)
    BY DEF IInv, ChainInv
  <2> PICK c \in [1 .. n -> Fiber] : IsChain(c, n)
    OBVIOUS
  <2> DEFINE d == [i \in 1 .. n + 1 |-> IF i = n + 1 THEN f ELSE c[i]]
  <2>1. /\ m_state'[f] = "RUNNING" /\ m_parent'[f] = t_fiber
        /\ \A g \in Fiber \ {f} : m_state'[g] = m_state[g] /\ m_parent'[g] = m_parent[g]
    BY <1>0 DEF TypeOK
  <2>2. \A i \in 1 .. n : c[i] \in Fiber \ {f}
    BY <1>0 DEF IsChain
  <2>3. /\ d \in [1 .. n + 1 -> Fiber] /\ d[n + 1] = f
        /\ \A i \in 1 .. n : d[i] = c[i]
    OBVIOUS
  <2> HIDE DEF d
  <2>4. t_fiber' = d[n + 1] /\ \A i \in 1 .. n + 1 : m_state'[d[i]] = "RUNNING"
    <3>1. \A i \in 1 .. n : m_state[c[i]] = "RUNNING"
      BY DEF IsChain
    <3>2. \A i \in 1 .. n : m_state'[d[i]] = "RUNNING"
      BY <2>1, <2>2, <2>3, <3>1
    <3> QED
      BY <1>0, <2>1, <2>3, <3>2
  <2>5. \A g \in Fiber : m_state'[g] = "RUNNING" => \E i \in 1 .. n + 1 : d[i] = g
    <3>1. \A g \in Fiber \ {f} : m_state'[g] = "RUNNING" => \E i \in 1 .. n : c[i] = g
      BY <2>1 DEF IsChain
    <3> QED
      BY <2>3, <3>1
  <2>6. \A i, j \in 1 .. n + 1 : d[i] = d[j] => i = j
    <3>1. \A i, j \in 1 .. n : c[i] = c[j] => i = j
      BY DEF IsChain
    <3>2. \A i \in 1 .. n + 1 : i \in 1 .. n \/ i = n + 1
      OBVIOUS
    <3> QED
      BY <2>2, <2>3, <3>1, <3>2
  <2>7. ASSUME NEW i \in 1 .. n + 1
        PROVE  IF i = 1 THEN m_parent'[d[i]] \in {Main, None} ELSE m_parent'[d[i]] = d[i - 1]
    <3>1. CASE i = n + 1
      BY <1>0, <2>1, <2>3, <3>1 DEF IsChain
    <3>2. CASE i \in 1 .. n
      <4>1. m_parent'[d[i]] = m_parent[c[i]]
        BY <2>1, <2>2, <2>3, <3>2
      <4> QED
        BY <2>3, <3>2, <4>1 DEF IsChain
    <3> QED
      BY <3>1, <3>2
  <2>8. \A g \in Fiber : m_state'[g] # "RUNNING" => m_parent'[g] = None
    BY <2>1 DEF IsChain
  <2>9. IsChain(d, n + 1)'
    BY <2>4, <2>5, <2>6, <2>7, <2>8 DEF IsChain
  <2> QED
    BY <2>3, <2>9 DEF ChainInv
<1>4. TermInv'
  <2>1. \A g \in Fiber \ {f} : m_state'[g] = m_state[g]
    BY <1>0 DEF TypeOK
  <2>2. \A g \in Fiber \ {f, t_fiber} : m_ctx'[g] = m_ctx[g]
    BY <1>0 DEF SwapTo, TypeOK
  <2>3. m_state'[f] = "RUNNING" /\ (t_fiber \in Fiber => m_state'[t_fiber] = "RUNNING")
    BY <1>0, <2>1, RunnerFacts DEF TypeOK
  <2> QED
    BY <2>1, <2>2, <2>3 DEF IInv, TermInv
<1> QED
  BY <1>1, <1>2, <1>3, <1>4 DEF IInv

LEMMA LeavesInv ==
    ASSUME IInv, NEW f \in Fiber, NEW st \in {"READY", "TERM"}, st = "TERM" => sp = 1,
           Leaves(f, st)
    PROVE  IInv'
<1> DEFINE to == IF m_parent[f] = None THEN Main ELSE m_parent[f]
<1>0. /\ TypeOK /\ StackInv /\ t_fiber = f /\ Main \notin Fiber /\ None \notin Fiber
      /\ m_state' = [m_state EXCEPT ![f] = st]
      /\ m_parent' = [m_parent EXCEPT ![f] = None]
      /\ Prepare(to) /\ SwapTo(to) /\ t_fiber' = to /\ st # "RUNNING" /\ f # Main
  BY SharedStackAssumption DEF IInv, Leaves, SwapTo
<1>1. /\ to \in Fiber \cup {Main} /\ to # t_fiber
      /\ to \in Fiber => m_state[to] = "RUNNING"
  BY <1>0, RunnerFacts
<1>2. SwitchTypeOK' /\ StackInv'
  <2> HIDE DEF to
  <2> QED
    BY <1>0, <1>1, SwitchInv
<1>3. TypeOK'
  BY <1>0, <1>2 DEF SwitchTypeOK, TypeOK
<1>4. /\ m_state'[f] = st /\ m_parent'[f] = None
      /\ \A g \in Fiber \ {f} : m_state'[g] = m_state[g] /\ m_parent'[g] = m_parent[g]
  BY <1>0 DEF TypeOK
<1>5. ChainInv'
  <2> PICK n \in Nat : \E c \in [1 .. n -> Fiber] : IsChain(c, n)
    BY DEF IInv, ChainInv
  <2> PICK c \in [1 .. n -> Fiber] : IsChain(c, n)
    OBVIOUS
  <2>1. n # 0 /\ n - 1 \in Nat /\ c[n] = f
    BY <1>0 DEF IsChain
  <2> DEFINE d == [i \in 1 .. n - 1 |-> c[i]]
  <2>2. d \in [1 .. n - 1 -> Fiber] /\ \A i \in 1 .. n - 1 : d[i] = c[i]
    BY <2>1
  <2> HIDE DEF d
  <2>3. \A i \in 1 .. n - 1 : i \in 1 .. n /\ i # n /\ d[i] = c[i] /\ c[i] \in Fiber \ {f}
    BY <2>1, <2>2 DEF IsChain
  <2>4. t_fiber' = IF n - 1 = 0 THEN Main ELSE d[n - 1]
    <3>1. CASE n = 1
      <4>1. m_parent[f] \in {Main, None}
        BY <2>1, <3>1 DEF IsChain
      <4> QED
        BY <1>0, <3>1, <4>1
    <3>2. CASE n # 1
      <4>1. n - 1 \in 1 .. n - 1 /\ n \in 1 .. n
        BY <2>1, <3>2
      <4>2. m_parent[f] = c[n - 1] /\ c[n - 1] \in Fiber /\ d[n - 1] = c[n - 1]
        BY <2>1, <2>3, <3>2, <4>1 DEF IsChain
      <4> QED
        BY <1>0, <2>1, <3>2, <4>2
    <3> QED
      BY <3>1, <3>2
  <2>5. \A i \in 1 .. n - 1 : m_state'[d[i]] = "RUNNING"
    <3>1. \A i \in 1 .. n : m_state[c[i]] = "RUNNING"
      BY DEF IsChain
    <3> QED
      BY <1>4, <2>3, <3>1
  <2>6. ASSUME NEW g \in Fiber, m_state'[g] = "RUNNING"
        PROVE  \E i \in 1 .. n - 1 : d[i] = g
    <3>1. g # f /\ m_state[g] = "RUNNING"
      BY <1>0, <1>4, <2>6
    <3>2. PICK i \in 1 .. n : c[i] = g
      BY <3>1 DEF IsChain
    <3>3. i \in 1 .. n - 1
      BY <2>1, <3>1, <3>2
    <3> QED
      BY <2>2, <3>2, <3>3
  <2>7. \A i, j \in 1 .. n - 1 : d[i] = d[j] => i = j
    BY <2>3 DEF IsChain
  <2>8. ASSUME NEW i \in 1 .. n - 1
        PROVE  IF i = 1 THEN m_parent'[d[i]] \in {Main, None} ELSE m_parent'[d[i]] = d[i - 1]
    <3>1. m_parent'[d[i]] = m_parent[c[i]] /\ i \in 1 .. n
      BY <1>4, <2>3
    <3>2. i # 1 => i - 1 \in 1 .. n - 1
      BY <2>1
    <3> QED
      BY <2>2, <3>1, <3>2 DEF IsChain
  <2>9. \A g \in Fiber : m_state'[g] # "RUNNING" => m_parent'[g] = None
    <3>1. \A g \in Fiber : m_state[g] # "RUNNING" => m_parent[g] = None
      BY DEF IsChain
    <3> QED
      BY <1>4, <3>1
  <2>10. IsChain(d, n - 1)'
    BY <2>4, <2>5, <2>6, <2>7, <2>8, <2>9 DEF IsChain
  <2> QED
    BY <2>1, <2>2, <2>10 DEF ChainInv
<1>6. TermInv'
  <2>1. \A g \in Fiber \ {f, to} : m_ctx'[g] = m_ctx[g]
    BY <1>0 DEF SwapTo, TypeOK
  <2>2. m_ctx'[f] = sp
    BY <1>0 DEF SwapTo
  <2>3. to \in Fiber => m_state'[to] = "RUNNING"
    BY <1>0, <1>1, <1>4
  <2>4. ASSUME NEW g \in Fiber, m_state'[g] = "TERM" PROVE m_ctx'[g] = 1
    <3>1. CASE g = f
      BY <1>4, <2>2, <2>4, <3>1
    <3>2. CASE g # f
      BY <1>4, <2>1, <2>3, <2>4, <3>2 DEF IInv, TermInv
    <3> QED
      BY <3>1, <3>2
  <2> QED
    BY <2>4 DEF TermInv
<1> QED
  BY <1>2, <1>3, <1>5, <1>6 DEF IInv

\* A chain is about who runs, the states and the parents.
LEMMA ChainKept ==
    ASSUME ChainInv, t_fiber' = t_fiber, m_parent' = m_parent,
           m_state \in [Fiber -> {"READY", "RUNNING", "TERM"}],
           \A g \in Fiber : m_state'[g] = "RUNNING" <=> m_state[g] = "RUNNING"
    PROVE  ChainInv'
<1> PICK n \in Nat : \E c \in [1 .. n -> Fiber] : IsChain(c, n)
  BY DEF ChainInv
<1> PICK c \in [1 .. n -> Fiber] : IsChain(c, n)
  OBVIOUS
<1>1. IsChain(c, n)'
  BY DEF IsChain
<1> QED
  BY <1>1 DEF ChainInv

\* A fiber that has ended does not run, nor does one wait for another through it.
LEMMA EndedFacts ==
    ASSUME IInv, NEW f \in Fiber, m_state[f] = "TERM"
    PROVE  f # t_fiber /\ m_parent[f] = None /\ m_ctx[f] = 1
<1> PICK n \in Nat : \E c \in [1 .. n -> Fiber] : IsChain(c, n)
  BY DEF IInv, ChainInv
<1> PICK c \in [1 .. n -> Fiber] : IsChain(c, n)
  OBVIOUS
<1> QED
  BY RunnerFacts DEF IInv, TermInv, IsChain

LEMMA EnterInv ==
    ASSUME IInv, NEW v \in Local, Enter(v)
    PROVE  IInv'
<1>0. /\ TypeOK /\ StackInv /\ t_fiber \in Fiber /\ sp \in Nat /\ sp # 0
      /\ sp' = sp + 1 /\ sp' \in 2 .. StackSize /\ StackSize \in Nat
      /\ m_stack[t_fiber] \in Stack /\ v \in Cell
      /\ memory' = [memory EXCEPT ![m_stack[t_fiber]][sp + 1] = v]
      /\ UNCHANGED <<t_fiber, m_state, m_ctx, m_parent, m_stack, m_stackSnapshot,
                     slotOwner, m_next>>
  <2>1. /\ TypeOK /\ StackInv /\ t_fiber \in Fiber /\ sp \in 0 .. StackSize
    BY DEF IInv, TypeOK, Enter
  <2>4. /\ sp < StackSize /\ v \in Cell /\ sp' = sp + 1
        /\ memory' = [memory EXCEPT ![m_stack[t_fiber]][sp + 1] = v]
        /\ UNCHANGED <<t_fiber, m_state, m_ctx, m_parent, m_stack, m_stackSnapshot,
                       slotOwner, m_next>>
    BY DEF Enter, Cell
  <2>2. m_stack[t_fiber] \in Stack /\ sp # 0
    BY <2>1, SlotProperties DEF StackInv, AttachInv, OwnerInv, TypeOK, Stack
  <2>3. sp \in Nat /\ StackSize \in Nat /\ (sp < StackSize => sp + 1 \in 2 .. StackSize)
    BY <2>1, <2>2, SlotProperties
  <2> QED
    BY <2>1, <2>2, <2>3, <2>4
<1>1. memory' \in [Stack -> [1 .. StackSize -> Cell]]
  BY <1>0 DEF TypeOK
<1>2. \A s \in Stack : memory'[s][1] = memory[s][1]
  BY <1>0 DEF TypeOK
<1>3. TypeOK'
  BY <1>0, <1>1 DEF TypeOK
<1>4. AttachInv' /\ OwnerInv' /\ SnapshotInv'
  BY <1>0 DEF StackInv, AttachInv, OwnerInv, SnapshotInv
<1>5. BaseInv'
  <2>1. \A g \in Fiber : m_ctx[g] # 0 => m_stack[g] \in Stack
    BY <1>0, SlotProperties DEF StackInv, AttachInv
  <2> QED
    BY <1>0, <1>2, <2>1 DEF StackInv, BaseInv
<1>6. ChainInv' /\ TermInv'
  BY <1>0, ChainKept DEF TypeOK, IInv, TermInv
<1> QED
  BY <1>3, <1>4, <1>5, <1>6 DEF IInv, StackInv

LEMMA ReturnInv ==
    ASSUME IInv, Return
    PROVE  IInv'
<1>0. /\ TypeOK /\ StackInv /\ sp' = sp - 1 /\ sp' \in 1 .. StackSize
      /\ UNCHANGED <<t_fiber, m_state, m_ctx, m_parent, m_stack, m_stackSnapshot,
                     slotOwner, m_next, memory>>
  BY SlotProperties DEF IInv, TypeOK, Return, slotVars
<1>1. TypeOK'
  BY <1>0 DEF TypeOK
<1>2. StackInv'
  BY <1>0 DEF StackInv, AttachInv, OwnerInv, SnapshotInv, BaseInv
<1>3. ChainInv' /\ TermInv'
  BY <1>0, ChainKept DEF TypeOK, IInv, TermInv
<1> QED
  BY <1>1, <1>2, <1>3 DEF IInv

\* The first cell of the slot is written, and already was the return address.
LEMMA ResetFacts ==
    ASSUME IInv, NEW f \in Fiber, Reset(f)
    PROVE  UNCHANGED <<memory, m_ctx, m_parent, t_fiber, sp, m_stack, slotOwner, m_next>>
<1>0. /\ TypeOK /\ StackInv /\ m_ctx[f] = 1 /\ m_parent[f] = None
      /\ m_stack[f] \in Stack /\ 1 \in 1 .. StackSize
      /\ memory[m_stack[f]][1] = Zero
  BY EndedFacts, SlotProperties DEF Reset, IInv, StackInv, AttachInv, BaseInv
<1>1. memory' = memory
  BY <1>0 DEF Reset, Started, TypeOK
<1>2. m_ctx' = m_ctx /\ m_parent' = m_parent
  BY <1>0 DEF Reset, TypeOK
<1> QED
  BY <1>1, <1>2 DEF Reset

LEMMA ResetInv ==
    ASSUME IInv, NEW f \in Fiber, Reset(f)
    PROVE  IInv'
<1>0. /\ TypeOK /\ StackInv /\ m_state[f] = "TERM" /\ m_ctx[f] = 1
      /\ UNCHANGED <<memory, m_ctx, m_parent, t_fiber, sp, m_stack, slotOwner, m_next>>
      /\ m_state' = [m_state EXCEPT ![f] = "READY"]
      /\ m_stackSnapshot' = [m_stackSnapshot EXCEPT ![f] = <<>>]
  BY ResetFacts, EndedFacts DEF Reset, IInv
<1>1. TypeOK'
  BY <1>0 DEF TypeOK
<1>2. m_stackSnapshot'[f] = <<>> /\ \A g \in Fiber \ {f} : m_stackSnapshot'[g] = m_stackSnapshot[g]
  BY <1>0 DEF TypeOK
<1>3. StackInv'
  BY <1>0, <1>2, SharedStackAssumption DEF StackInv, AttachInv, OwnerInv, SnapshotInv, BaseInv
<1>4. m_state'[f] = "READY" /\ \A g \in Fiber \ {f} : m_state'[g] = m_state[g]
  BY <1>0 DEF TypeOK
<1>5. ChainInv' /\ TermInv'
  BY <1>0, <1>4, ChainKept DEF TypeOK, IInv, TermInv
<1> QED
  BY <1>1, <1>3, <1>5 DEF IInv

LEMMA ReplaceInv ==
    ASSUME IInv, NEW f \in Fiber, Replace(f)
    PROVE  IInv'
<1>0. /\ TypeOK /\ StackInv /\ m_state[f] = "TERM" /\ m_ctx[f] = 1 /\ f # t_fiber
      /\ UNCHANGED <<t_fiber, sp, m_parent, m_next>>
      /\ m_state' = [m_state EXCEPT ![f] = "READY"]
      /\ m_stackSnapshot' = [m_stackSnapshot EXCEPT ![f] = <<>>]
      /\ m_ctx' = [m_ctx EXCEPT ![f] = IF f \in Shared THEN 0 ELSE 1]
      /\ m_stack' = [m_stack EXCEPT ![f] = IF f \in Shared THEN None ELSE f]
      /\ slotOwner' = [s \in Slot |-> IF slotOwner[s] = f THEN None ELSE slotOwner[s]]
      /\ memory' = IF f \in Shared THEN memory ELSE [memory EXCEPT ![f] = Started(Fresh)]
  BY EndedFacts DEF Replace, IInv
<1>1. TypeOK'
  <2>1. memory' \in [Stack -> [1 .. StackSize -> Cell]]
    BY <1>0, SlotProperties DEF TypeOK, Started, Fresh, Cell
  <2>2. /\ m_ctx' \in [Fiber -> 0 .. StackSize] /\ m_stack' \in [Fiber -> Stack \cup {None}]
        /\ slotOwner' \in [Slot -> Shared \cup {None}]
    BY <1>0, SlotProperties DEF TypeOK
  <2> QED
    BY <1>0, <2>1, <2>2 DEF TypeOK
<1>2. /\ m_stackSnapshot'[f] = <<>> /\ m_state'[f] = "READY"
      /\ m_ctx'[f] = (IF f \in Shared THEN 0 ELSE 1)
      /\ m_stack'[f] = (IF f \in Shared THEN None ELSE f)
      /\ \A g \in Fiber \ {f} :
            /\ m_stackSnapshot'[g] = m_stackSnapshot[g] /\ m_state'[g] = m_state[g]
            /\ m_ctx'[g] = m_ctx[g] /\ m_stack'[g] = m_stack[g]
      /\ \A s \in Slot : slotOwner'[s] = IF slotOwner[s] = f THEN None ELSE slotOwner[s]
  BY <1>0 DEF TypeOK
<1>3. AttachInv'
  BY <1>0, <1>2 DEF StackInv, AttachInv
<1>4. OwnerInv'
  BY <1>0, <1>2, SlotProperties, SharedStackAssumption DEF StackInv, OwnerInv, AttachInv, TypeOK
<1>5. SnapshotInv'
  <2>1. \A g \in Fiber : g \notin Shared \/ m_ctx'[g] = 0 => m_stackSnapshot'[g] = <<>>
    BY <1>0, <1>2 DEF StackInv, SnapshotInv
  <2>2. ASSUME NEW g \in Shared, m_ctx'[g] # 0, slotOwner'[m_stack'[g]] # g
        PROVE  m_ctx'[g] = IF m_stackSnapshot'[g] = <<>> THEN 1 ELSE Len(m_stackSnapshot'[g])
    <3>1. g # f /\ g \in Fiber /\ m_ctx[g] # 0 /\ m_stack[g] \in Slot
      BY <1>0, <1>2, <2>2, SharedStackAssumption DEF StackInv, AttachInv
    <3>2. slotOwner[m_stack[g]] # g
      BY <1>2, <2>2, <3>1
    <3> QED
      BY <1>0, <1>2, <2>2, <3>1, <3>2 DEF StackInv, SnapshotInv
  <2> QED
    BY <2>1, <2>2 DEF SnapshotInv
<1>6. BaseInv'
  <2>1. \A g \in Fiber \ {f} : m_ctx[g] # 0 =>
            memory'[m_stack[g]][1] = memory[m_stack[g]][1]
    BY <1>0, SlotProperties DEF StackInv, AttachInv, TypeOK
  <2>2. f \notin Shared => memory'[f][1] = Zero
    BY <1>0, SlotProperties DEF TypeOK, Started, Fresh
  <2> QED
    BY <1>0, <1>2, <2>1, <2>2 DEF StackInv, BaseInv
<1>7. ChainInv' /\ TermInv'
  BY <1>0, <1>2, ChainKept DEF TypeOK, IInv, TermInv
<1> QED
  BY <1>1, <1>3, <1>4, <1>5, <1>6, <1>7 DEF IInv, StackInv

LEMMA NextInv == IInv /\ [Next]_vars => IInv'
<1> SUFFICES ASSUME IInv, [Next]_vars PROVE IInv'
  OBVIOUS
<1>1. ASSUME NEW v \in Local, Enter(v) PROVE IInv'
  BY <1>1, EnterInv
<1>2. CASE Return
  BY <1>2, ReturnInv
<1>3. ASSUME NEW f \in Fiber, Resume(f) PROVE IInv'
  BY <1>3, ResumeInv
<1>4. ASSUME NEW f \in Fiber, Call(f) PROVE IInv'
  BY <1>4, CallInv
<1>5. ASSUME NEW f \in Fiber, Yield(f) PROVE IInv'
  BY <1>5, LeavesInv DEF Yield
<1>6. ASSUME NEW f \in Fiber, Finish(f) PROVE IInv'
  BY <1>6, LeavesInv DEF Finish
<1>7. ASSUME NEW f \in Fiber, Reset(f) PROVE IInv'
  BY <1>7, ResetInv
<1>8. ASSUME NEW f \in Fiber, Replace(f) PROVE IInv'
  BY <1>8, ReplaceInv
<1>9. CASE UNCHANGED vars
  BY <1>9, ChainKept
     DEF vars, slotVars, IInv, TypeOK, StackInv, AttachInv, OwnerInv, SnapshotInv,
         BaseInv, TermInv
<1> QED
  BY <1>1, <1>2, <1>3, <1>4, <1>5, <1>6, <1>7, <1>8, <1>9 DEF Next

LEMMA Invariant == Spec => []IInv
BY InitInv, NextInv, PTL DEF Spec

-----------------------------------------------------------------------------
\* Slots are given out of the pool, stacks stay within their size, and what is
\* saved and put back are cells.
THEOREM TypeCorrect == Spec => []TypeOK
<1>1. IInv => TypeOK
  BY DEF IInv
<1> QED
  BY <1>1, Invariant, PTL

\* call() and back() nest, however resume(), call(), yield() and the callbacks'
\* ends follow one another: only fibers on the way to the one that runs are
\* RUNNING, and each of those waits for its own child.
THEOREM CallsNest == Spec => []CallersWait
<1>1. ASSUME IInv PROVE CallersWait
  <2> PICK n \in Nat : \E c \in [1 .. n -> Fiber] : IsChain(c, n)
    BY <1>1 DEF IInv, ChainInv
  <2> PICK c \in [1 .. n -> Fiber] : IsChain(c, n)
    OBVIOUS
  <2>0. Main \notin Fiber /\ None \notin Fiber /\ None # Main
    BY SharedStackAssumption
  <2>1. t_fiber = Main => \A f \in Fiber : m_state[f] # "RUNNING"
    BY <2>0 DEF IsChain
  \* Whoever has a parent is in the chain, and its parent right before it.
  <2>2. ASSUME NEW f \in Fiber, m_parent[f] # None
        PROVE  \E i \in 1 .. n :
                  /\ c[i] = f
                  /\ IF i = 1 THEN m_parent[f] = Main ELSE m_parent[f] = c[i - 1]
    <3>1. PICK i \in 1 .. n : c[i] = f
      BY <2>2 DEF IsChain
    <3>2. IF i = 1 THEN m_parent[c[i]] \in {Main, None} ELSE m_parent[c[i]] = c[i - 1]
      BY DEF IsChain
    <3> QED
      BY <2>2, <3>1, <3>2
  <2>3. ASSUME NEW f \in Fiber
        PROVE  m_state[f] = "RUNNING" <=> (f = t_fiber \/ \E g \in Fiber : m_parent[g] = f)
    <3>1. ASSUME m_state[f] = "RUNNING", f # t_fiber
          PROVE  \E g \in Fiber : m_parent[g] = f
      <4>1. PICK i \in 1 .. n : c[i] = f
        BY <3>1 DEF IsChain
      <4>2. i + 1 \in 1 .. n /\ i + 1 # 1 /\ (i + 1) - 1 = i
        BY <3>1, <4>1 DEF IsChain
      <4>3. m_parent[c[i + 1]] = c[(i + 1) - 1]
        BY <4>2 DEF IsChain
      <4> QED
        BY <4>1, <4>2, <4>3
    <3>2. f = t_fiber => m_state[f] = "RUNNING"
      BY <1>1, RunnerFacts
    <3>3. ASSUME NEW g \in Fiber, m_parent[g] = f
          PROVE  m_state[f] = "RUNNING"
      <4>1. PICK i \in 1 .. n : /\ c[i] = g
                                  /\ IF i = 1 THEN m_parent[g] = Main
                                              ELSE m_parent[g] = c[i - 1]
        BY <2>0, <2>2, <3>3
      <4>2. i # 1 /\ i - 1 \in 1 .. n /\ c[i - 1] = f
        BY <2>0, <3>3, <4>1
      <4>3. \A k \in 1 .. n : m_state[c[k]] = "RUNNING"
        BY DEF IsChain
      <4> QED
        BY <4>2, <4>3
    <3> QED
      BY <3>1, <3>2, <3>3
  <2>4. ASSUME NEW f \in Fiber, NEW g \in Fiber, m_parent[f] # None
        PROVE  /\ m_state[f] = "RUNNING" /\ m_parent[f] # t_fiber
               /\ m_parent[g] = m_parent[f] => f = g
    <3>1. PICK i \in 1 .. n :
                 /\ c[i] = f
                 /\ IF i = 1 THEN m_parent[f] = Main ELSE m_parent[f] = c[i - 1]
      BY <2>2, <2>4
    <3>2. m_state[f] = "RUNNING"
      BY <3>1 DEF IsChain
    <3>3. m_parent[f] # t_fiber
      <4>1. i # 1 => i - 1 \in 1 .. n /\ i - 1 # n
        OBVIOUS
      <4>2. n # 0 /\ n \in 1 .. n /\ t_fiber = c[n] /\ t_fiber # Main
        BY <2>0 DEF IsChain
      <4>3. \A k, l \in 1 .. n : c[k] = c[l] => k = l
        BY DEF IsChain
      <4>4. CASE i = 1
        BY <3>1, <4>2, <4>4
      <4>5. CASE i # 1
        <5>1. m_parent[f] = c[i - 1] /\ i - 1 \in 1 .. n /\ i - 1 # n
          BY <3>1, <4>1, <4>5
        <5> QED
          BY <4>2, <4>3, <5>1
      <4> QED
        BY <4>4, <4>5
    <3>4. ASSUME m_parent[g] = m_parent[f] PROVE f = g
      <4>1. PICK j \in 1 .. n :
                   /\ c[j] = g
                   /\ IF j = 1 THEN m_parent[g] = Main ELSE m_parent[g] = c[j - 1]
        BY <2>2, <2>4, <3>4
      <4>2. (i = 1 <=> j = 1) /\ (i # 1 => i - 1 \in 1 .. n) /\ (j # 1 => j - 1 \in 1 .. n)
        BY <2>0, <3>1, <3>4, <4>1
      <4>3. i # 1 => i - 1 = j - 1
        BY <3>1, <3>4, <4>1, <4>2 DEF IsChain
      <4> QED
        BY <3>1, <4>1, <4>2, <4>3
    <3> QED
      BY <3>2, <3>3, <3>4
  <2> QED
    BY <2>1, <2>3, <2>4 DEF CallersWait
<1> QED
  BY <1>1, Invariant, PTL

-----------------------------------------------------------------------------
(* The stacks are as good as private.                                      *)

\* The frames of the fiber that runs are in place.
LEMMA RunnerFrames ==
    ASSUME IInv, t_fiber \in Fiber
    PROVE  /\ Cells(t_fiber) = memory[m_stack[t_fiber]]
           /\ Frames(t_fiber) = [i \in 1 .. sp |-> memory[m_stack[t_fiber]][i]]
<1>1. m_ctx[t_fiber] # 0
  BY DEF IInv, StackInv, OwnerInv
<1>2. Cells(t_fiber) = memory[m_stack[t_fiber]]
  BY DEF IInv, StackInv, OwnerInv, SnapshotInv, Cells
<1> QED
  BY <1>1, <1>2 DEF Frames, Depth

\* A frame is pushed where it is seen by the fiber that runs, and by nobody else.
LEMMA EnterFrames ==
    ASSUME IInv, NEW v \in Local, Enter(v)
    PROVE  /\ Frames(t_fiber)' = Append(Frames(t_fiber), v)
           /\ \A g \in Fiber \ {t_fiber} : Frames(g)' = Frames(g)
<1>0. /\ TypeOK /\ StackInv /\ t_fiber \in Fiber /\ sp \in Nat /\ sp # 0
      /\ sp' = sp + 1 /\ sp' \in 2 .. StackSize
      /\ m_stack[t_fiber] \in Stack
      /\ memory' = [memory EXCEPT ![m_stack[t_fiber]][sp + 1] = v]
      /\ UNCHANGED <<t_fiber, m_state, m_ctx, m_parent, m_stack, m_stackSnapshot,
                     slotOwner, m_next>>
  BY SlotProperties DEF IInv, StackInv, AttachInv, OwnerInv, TypeOK, Enter, Stack
<1>1. /\ \A s \in Stack \ {m_stack[t_fiber]} : memory'[s] = memory[s]
      /\ \A i \in 1 .. sp : memory'[m_stack[t_fiber]][i] = memory[m_stack[t_fiber]][i]
      /\ memory'[m_stack[t_fiber]][sp + 1] = v
  BY <1>0, SlotProperties DEF TypeOK
<1>2. Frames(t_fiber)' = Append(Frames(t_fiber), v)
  <2> DEFINE cell(i) == memory[m_stack[t_fiber]][i]
             cellNext(i) == memory'[m_stack[t_fiber]][i]
  <2>1. Frames(t_fiber) = [i \in 1 .. sp |-> cell(i)]
    BY <1>0, RunnerFrames
  <2>2. Frames(t_fiber)' = [i \in 1 .. sp + 1 |-> cellNext(i)]
    <3>1. m_ctx[t_fiber] # 0 /\ Cells(t_fiber) = memory[m_stack[t_fiber]]
      BY <1>0, RunnerFrames DEF StackInv, OwnerInv
    <3>2. Cells(t_fiber)' = memory'[m_stack[t_fiber]]
      BY <1>0, <3>1 DEF Cells, StackInv, OwnerInv, SnapshotInv
    <3> QED
      BY <1>0, <3>1, <3>2 DEF Frames, Depth
  <2>3. /\ \A i \in 1 .. sp : cellNext(i) = cell(i)
        /\ cellNext(sp + 1) = v
    BY <1>1
  <2> HIDE DEF cell, cellNext
  <2>4. [i \in 1 .. sp + 1 |-> cellNext(i)] = Append([i \in 1 .. sp |-> cell(i)], v)
    BY <1>0, <2>3
  <2> QED
    BY <2>1, <2>2, <2>4
<1>3. ASSUME NEW g \in Fiber \ {t_fiber} PROVE Frames(g)' = Frames(g)
  <2>1. ASSUME m_ctx[g] # 0
        PROVE  /\ Depth(g)' = Depth(g)
               /\ \A i \in 1 .. Depth(g) : Cells(g)'[i] = Cells(g)[i]
    <3>1. Depth(g)' = Depth(g) /\ m_stack[g] \in Stack
      BY <1>0, <2>1, SlotProperties DEF Depth, StackInv, AttachInv
    <3>2. CASE m_stack[g] # m_stack[t_fiber]
      <4>1. memory'[m_stack[g]] = memory[m_stack[g]]
        BY <1>1, <3>1, <3>2
      <4> QED
        BY <1>0, <3>1, <4>1 DEF Cells
    <3>3. CASE m_stack[g] = m_stack[t_fiber]
      <4>1. g \in Shared /\ slotOwner[m_stack[g]] # g
        BY <1>0, <3>3, SharedStackAssumption DEF StackInv, AttachInv, OwnerInv
      <4>2. CASE m_stackSnapshot[g] # <<>>
        BY <1>0, <3>1, <4>1, <4>2 DEF Cells
      <4>3. CASE m_stackSnapshot[g] = <<>>
        <5>1. Depth(g) = 1
          BY <1>0, <2>1, <4>1, <4>3 DEF StackInv, SnapshotInv, Depth
        <5>2. Cells(g) = memory[m_stack[g]] /\ Cells(g)' = memory'[m_stack[g]]
          BY <1>0, <4>3 DEF Cells
        <5>3. 1 \in 1 .. sp
          BY <1>0
        <5> QED
          BY <1>1, <3>1, <3>3, <5>1, <5>2, <5>3
      <4> QED
        BY <4>2, <4>3
    <3> QED
      BY <3>2, <3>3
  <2> QED
    BY <1>0, <2>1, FramesKept
<1> QED
  BY <1>2, <1>3

LEMMA ReturnFrames ==
    ASSUME IInv, Return
    PROVE  /\ Len(Frames(t_fiber)) > 1
           /\ Frames(t_fiber)' = SubSeq(Frames(t_fiber), 1, Len(Frames(t_fiber)) - 1)
           /\ \A g \in Fiber \ {t_fiber} : Frames(g)' = Frames(g)
<1>0. /\ TypeOK /\ StackInv /\ t_fiber \in Fiber /\ sp \in Nat /\ sp > 1 /\ sp' = sp - 1
      /\ UNCHANGED <<t_fiber, m_state, m_ctx, m_parent, m_stack, m_stackSnapshot,
                     slotOwner, m_next, memory>>
  BY SlotProperties DEF IInv, TypeOK, Return, slotVars
<1> DEFINE cell(i) == memory[m_stack[t_fiber]][i]
<1>1. Frames(t_fiber) = [i \in 1 .. sp |-> cell(i)]
  BY <1>0, RunnerFrames
<1>2. Frames(t_fiber)' = [i \in 1 .. sp - 1 |-> cell(i)]
  <2>1. m_ctx[t_fiber] # 0 /\ Cells(t_fiber)' = memory[m_stack[t_fiber]]
    BY <1>0, RunnerFrames DEF StackInv, OwnerInv, Cells
  <2> QED
    BY <1>0, <2>1 DEF Frames, Depth
<1>3. \A g \in Fiber \ {t_fiber} : Frames(g)' = Frames(g)
  BY <1>0 DEF Frames, Cells, Depth
<1> HIDE DEF cell
<1>4. Len(Frames(t_fiber)) = sp
  BY <1>0, <1>1
<1>5. SubSeq([i \in 1 .. sp |-> cell(i)], 1, sp - 1) = [i \in 1 .. sp - 1 |-> cell(i)]
  BY <1>0
<1> QED
  BY <1>0, <1>1, <1>2, <1>3, <1>4, <1>5

\* What is left of the stack of a fiber that has ended is the return address,
\* and that is what a new or restarted one begins with.
LEMMA RestartFrames ==
    ASSUME IInv, NEW f \in Fiber, Reset(f) \/ Replace(f)
    PROVE  \A g \in Fiber : Frames(g)' = Frames(g)
<1>0. /\ TypeOK /\ StackInv /\ m_ctx[f] = 1 /\ f # t_fiber /\ m_state[f] = "TERM"
  BY EndedFacts DEF IInv, Reset, Replace
<1>1. Frames(f) = <<Zero>>
  <2>1. Cells(f)[1] = Zero
    BY <1>0 DEF Cells, StackInv, BaseInv
  <2>2. Frames(f) = [i \in 1 .. 1 |-> Cells(f)[i]]
    BY <1>0 DEF Frames, Depth
  <2> QED
    BY <2>1, <2>2
<1>2. CASE Reset(f)
  <2>1. /\ UNCHANGED <<memory, m_ctx, m_parent, t_fiber, sp, m_stack, slotOwner, m_next>>
        /\ m_stackSnapshot'[f] = <<>>
        /\ \A g \in Fiber \ {f} : m_stackSnapshot'[g] = m_stackSnapshot[g]
    BY <1>0, <1>2, ResetFacts DEF Reset, TypeOK
  <2>2. Frames(f)' = [i \in 1 .. 1 |-> memory[m_stack[f]][i]]
    BY <1>0, <2>1 DEF Frames, Depth, Cells
  <2>3. memory[m_stack[f]][1] = Zero
    BY <1>0 DEF StackInv, BaseInv
  <2>4. Frames(f)' = <<Zero>>
    BY <2>2, <2>3
  <2>5. \A g \in Fiber \ {f} : Frames(g)' = Frames(g)
    BY <2>1 DEF Frames, Cells, Depth
  <2> QED
    BY <1>1, <2>4, <2>5
<1>3. CASE Replace(f)
  <2>1. /\ UNCHANGED <<t_fiber, sp>>
        /\ m_stackSnapshot'[f] = <<>>
        /\ m_ctx'[f] = (IF f \in Shared THEN 0 ELSE 1)
        /\ m_stack'[f] = (IF f \in Shared THEN None ELSE f)
        /\ \A g \in Fiber \ {f} :
              /\ m_stackSnapshot'[g] = m_stackSnapshot[g]
              /\ m_ctx'[g] = m_ctx[g] /\ m_stack'[g] = m_stack[g]
        /\ \A s \in Slot : slotOwner'[s] = IF slotOwner[s] = f THEN None ELSE slotOwner[s]
        /\ memory' = IF f \in Shared THEN memory ELSE [memory EXCEPT ![f] = Started(Fresh)]
    BY <1>0, <1>3 DEF Replace, TypeOK
  <2>2. Frames(f)' = <<Zero>>
    <3>1. CASE f \in Shared
      BY <2>1, <3>1 DEF Frames
    <3>2. CASE f \notin Shared
      <4>1. Frames(f)' = [i \in 1 .. 1 |-> memory'[f][i]]
        BY <1>0, <2>1, <3>2 DEF Frames, Depth, Cells
      <4>2. memory'[f][1] = Zero
        BY <1>0, <2>1, <3>2, SlotProperties DEF TypeOK, Started, Fresh
      <4> QED
        BY <4>1, <4>2
    <3> QED
      BY <3>1, <3>2
  <2>3. ASSUME NEW g \in Fiber \ {f} PROVE Frames(g)' = Frames(g)
    <3>1. ASSUME m_ctx[g] # 0
          PROVE  Depth(g)' = Depth(g) /\ Cells(g)' = Cells(g)
      <4>1. Depth(g)' = Depth(g)
        BY <2>1 DEF Depth
      <4>2. m_stack'[g] = m_stack[g] /\ m_stack[g] \in Stack /\ (f \notin Shared => m_stack[g] # f)
        BY <1>0, <2>1, <3>1, SlotProperties DEF StackInv, AttachInv
      <4>3. memory'[m_stack[g]] = memory[m_stack[g]]
        BY <1>0, <2>1, <4>2 DEF TypeOK
      <4>4. m_stackSnapshot[g] # <<>> =>
                (slotOwner'[m_stack[g]] = g <=> slotOwner[m_stack[g]] = g)
        BY <1>0, <2>1, <3>1, SlotProperties DEF StackInv, AttachInv, SnapshotInv
      <4> QED
        BY <2>1, <4>1, <4>2, <4>3, <4>4 DEF Cells
    <3> QED
      BY <2>1, <3>1, FramesKept
  <2> QED
    BY <1>1, <2>2, <2>3
<1> QED
  BY <1>2, <1>3

LEMMA SwitchRefines ==
    ASSUME IInv, NEW f \in Fiber, Resume(f) \/ Call(f) \/ Yield(f) \/ Finish(f)
    PROVE  \E g \in Fiber \cup {Main} : Private!Switch(g)
<1>1. \E g \in Fiber \cup {Main} : g # t_fiber /\ Prepare(g) /\ SwapTo(g)
  <2>1. CASE Resume(f) \/ Call(f)
    BY <2>1, SlotProperties DEF Resume, Call
  <2>2. CASE Yield(f) \/ Finish(f)
    <3> DEFINE to == IF m_parent[f] = None THEN Main ELSE m_parent[f]
    <3>1. t_fiber = f /\ Prepare(to) /\ SwapTo(to)
      BY <2>2 DEF Yield, Finish, Leaves
    <3>2. to \in Fiber \cup {Main} /\ to # t_fiber
      BY <3>1, RunnerFacts, SlotProperties
    <3> QED
      BY <3>1, <3>2
  <2> QED
    BY <2>1, <2>2
<1>2. PICK g \in Fiber \cup {Main} : g # t_fiber /\ Prepare(g) /\ SwapTo(g)
  BY <1>1
<1>3. \A h \in Fiber : Frames(h)' = Frames(h)
  BY <1>2, SwitchInv DEF IInv
<1>4. t_fiber' = g
  BY <1>2 DEF SwapTo
<1> QED
  BY <1>3, <1>4 DEF Private!Switch

\* Saving and restoring are invisible: however calls nest, whoever runs on a
\* slot in between, and whichever fibers end, restart or go away, a fiber that
\* runs again finds its frames as it left them.
THEOREM PrivateStacksRefined == Spec => ImplementsPrivateStacks
<1>1. Init => Private!Init
  <2> SUFFICES ASSUME Init PROVE Private!Init
    OBVIOUS
  <2>1. ASSUME NEW f \in Fiber PROVE Frames(f) = <<Zero>>
    <3>1. CASE f \in Shared
      BY <3>1 DEF Init, Frames
    <3>2. CASE f \notin Shared
      <4>1. Frames(f) = [i \in 1 .. 1 |-> memory[f][i]]
        BY <3>2, SlotProperties DEF Init, Frames, Depth, Cells
      <4>2. memory[f][1] = Zero
        BY <3>2, SlotProperties DEF Init, Started, Fresh
      <4> QED
        BY <4>1, <4>2
    <3> QED
      BY <3>1, <3>2
  <2> QED
    BY <2>1 DEF Init, Private!Init
<1>2. IInv /\ [Next]_vars => [Private!Next]_(Private!stackVars)
  <2> SUFFICES ASSUME IInv, [Next]_vars
               PROVE  Private!Next \/ UNCHANGED Private!stackVars
    OBVIOUS
  <2>1. ASSUME NEW v \in Local, Enter(v) PROVE Private!Next
    <3>1. t_fiber \in Fiber /\ t_fiber' = t_fiber
      BY <2>1 DEF Enter, IInv, TypeOK
    <3>2. Private!Push(t_fiber, v)
      BY <2>1, <3>1, EnterFrames DEF Private!Push
    <3> QED
      BY <3>1, <3>2 DEF Private!Next
  <2>2. CASE Return
    <3>1. t_fiber \in Fiber /\ t_fiber' = t_fiber
      BY <2>2 DEF Return, IInv, TypeOK
    <3>2. Private!Pop(t_fiber)
      BY <2>2, <3>1, ReturnFrames DEF Private!Pop
    <3> QED
      BY <3>1, <3>2 DEF Private!Next
  <2>3. ASSUME NEW f \in Fiber, Resume(f) \/ Call(f) \/ Yield(f) \/ Finish(f)
        PROVE  Private!Next
    BY <2>3, SwitchRefines DEF Private!Next
  <2>4. ASSUME NEW f \in Fiber, Reset(f) \/ Replace(f)
        PROVE  UNCHANGED Private!stackVars
    <3>1. t_fiber' = t_fiber
      BY <2>4 DEF Reset, Replace
    <3>2. \A g \in Fiber : Frames(g)' = Frames(g)
      BY <2>4, RestartFrames
    <3> QED
      BY <3>1, <3>2 DEF Private!stackVars
  <2>5. CASE UNCHANGED vars
    BY <2>5 DEF vars, slotVars, Private!stackVars, Frames, Cells, Depth
  <2> QED
    BY <2>1, <2>2, <2>3, <2>4, <2>5 DEF Next
<1> QED
  BY <1>1, <1>2, Invariant, PTL DEF Spec, ImplementsPrivateStacks, Private!Spec
=============================================================================
