\* Three fibers on two shared slots and one with its own stack, so that a call may
\* lead from a slot by the fourth fiber back to it; no liveness, hence symmetry.
SPECIFICATION Spec
CONSTANTS
    Main = Main
    None = None
    Zero = Zero
    Garbage = Garbage
    s1 = s1
    s2 = s2
    s3 = s3
    p1 = p1
    v1 = v1
    v2 = v2
    Fiber = {s1, s2, s3, p1}
    Shared = {s1, s2, s3}
    SlotCount = 2
    StackSize = 2
    Local = {v1, v2}
SYMMETRY Symmetry
INVARIANTS
    TypeOK
    CallersWait
PROPERTIES
    ImplementsPrivateStacks
