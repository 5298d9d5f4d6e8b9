\* A synchronous channel and one of two places; three fibers, so that one overtakes
\* while another wakes up; two values tell order, loss and duplication apart.
SPECIFICATION Spec
CONSTANTS
    f1 = f1
    f2 = f2
    f3 = f3
    v1 = v1
    v2 = v2
    Fiber = {f1, f2, f3}
    Value = {v1, v2}
    Capacity = {0, 2}
    MaxStale = 1
SYMMETRY Symmetry
INVARIANTS
    TypeOK
    NobodyStranded
    RendezvousNotMissed
PROPERTIES
    ImplementsFifoChannel
