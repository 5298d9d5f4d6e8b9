\* A synchronous channel and one of one place; no symmetry, for the liveness.
SPECIFICATION FairSpec
CONSTANTS
    f1 = f1
    f2 = f2
    f3 = f3
    v1 = v1
    Fiber = {f1, f2, f3}
    Value = {v1}
    Capacity = {0, 1}
    MaxStale = 0
PROPERTIES
    CloseReleasesAll
    SomeoneProceeds
