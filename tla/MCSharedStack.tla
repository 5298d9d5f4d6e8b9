--------------------------- MODULE MCSharedStack ---------------------------
(* SharedStack for TLC. *)
EXTENDS SharedStack, TLC

\* Fibers of a kind are interchangeable, and so are values; there is no liveness.
Symmetry == Permutations(Shared) \cup Permutations(Fiber \ Shared) \cup Permutations(Local)
=============================================================================
