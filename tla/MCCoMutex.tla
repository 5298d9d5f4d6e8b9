----------------------------- MODULE MCCoMutex -----------------------------
(* CoMutex for TLC. *)
EXTENDS CoMutex, TLC

\* The fibers are interchangeable; sound for the runs without liveness.
Symmetry == Permutations(Fiber)
=============================================================================
