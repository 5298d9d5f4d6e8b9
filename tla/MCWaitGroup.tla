---------------------------- MODULE MCWaitGroup ----------------------------
(* WaitGroup for TLC. *)
EXTENDS WaitGroup

\* The fibers are interchangeable; sound for the run without liveness.
Symmetry == Permutations(Fiber)

MCDelta == {-1, 1, 2}
=============================================================================
