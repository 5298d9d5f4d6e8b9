----------------------------- MODULE MCChannel -----------------------------
(* Channel for TLC. *)
EXTENDS Channel

\* The fibers and the values are interchangeable; sound for the runs without
\* liveness.
Symmetry == Permutations(Fiber) \cup Permutations(Value)
=============================================================================
