---------------------------- MODULE MCIOManager ----------------------------
(* IOManager for TLC: what user code waits for. *)
EXTENDS IOManager, TLC

\* User code waits for one event of a descriptor, or for both.
OnlyRead == [fd \in Fd |-> {READ}]
BothEvents == [fd \in Fd |-> Event]

\* Workers are interchangeable; sound for the runs without liveness.
Symmetry == Permutations(Worker)
=============================================================================
