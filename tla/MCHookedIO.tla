----------------------------- MODULE MCHookedIO -----------------------------
(* HookedIO for TLC: what there is at the start, and how much is done then. *)
EXTENDS HookedIO

\* One end of a connection, whose reads time out.
ReadsTimed == [fd \in Fd |-> {READ}]

Few == [calls |-> 3, arrivals |-> 1]
=============================================================================
