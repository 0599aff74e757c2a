-------------------------- MODULE MCMachineManager --------------------------
(* Instances of MachineManager for TLC. *)
EXTENDS MachineManager

\* Three requests: an urgent one, a large one, and a small one behind it.
Requests   == {"r1", "r2", "r3"}
Priorities == [r1 |-> 1, r2 |-> 2, r3 |-> 2]
Demands    == [r1 |-> 1, r2 |-> 3, r3 |-> 1]
=============================================================================
