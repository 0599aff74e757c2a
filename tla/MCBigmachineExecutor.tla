------------------------ MODULE MCBigmachineExecutor ------------------------
(* Instances of BigmachineExecutor for TLC. *)
EXTENDS BigmachineExecutor, TLC

CONSTANTS t1, t2, t3, m1, m2, m3, c1, c2

\* One task, or a task that reads two others.
OneTask == [t \in {t1} |-> {}]
Join    == [t \in {t1, t2, t3} |-> IF t = t3 THEN {t1, t2} ELSE {}]

Symmetry == Permutations(Machine) \cup Permutations(Call)
=============================================================================
