------------------------------ MODULE MCWorker ------------------------------
(***************************************************************************)
(* Small instances of Worker.  p and q store their output themselves       *)
(* and v reads both, in an order the shuffle chooses; o and x have a       *)
(* combiner of their own, and w reads x; s1 and s2 share the combiner k,   *)
(* which u reads.                                                          *)
(***************************************************************************)
EXTENDS Worker

MCTask == {"p", "q", "v", "o", "x", "w", "s1", "s2", "u"}
MCCombines == {"o", "x", "s1", "s2"}
MCCombineKey == [t \in MCTask |-> IF t \in {"s1", "s2"} THEN "k" ELSE "none"]
MCDepOf == [t \in MCTask |-> CASE t = "v" -> {"p", "q"} [] t = "w" -> {"x"} [] t = "u" -> {"k"}
                               [] OTHER -> {}]
MCRows == [t \in MCTask |-> CASE t = "p" -> <<1, 2>> [] t = "q" -> <<3, 4>>
                              [] t = "o" -> <<5, 6, 7>> [] t = "x" -> <<8>>
                              [] t = "s1" -> <<9, 10>> [] t = "s2" -> <<11>> [] OTHER -> <<>>]
MCPartOf == [t \in MCTask |-> [r \in 1..11 |-> IF r \in {4, 7} THEN 2 ELSE 1]]
Workload(tasks, reads, dr, br, f, di) ==
    [tasks |-> tasks, reads |-> reads, drops |-> dr, breaks |-> br, faults |-> f, discards |-> di]
MCLoad == {Workload({"p"}, {}, 2, 0, 0, 1), Workload({"p"}, {"p"}, 0, 2, 0, 1),
           Workload({"p"}, {"p"}, 1, 1, 1, 1), Workload({"p", "q", "v"}, {"v"}, 0, 1, 0, 1),
           Workload({"o"}, {}, 1, 0, 1, 0), Workload({"o"}, {"o"}, 1, 1, 0, 1),
           Workload({"x", "w"}, {"w"}, 0, 0, 1, 1),
           Workload({"s1", "s2", "u"}, {"u"}, 0, 1, 1, 0), Workload({"s1", "s2"}, {}, 1, 0, 0, 0)}
\* A task with a combiner of its own, one of whose reads fails.
RetryLoad == {Workload({"o"}, {}, 0, 0, 1, 0)}
=============================================================================
