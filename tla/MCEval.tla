------------------------------- MODULE MCEval -------------------------------
(* Instances of Eval for TLC. *)
EXTENDS Eval

OneEvaluator  == {"e1"}
TwoEvaluators == {"e1", "e2"}

\* Two reduce tasks r1, r2 over a shuffled phase {a, b}.
ShuffleTask  == {"a", "b", "r1", "r2"}
ShuffleHead  == [a |-> "a", b |-> "a", r1 |-> "r1", r2 |-> "r2"]
ShuffleDeps  == [a |-> {}, b |-> {}, r1 |-> {"a"}, r2 |-> {"a"}]
ShuffleRoots == [e1 |-> {"r1", "r2"}]

\* Two shuffles in a row: {a, b}, then {c, d}, then r.
StagesTask  == {"a", "b", "c", "d", "r"}
StagesHead  == [a |-> "a", b |-> "a", c |-> "c", d |-> "c", r |-> "r"]
StagesDeps  == [a |-> {}, b |-> {}, c |-> {"a"}, d |-> {"a"}, r |-> {"c"}]
StagesRoots == [e1 |-> {"r"}]

\* A chain a, b, c: the second evaluator computes c from the result of b,
\* which the first evaluator computes.
ChainTask  == {"a", "b", "c"}
ChainHead  == [a |-> "a", b |-> "b", c |-> "c"]
ChainDeps  == [a |-> {}, b |-> {"a"}, c |-> {"b"}]
ChainRoots == [e1 |-> {"b"}, e2 |-> {"c"}]

PairTask  == {"a", "b"}
PairHead  == [a |-> "a", b |-> "b"]
PairDeps  == [a |-> {}, b |-> {"a"}]
PairRoots == [e1 |-> {"b"}, e2 |-> {"b"}]
=============================================================================
