--------------------------- MODULE EvalInvariants ---------------------------
(***************************************************************************)
(* The inductive invariants behind the theorems about Eval.  The first     *)
(* three hold for any number of evaluators; SoloInv is about an evaluator  *)
(* that has the tasks for itself.                                          *)
(***************************************************************************)
EXTENDS Eval

-----------------------------------------------------------------------------
(* Any number of evaluators.                                               *)

\* A task is in one place of an evaluator: scheduled, in the batch being
\* submitted, waited for, or returned.
OnePlace ==
    /\ ReturnNeverPanics
    /\ \A e \in Evaluator : /\ todo[e] \cap pending[e] = {}
                            /\ pc[e] # "submit" => batch[e] = {}

\* A task that is being run or discarded is in progress, and not both.
RunInv ==
    \A t \in Task : /\ runs[t] <= 1
                    /\ runs[t] > 0 => taskState[t] \in InProgress /\ t \notin discarding
                    /\ t \in discarding => taskState[t] = TaskRunning

Active(e) == pc[e] \in {"enqueue", "loop", "submit"}

\* The dependencies of every task that was ever submitted, or is about to be,
\* were satisfied, as the evaluator that scheduled it has seen.
SeenInv(e) ==
    /\ \A t \in todo[e] \cup pending[e] : Satisfied(t)
    /\ pc[e] = "idle" => wasOk[e] = {}
    /\ pc[e] # "enqueue" => view[e] = NoView
    /\ Active(e) => \A t \in Task : taskState[t] = TaskOk => t \in wasOk[e]
    /\ \A t \in Task : /\ view[e][t] \in InProgress => Satisfied(t)
                       /\ view[e][t] = TaskOk => t \in wasOk[e]
                       /\ view[e][t] = TaskErr => taskState[t] = TaskErr

SatisfiedInv ==
    /\ \A t \in Task : taskState[t] # TaskInit => Satisfied(t)
    /\ \A e \in Evaluator : SeenInv(e)

-----------------------------------------------------------------------------
(* One evaluator.                                                          *)

\* Nothing has happened before it starts.
Quiet(e) ==
    pc[e] = "idle" =>
        /\ \A t \in Task : taskState[t] = TaskInit /\ counts[e][t] = 0
        /\ todo[e] = {} /\ watched[e] = {} /\ donec[e] = {} /\ batch[e] = {}
        /\ ret[e] = "none"

\* Between two rounds of Enqueue nothing is read or wanted; a round starts
\* only when nothing is scheduled.
Rounds(e) ==
    /\ pc[e] \in {"idle", "enqueue"} => todo[e] = {}
    /\ pc[e] # "enqueue" => want[e] = {}
    /\ \A d \in deps[e] : d[1] \in Deps[d[2]]
    /\ \A t \in Task : t \in watched[e] \cup donec[e] => taskState[t] # TaskInit

Live(e) == Active(e) /\ ~failed[e]

\* The task is not in the executor's hands, and will not get there before it
\* is returned to the evaluator or its waitlist is rebuilt.
Parked(e, t) ==
    taskState[t] \in Unstarted \/ (taskState[t] = TaskErr /\ t \in pending[e])

\* A task on a waitlist is parked; a scheduled one is on no waitlist.
Waitlist(e) ==
    Live(e) => \A t \in Task : /\ counts[e][t] > 0 => Parked(e, t)
                               /\ t \in todo[e] \cup batch[e] => counts[e][t] <= 0

\* What a round of Enqueue has read stays true until the round ends.
Views(e) ==
    Live(e) => \A t \in Task :
        /\ view[e][t] \in Unstarted => Parked(e, t)
        /\ view[e][t] \in InProgress => counts[e][t] <= 0
        /\ t \in want[e] => /\ Parked(e, t)
                            /\ view[e][t] \in Unstarted \cup {Unread} \/ t \in pending[e]

\* Every root was TaskOk or is still accounted for.
RootsKept(e) == Live(e) => Roots[e] \subseteq wasOk[e] \cup Outstanding(e)

Drains(e) ==
    ~failed[e] => \A d \in Task : counts[e][d] > 0 =>
        counts[e][d] <= Cardinality({u \in Outstanding(e) : <<Head[u], d>> \in deps[e]})

\* What Eval promises with a nil result.
Settled(e) == ret[e] = "nil" => Roots[e] \subseteq wasOk[e]

SoloInv(e) ==
    /\ Quiet(e) /\ Rounds(e) /\ Waitlist(e) /\ Views(e) /\ RootsKept(e) /\ Drains(e)
    /\ Settled(e)
=============================================================================
