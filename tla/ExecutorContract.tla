-------------------------- MODULE ExecutorContract --------------------------
(***************************************************************************)
(* What an evaluator may rely on when it hands tasks to an Executor        *)
(* (exec/eval.go), as a specification of task states alone: a task is      *)
(* submitted when nobody works on it, its one run takes it to TaskOk or to *)
(* a failure, and only a completed task is lost or discarded.              *)
(***************************************************************************)
EXTENDS TaskState

CONSTANT Task

VARIABLES
    taskState,  \* Task.state
    runs,       \* calls of Executor.Run that have not settled the task, per task
    discarding  \* tasks in the middle of Executor.Discard

vars == <<taskState, runs, discarding>>

Init ==
    /\ taskState = [t \in Task |-> TaskInit]
    /\ runs = [t \in Task |-> 0]
    /\ discarding = {}

\* The evaluator marks the task and calls Run.
Submit(t) ==
    /\ taskState[t] \in Unstarted /\ runs[t] = 0
    /\ taskState' = [taskState EXCEPT ![t] = TaskWaiting]
    /\ runs' = [runs EXCEPT ![t] = 1]
    /\ UNCHANGED discarding

\* The evaluator gives up on a task that was lost too often.
GiveUp(t) ==
    /\ taskState[t] = TaskLost
    /\ taskState' = [taskState EXCEPT ![t] = TaskErr]
    /\ UNCHANGED <<runs, discarding>>

RunStart(t) ==
    /\ runs[t] = 1 /\ taskState[t] = TaskWaiting
    /\ taskState' = [taskState EXCEPT ![t] = TaskRunning]
    /\ UNCHANGED <<runs, discarding>>

\* "by the time Run returns the task state is >= TaskOk"
RunEnd(t, s) ==
    /\ runs[t] = 1 /\ taskState[t] \in InProgress /\ t \notin discarding
    /\ s = TaskOk => taskState[t] = TaskRunning
    /\ taskState' = [taskState EXCEPT ![t] = s]
    /\ runs' = [runs EXCEPT ![t] = 0]
    /\ UNCHANGED discarding

Lose(t) ==
    /\ taskState[t] = TaskOk
    /\ taskState' = [taskState EXCEPT ![t] = TaskLost]
    /\ UNCHANGED <<runs, discarding>>

DiscardStart(t) ==
    /\ taskState[t] = TaskOk
    /\ taskState' = [taskState EXCEPT ![t] = TaskRunning]
    /\ discarding' = discarding \cup {t}
    /\ UNCHANGED runs

DiscardEnd(t) ==
    /\ t \in discarding
    /\ taskState' = [taskState EXCEPT ![t] = TaskLost]
    /\ discarding' = discarding \ {t}
    /\ UNCHANGED runs

Next ==
    \E t \in Task :
        \/ Submit(t) \/ GiveUp(t) \/ RunStart(t)
        \/ \E s \in {TaskOk, TaskErr, TaskLost} : RunEnd(t, s)
        \/ Lose(t) \/ DiscardStart(t) \/ DiscardEnd(t)

Spec == Init /\ [][Next]_vars
=============================================================================
