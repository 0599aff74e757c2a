----------------------------- MODULE TaskState -----------------------------
(***************************************************************************)
(* The runtime states of a task (exec/task.go).  The constants keep the    *)
(* values Go's iota gives them, because the code compares them with <:     *)
(* an evaluator waits while a task's state is < TaskOk, and every value    *)
(* above TaskOk is a failure.                                              *)
(***************************************************************************)
EXTENDS Integers

TaskInit    == 0  \* not yet seen by an executor
TaskWaiting == 1  \* submitted to the executor, no resources yet
TaskRunning == 2  \* being run, or being discarded
TaskOk      == 3  \* completed, results available
TaskErr     == 4  \* failed, not retried
TaskLost    == 5  \* lost, to be resubmitted

TaskStates == TaskInit..TaskLost

\* The states in which Enqueue has to look at the task's dependencies.
Unstarted == {TaskInit, TaskLost}
\* The states in which some executor is at work on the task.
InProgress == {TaskWaiting, TaskRunning}
=============================================================================
