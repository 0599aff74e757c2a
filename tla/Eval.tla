-------------------------------- MODULE Eval --------------------------------
(***************************************************************************)
(* The task evaluator, exec.Eval (exec/eval.go), over the shared task      *)
(* states of exec/task.go.  Any number of evaluators run concurrently on   *)
(* one task graph (Session.Run may be called concurrently, and results of  *)
(* one run are dependencies of another).                                   *)
(*                                                                         *)
(* An evaluator reads task states one at a time, each under that task's    *)
(* lock, while executors and other evaluators change them.  A traversal    *)
(* by Enqueue is therefore many steps here: one Read per task, then one    *)
(* EnqueueDone that applies what the traversal wrote to the evaluator's    *)
(* own maps (nobody else sees those, so writing them at once is the same). *)
(*                                                                         *)
(* The executor is abstract: what Run and Discard do to task states        *)
(* (module ExecutorContract).  The local executor does just that; module   *)
(* BigmachineExecutor shows when the bigmachine executor does.             *)
(***************************************************************************)
EXTENDS TaskState, FiniteSets

CONSTANTS
    Task,               \* the tasks of the graph
    Evaluator,          \* concurrent calls of Eval
    Head,               \* Head[t]: head of t's phase; t itself when it has none
    Deps,               \* Deps[t]: the set of dep.Head for dep in t.Deps
    Roots,              \* Roots[e]: the roots passed to Eval by e
    MaxConsecutiveLost, \* maxConsecutiveLost
    MaxLosses           \* bound: how often completed tasks may be lost

Phase(t) == {u \in Task : Head[u] = Head[t]}

ASSUME GraphAssumption ==
    /\ IsFiniteSet(Task)
    /\ Head \in [Task -> Task]
    /\ \A t \in Task : Head[Head[t]] = Head[t]
    /\ Deps \in [Task -> SUBSET Task]
    /\ \A t \in Task : \A d \in Deps[t] : Head[d] = d
    /\ Roots \in [Evaluator -> SUBSET Task]

\* The graph has no cycles: every nonempty set of tasks has a member that
\* depends on none of them.
ASSUME AcyclicAssumption ==
    \A S \in SUBSET Task : S # {} =>
        \E t \in S : \A u \in S : Head[u] \notin Deps[t]

ASSUME BoundAssumption ==
    /\ MaxConsecutiveLost \in Nat \ {0}
    /\ MaxLosses \in Nat

VARIABLES
    taskState,        \* Task.state
    consecutiveLost,  \* Task.consecutiveLost
    runs,             \* number of executor.Run calls in flight, per task
    discarding,       \* tasks in the middle of Executor.Discard
    losses,           \* how many completed tasks were lost so far
    pc,               \* where each evaluator's main loop is
    ret,              \* what each Eval call returned
    ctxDone,          \* whether each evaluator's context is done
    todo, pending,    \* state.todo, state.pending
    deps, counts,     \* state.deps (as a set of edges), state.counts
    failed,           \* state.err # nil
    want, view,       \* tasks Enqueue was called on, and the states it read
    batch,            \* tasks returned by Runnable, not yet submitted
    watched, runner,  \* tasks with a goroutine waiting, and those it runs
    donec, errc,      \* tasks being sent on donec; whether an error is sent
    wasOk             \* history: tasks that were TaskOk during the call

taskVars == <<taskState, consecutiveLost, runs, discarding, losses, wasOk>>
waitVars == <<deps, counts, want, view>>
goVars   == <<watched, runner, donec, errc>>
vars     == <<taskVars, waitVars, goVars, pc, ret, ctxDone, todo, pending,
              failed, batch>>

Unread == -1
NoView == [t \in Task |-> Unread]

PCs  == {"idle", "enqueue", "loop", "submit", "returned"}
Rets == {"none", "nil", "err", "ctx"}

TaskTypeOK ==
    /\ taskState \in [Task -> TaskStates]
    /\ consecutiveLost \in [Task -> Nat]
    /\ runs \in [Task -> Nat]
    /\ discarding \in SUBSET Task
    /\ losses \in 0..MaxLosses
    /\ wasOk \in [Evaluator -> SUBSET Task]

WaitTypeOK ==
    /\ deps \in [Evaluator -> SUBSET (Task \X Task)]
    /\ counts \in [Evaluator -> [Task -> Int]]
    /\ want \in [Evaluator -> SUBSET Task]
    /\ view \in [Evaluator -> [Task -> TaskStates \cup {Unread}]]

GoTypeOK ==
    /\ watched \in [Evaluator -> SUBSET Task]
    /\ runner \in [Evaluator -> SUBSET Task]
    /\ donec \in [Evaluator -> SUBSET Task]
    /\ errc \in [Evaluator -> BOOLEAN]

LoopTypeOK ==
    /\ pc \in [Evaluator -> PCs]
    /\ ret \in [Evaluator -> Rets]
    /\ ctxDone \in [Evaluator -> BOOLEAN]
    /\ todo \in [Evaluator -> SUBSET Task]
    /\ pending \in [Evaluator -> SUBSET Task]
    /\ failed \in [Evaluator -> BOOLEAN]
    /\ batch \in [Evaluator -> SUBSET Task]

\* The types of the task states and of each evaluator's data.
TypeOK == TaskTypeOK /\ WaitTypeOK /\ GoTypeOK /\ LoopTypeOK

Init ==
    /\ taskState = [t \in Task |-> TaskInit]
    /\ consecutiveLost = [t \in Task |-> 0]
    /\ runs = [t \in Task |-> 0]
    /\ discarding = {}
    /\ losses = 0
    /\ pc = [e \in Evaluator |-> "idle"]
    /\ ret = [e \in Evaluator |-> "none"]
    /\ ctxDone = [e \in Evaluator |-> FALSE]
    /\ todo = [e \in Evaluator |-> {}]
    /\ pending = [e \in Evaluator |-> {}]
    /\ deps = [e \in Evaluator |-> {}]
    /\ counts = [e \in Evaluator |-> [t \in Task |-> 0]]
    /\ failed = [e \in Evaluator |-> FALSE]
    /\ want = [e \in Evaluator |-> {}]
    /\ view = [e \in Evaluator |-> NoView]
    /\ batch = [e \in Evaluator |-> {}]
    /\ watched = [e \in Evaluator |-> {}]
    /\ runner = [e \in Evaluator |-> {}]
    /\ donec = [e \in Evaluator |-> {}]
    /\ errc = [e \in Evaluator |-> FALSE]
    /\ wasOk = [e \in Evaluator |-> {}]

-----------------------------------------------------------------------------
(* state.Enqueue: traversal of the graph from the tasks in want[e].        *)

\* The tasks Enqueue is called on: those of want[e], and the dependencies
\* of every task it found in TaskInit or TaskLost.
Entered(e) ==
    want[e] \cup UNION {Deps[u] : u \in {x \in Task : view[e][x] \in Unstarted}}

\* Enqueue on a task looks at every task of its phase, once per round
\* (s.wait memoizes it by the phase's head).
Demanded(e) ==
    {t \in Task : view[e][t] = Unread /\ \E u \in Entered(e) : Head[u] = Head[t]}

\* The tasks of the phases of t's dependencies that t has to wait for: the
\* nwait that Enqueue returns for each dependency counts all of a phase's
\* tasks but those read in TaskOk or TaskErr.
WaitsNotRunning(e, t) ==
    {u \in Task : Head[u] \in Deps[t] /\ view[e][u] \in Unstarted}
Waits(e, t) ==
    {u \in Task : Head[u] \in Deps[t] /\ view[e][u] \in Unstarted \cup InProgress}

\* Tasks whose dependency information Enqueue rebuilt (clear, then add).
Rebuilt(e) == {t \in Task : view[e][t] \in Unstarted}

\* state.add, after state.clear has deleted the old count.
Count(e, t) == Cardinality(Waits(e, t))

\* state.schedule: those of the tasks S that are not pending.
ScheduleTwice(e, S) == S
Schedule(e, S) == S \ pending[e]

\* Eval is called: a fresh state, and Enqueue on every root.
Start(e) ==
    /\ pc[e] = "idle"
    /\ pc' = [pc EXCEPT ![e] = "enqueue"]
    /\ want' = [want EXCEPT ![e] = Roots[e]]
    /\ wasOk' = [wasOk EXCEPT ![e] = {t \in Task : taskState[t] = TaskOk}]
    /\ UNCHANGED <<taskState, consecutiveLost, runs, discarding, losses, goVars,
                   ret, ctxDone, todo, pending, deps, counts, failed, view, batch>>

\* Enqueue reads the state of one task of a phase it has entered.
Read(e, t) ==
    /\ pc[e] = "enqueue"
    /\ t \in Demanded(e)
    /\ view' = [view EXCEPT ![e][t] = taskState[t]]
    /\ UNCHANGED <<taskVars, goVars, pc, ret, ctxDone, todo, pending, deps,
                   counts, failed, want, batch>>

\* The traversal is complete: schedule what is in progress or ready, and
\* record what the other tasks wait for.
EnqueueDone(e) ==
    /\ pc[e] = "enqueue"
    /\ Demanded(e) = {}
    /\ LET ready == {t \in Rebuilt(e) : Waits(e, t) = {}}
           inProgress == {t \in Task : view[e][t] \in InProgress}
       IN todo' = [todo EXCEPT ![e] = @ \cup Schedule(e, ready \cup inProgress)]
    /\ deps' = [deps EXCEPT ![e] =
                  {d \in @ : d[2] \notin Rebuilt(e)} \cup
                  {d \in Task \X Task : /\ d[2] \in Rebuilt(e)
                                        /\ \E u \in Waits(e, d[2]) : Head[u] = d[1]}]
    /\ counts' = [counts EXCEPT ![e] =
                    [t \in Task |-> IF t \in Rebuilt(e)
                                    THEN Count(e, t) ELSE @[t]]]
    /\ want' = [want EXCEPT ![e] = {}]
    /\ view' = [view EXCEPT ![e] = NoView]
    /\ pc' = [pc EXCEPT ![e] = "loop"]
    /\ UNCHANGED <<taskVars, goVars, ret, ctxDone, pending, failed, batch>>

-----------------------------------------------------------------------------
(* The main loop of Eval.                                                  *)

\* state.Done
DoneEarly(e) == failed[e] \/ todo[e] = {}
Done(e) == failed[e] \/ (todo[e] = {} /\ pending[e] = {})

\* Eval returns state.Err(); the deferred cancel ends its context.
Return(e, r) ==
    /\ pc' = [pc EXCEPT ![e] = "returned"]
    /\ ret' = [ret EXCEPT ![e] = r]
    /\ ctxDone' = [ctxDone EXCEPT ![e] = TRUE]

Finish(e) ==
    /\ pc[e] = "loop"
    /\ Done(e)
    /\ Return(e, IF failed[e] THEN "err" ELSE "nil")
    /\ UNCHANGED <<taskVars, waitVars, goVars, todo, pending, failed, batch>>

\* The select takes an error: a wait ended because the context is done.
ReceiveErr(e) ==
    /\ pc[e] = "loop"
    /\ ~Done(e) /\ todo[e] = {}
    /\ errc[e]
    /\ Return(e, "ctx")
    /\ UNCHANGED <<taskVars, waitVars, goVars, todo, pending, failed, batch>>

\* state.done: the tasks that wait for t's phase.
Dependents(e, t) == {d \in Task : <<Head[t], d>> \in deps[e]}

\* state.Return, by the state of the returned task t.  A task that another
\* evaluator (or a discard) is working on again is rescheduled.
ReturnUnsettled(e, t) ==
    /\ taskState[t] < TaskOk
    /\ todo' = [todo EXCEPT ![e] = @ \cup {t}]
    /\ UNCHANGED <<pc, failed, counts, want>>

ReturnErr(e, t) ==
    /\ taskState[t] = TaskErr
    /\ failed' = [failed EXCEPT ![e] = TRUE]
    /\ UNCHANGED <<pc, todo, counts, want>>

\* The waitlists of t's dependents shrink by one; Enqueue those that are empty.
ReturnOk(e, t) ==
    /\ taskState[t] = TaskOk
    /\ counts' = [counts EXCEPT ![e] =
         [d \in Task |-> IF d \in Dependents(e, t) THEN @[d] - 1 ELSE @[d]]]
    /\ want' = [want EXCEPT ![e] = {d \in Dependents(e, t) : counts[e][d] = 1}]
    /\ pc' = [pc EXCEPT ![e] = "enqueue"]
    /\ UNCHANGED <<todo, failed>>

ReturnLostDropped(e, t) ==
    /\ taskState[t] = TaskLost
    /\ UNCHANGED <<pc, todo, failed, counts, want>>

ReturnLost(e, t) ==
    /\ taskState[t] = TaskLost
    /\ want' = [want EXCEPT ![e] = {t}]
    /\ pc' = [pc EXCEPT ![e] = "enqueue"]
    /\ UNCHANGED <<todo, failed, counts>>

\* The select takes a task from donec and hands it to state.Return.
ReceiveDone(e, t) ==
    /\ pc[e] = "loop"
    /\ ~Done(e) /\ todo[e] = {}
    /\ t \in donec[e]
    /\ donec' = [donec EXCEPT ![e] = @ \ {t}]
    /\ pending' = [pending EXCEPT ![e] = @ \ {t}]
    /\ \/ ReturnUnsettled(e, t)
       \/ ReturnErr(e, t)
       \/ ReturnOk(e, t)
       \/ ReturnLost(e, t)
    /\ UNCHANGED <<taskVars, watched, runner, errc, ret, ctxDone, deps, view, batch>>

\* state.Runnable: take all of todo.
Runnable(e) ==
    /\ pc[e] = "loop"
    /\ ~Done(e) /\ todo[e] # {}
    /\ batch' = [batch EXCEPT ![e] = todo[e]]
    /\ pending' = [pending EXCEPT ![e] = @ \cup todo[e]]
    /\ todo' = [todo EXCEPT ![e] = {}]
    /\ pc' = [pc EXCEPT ![e] = "submit"]
    /\ UNCHANGED <<taskVars, waitVars, goVars, ret, ctxDone, failed>>

\* The task is marked as handed to the executor.
Unmarked(t) == taskState
Mark(t) == [taskState EXCEPT ![t] = TaskWaiting]

\* One task of the batch, under its lock: a lost or new task is submitted to
\* the executor; the goroutine that waits for it inherits the lock, so it
\* has looked at the state once before anybody else can change it.
Submit(e, t) ==
    /\ pc[e] = "submit"
    /\ t \in batch[e]
    /\ batch' = [batch EXCEPT ![e] = @ \ {t}]
    /\ pc' = [pc EXCEPT ![e] = IF batch[e] = {t} THEN "loop" ELSE "submit"]
    /\ \/ /\ taskState[t] \in Unstarted
          /\ taskState' = Mark(t)
          /\ runs' = [runs EXCEPT ![t] = @ + 1]
          /\ watched' = [watched EXCEPT ![e] = @ \cup {t}]
          /\ runner' = [runner EXCEPT ![e] = @ \cup {t}]
          /\ UNCHANGED donec
       \/ /\ taskState[t] \in InProgress
          /\ watched' = [watched EXCEPT ![e] = @ \cup {t}]
          /\ UNCHANGED <<taskState, runs, runner, donec>>
       \/ /\ taskState[t] \in {TaskOk, TaskErr}
          /\ donec' = [donec EXCEPT ![e] = @ \cup {t}]
          /\ UNCHANGED <<taskState, runs, watched, runner>>
    /\ UNCHANGED <<consecutiveLost, discarding, losses, wasOk, waitVars, errc,
                   ret, ctxDone, todo, pending, failed>>

-----------------------------------------------------------------------------
(* The goroutine that waits for task t on behalf of evaluator e.           *)

\* Only the goroutine whose evaluator submitted the task counts losses; a
\* task lost maxConsecutiveLost times in a row is turned into an error.
BookkeepForgetful(e, t) == UNCHANGED <<taskState, consecutiveLost>>
BookkeepNoReset(e, t) ==
    IF t \notin runner[e] \/ taskState[t] \notin {TaskOk, TaskLost}
    THEN UNCHANGED <<taskState, consecutiveLost>>
    ELSE LET n == consecutiveLost[t] + 1
         IN /\ consecutiveLost' = [consecutiveLost EXCEPT ![t] = n]
            /\ taskState' = [taskState EXCEPT ![t] =
                               IF n >= MaxConsecutiveLost THEN TaskErr ELSE @]
Bookkeep(e, t) ==
    IF t \notin runner[e] \/ taskState[t] \notin {TaskOk, TaskLost}
    THEN UNCHANGED <<taskState, consecutiveLost>>
    ELSE LET n == IF taskState[t] = TaskOk THEN 0 ELSE consecutiveLost[t] + 1
         IN /\ consecutiveLost' = [consecutiveLost EXCEPT ![t] = n]
            /\ taskState' = [taskState EXCEPT ![t] =
                               IF n >= MaxConsecutiveLost THEN TaskErr ELSE @]

\* The wait is over, because the task reached at least TaskOk or because the
\* context is done; the outcome goes to donec or errc.
Wake(e, t) ==
    /\ t \in watched[e]
    /\ \/ /\ taskState[t] >= TaskOk
          /\ donec' = [donec EXCEPT ![e] = @ \cup {t}]
          /\ UNCHANGED errc
       \/ /\ ctxDone[e]
          /\ errc' = [errc EXCEPT ![e] = TRUE]
          /\ UNCHANGED donec
    /\ Bookkeep(e, t)
    /\ watched' = [watched EXCEPT ![e] = @ \ {t}]
    /\ runner' = [runner EXCEPT ![e] = @ \ {t}]
    /\ UNCHANGED <<runs, discarding, losses, wasOk, waitVars, pc, ret, ctxDone,
                   todo, pending, failed, batch>>

\* The caller's context is cancelled while Eval runs.
Cancel(e) ==
    /\ pc[e] \notin {"idle", "returned"}
    /\ ~ctxDone[e]
    /\ ctxDone' = [ctxDone EXCEPT ![e] = TRUE]
    /\ UNCHANGED <<taskVars, waitVars, goVars, pc, ret, todo, pending, failed, batch>>

-----------------------------------------------------------------------------
(* The executor, as far as task states are concerned.                      *)

evalVars == <<waitVars, goVars, pc, ret, ctxDone, todo, pending, failed, batch>>

\* Executor.Run got its resources: task.Set(TaskRunning).
RunStart(t) ==
    /\ runs[t] > 0
    /\ taskState[t] = TaskWaiting
    /\ taskState' = [taskState EXCEPT ![t] = TaskRunning]
    /\ UNCHANGED <<consecutiveLost, runs, discarding, losses, wasOk, evalVars>>

\* Executor.Run returns, leaving the task in state s.
MayEndUncalled(t, s) == taskState[t] \in InProgress
MayEnd(t, s) ==
    /\ runs[t] > 0
    /\ taskState[t] \in InProgress
    /\ s = TaskOk => taskState[t] = TaskRunning

RunEnd(t, s) ==
    /\ MayEnd(t, s)
    /\ runs' = [runs EXCEPT ![t] = @ - 1]
    /\ taskState' = [taskState EXCEPT ![t] = s]
    /\ wasOk' = [e \in Evaluator |-> IF s = TaskOk /\ pc[e] \notin {"idle", "returned"}
                                     THEN wasOk[e] \cup {t} ELSE wasOk[e]]
    /\ UNCHANGED <<consecutiveLost, discarding, losses, evalVars>>

\* The local executor discards the output of a completed task; to the
\* evaluator, the loss of the machine that holds it looks the same.
Lose(t) ==
    /\ taskState[t] = TaskOk
    /\ losses < MaxLosses
    /\ losses' = losses + 1
    /\ taskState' = [taskState EXCEPT ![t] = TaskLost]
    /\ UNCHANGED <<consecutiveLost, runs, discarding, wasOk, evalVars>>

\* The bigmachine executor's Discard: the task is TaskRunning while its
\* worker is told to drop the output, then TaskLost.
DiscardStart(t) ==
    /\ taskState[t] = TaskOk
    /\ losses < MaxLosses
    /\ losses' = losses + 1
    /\ taskState' = [taskState EXCEPT ![t] = TaskRunning]
    /\ discarding' = discarding \cup {t}
    /\ UNCHANGED <<consecutiveLost, runs, wasOk, evalVars>>

DiscardEnd(t) ==
    /\ t \in discarding
    /\ taskState' = [taskState EXCEPT ![t] = TaskLost]
    /\ discarding' = discarding \ {t}
    /\ UNCHANGED <<consecutiveLost, runs, losses, wasOk, evalVars>>

-----------------------------------------------------------------------------

Evaluate(e) ==
    \/ \E t \in Task : Read(e, t) \/ ReceiveDone(e, t) \/ Submit(e, t)
    \/ EnqueueDone(e)
    \/ Runnable(e)
    \/ ReceiveErr(e)
    \/ Finish(e)

Execute(t) ==
    \/ RunStart(t)
    \/ \E s \in {TaskOk, TaskErr, TaskLost} : RunEnd(t, s)
    \/ DiscardEnd(t)

\* All calls of Eval have returned.
Terminated ==
    /\ \A e \in Evaluator : pc[e] = "returned"
    /\ UNCHANGED vars

Next ==
    \/ \E e \in Evaluator : Start(e) \/ Evaluate(e) \/ Cancel(e)
    \/ \E e \in Evaluator, t \in Task : Wake(e, t)
    \/ \E t \in Task : Execute(t) \/ Lose(t) \/ DiscardStart(t)
    \/ Terminated

Spec == Init /\ [][Next]_vars

\* What Go's scheduler and the executors give: every evaluator and every
\* waiting goroutine that can run eventually does, and executor.Run and
\* Discard return.
FairSpec ==
    /\ Spec
    /\ \A e \in Evaluator : WF_vars(Evaluate(e))
    /\ \A e \in Evaluator, t \in Task : WF_vars(Wake(e, t))
    /\ \A t \in Task : WF_vars(Execute(t))

-----------------------------------------------------------------------------
(* Properties.                                                             *)

\* state.Return panics when it is handed a task that is not pending.  Every
\* task on donec, and every task somebody still waits for, is pending, so it
\* never does; and no task is handed over twice.
ReturnNeverPanics ==
    \A e \in Evaluator : /\ donec[e] \subseteq pending[e]
                         /\ watched[e] \subseteq pending[e]
                         /\ batch[e] \subseteq pending[e]
                         /\ donec[e] \cap watched[e] = {}
                         /\ donec[e] \cap batch[e] = {}
                         /\ watched[e] \cap batch[e] = {}

\* However evaluators race, a task is never in the hands of two executor.Run
\* calls at once: submission marks it TaskWaiting under its lock.
OneRunPerTask == \A t \in Task : runs[t] <= 1

\* "Eval returns on evaluation error or else when all roots are fully
\* evaluated": when it returns nil, every root was TaskOk at some moment of
\* the call.
NilMeansEvaluated ==
    \A e \in Evaluator : ret[e] = "nil" => Roots[e] \subseteq wasOk[e]

\* The same where nothing goes wrong: if Eval returns nil and no task has failed,
\* every root was TaskOk at some moment of the call.
NilMeansEvaluatedUnlessFailed ==
    \A e \in Evaluator :
        (ret[e] = "nil" /\ \A t \in Task : taskState[t] # TaskErr)
            => Roots[e] \subseteq wasOk[e]

\* "Eval uses the provided executor to dispatch tasks when their dependencies
\* have been satisfied": with any number of evaluators, a submitted task never
\* waits for a dependency that has yet to run for the first time; each was
\* TaskOk during some evaluation, or has failed for good.
Satisfied(t) ==
    \A u \in Task : Head[u] \in Deps[t] =>
        taskState[u] = TaskErr \/ \E e \in Evaluator : u \in wasOk[e]

DispatchedAfterDeps ==
    \A t \in Task : taskState[t] = TaskWaiting => Satisfied(t)

\* A task on a waitlist is never stranded: the count it waits for to reach
\* zero is at most the number of tasks of its dependencies' phases that are
\* still outstanding (so that returns can bring it to zero).
Outstanding(e) ==
    todo[e] \cup pending[e] \cup want[e] \cup {d \in Task : counts[e][d] > 0}

WaitlistDrains ==
    \A e \in Evaluator : \A d \in Task :
        (counts[e][d] > 0 /\ ~failed[e]) =>
            counts[e][d] <= Cardinality({u \in Outstanding(e) : <<Head[u], d>> \in deps[e]})

\* Eval returns: no evaluation waits forever, even when tasks are lost again
\* and again (maxConsecutiveLost ends that).
EvalReturns == \A e \in Evaluator : (pc[e] # "idle") ~> (pc[e] = "returned")

\* Evaluators that share tasks keep, with the executor, to its contract: they
\* submit a task only while nobody runs it, and only ever turn a lost task
\* into an error.
Contract == INSTANCE ExecutorContract
FollowsContract == Contract!Spec
=============================================================================
