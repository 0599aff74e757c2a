----------------------------- MODULE EvalProofs -----------------------------
(***************************************************************************)
(* Proofs about module Eval, for every task graph, every number of         *)
(* evaluators and every value of the bounds.                               *)
(***************************************************************************)
EXTENDS EvalInvariants, FiniteSetTheorems, TLAPS

\* The task states are six different values.
LEMMA States ==
    /\ {TaskInit, TaskWaiting, TaskRunning, TaskOk, TaskErr, TaskLost} = TaskStates
    /\ Unstarted \cup InProgress \cup {TaskOk, TaskErr} = TaskStates
    /\ Unstarted \cap InProgress = {}
    /\ {TaskOk, TaskErr} \cap (Unstarted \cup InProgress) = {}
    /\ TaskOk # TaskErr
    /\ \A s \in TaskStates : s < TaskOk <=> s \in {TaskInit} \cup InProgress
    /\ \A s \in TaskStates : s >= TaskOk <=> s \in {TaskOk, TaskErr, TaskLost}
    /\ Unread \notin TaskStates
BY DEF TaskStates, TaskInit, TaskWaiting, TaskRunning, TaskOk, TaskErr, TaskLost,
       Unstarted, InProgress, Unread

\* A task waits for finitely many others.
LEMMA WaitsFinite ==
    ASSUME NEW e \in Evaluator, NEW t \in Task
    PROVE  IsFiniteSet(Waits(e, t)) /\ Cardinality(Waits(e, t)) \in Nat
BY GraphAssumption, FS_Subset, FS_CardinalityType, Zenon DEF Waits

-----------------------------------------------------------------------------
(* Which steps touch what.                                                 *)

loopVars == <<pc, ret, ctxDone, todo, pending, failed, batch>>

LEMMA ExecutorSteps ==
    ASSUME NEW t \in Task, Execute(t) \/ Lose(t) \/ DiscardStart(t)
    PROVE  UNCHANGED <<waitVars, goVars, loopVars>>
<1>1. UNCHANGED evalVars
  BY Zenon DEF Execute, RunStart, RunEnd, DiscardEnd, Lose, DiscardStart
<1> QED
  BY <1>1, Zenon DEF evalVars, loopVars

LEMMA TaskSteps ==
    ASSUME [Next]_vars
    PROVE  \/ \E e \in Evaluator : Start(e)
           \/ \E e \in Evaluator, t \in Task : Submit(e, t) \/ Wake(e, t)
           \/ \E t \in Task : Execute(t) \/ Lose(t) \/ DiscardStart(t)
           \/ UNCHANGED taskVars
<1>1. ASSUME NEW e \in Evaluator, EnqueueDone(e) \/ Runnable(e) \/ Finish(e)
      PROVE UNCHANGED taskVars
  BY <1>1, Zenon DEF EnqueueDone, Runnable, Finish
<1>2. ASSUME NEW e \in Evaluator, ReceiveErr(e) \/ Cancel(e) PROVE UNCHANGED taskVars
  BY <1>2, Zenon DEF ReceiveErr, Cancel
<1>3. ASSUME NEW e \in Evaluator, NEW t \in Task, Read(e, t) \/ ReceiveDone(e, t)
      PROVE UNCHANGED taskVars
  BY <1>3, Zenon DEF Read, ReceiveDone
<1>4. CASE UNCHANGED vars
  BY <1>4, Zenon DEF vars
<1> QED
  BY <1>1, <1>2, <1>3, <1>4, Zenon DEF Next, Evaluate, Terminated

LEMMA WaitSteps ==
    ASSUME [Next]_vars
    PROVE  \/ \E e \in Evaluator : Start(e) \/ EnqueueDone(e)
           \/ \E e \in Evaluator, t \in Task : Read(e, t) \/ ReceiveDone(e, t)
           \/ UNCHANGED waitVars
<1>1. ASSUME NEW e \in Evaluator, Runnable(e) \/ Finish(e) PROVE UNCHANGED waitVars
  BY <1>1, Zenon DEF Runnable, Finish
<1>2. ASSUME NEW e \in Evaluator, ReceiveErr(e) \/ Cancel(e) PROVE UNCHANGED waitVars
  BY <1>2, Zenon DEF ReceiveErr, Cancel
<1>3. ASSUME NEW e \in Evaluator, NEW t \in Task, Submit(e, t) \/ Wake(e, t)
      PROVE UNCHANGED waitVars
  BY <1>3, Zenon DEF Submit, Wake
<1>4. CASE UNCHANGED vars
  BY <1>4, Zenon DEF vars
<1> QED
  BY <1>1, <1>2, <1>3, <1>4, ExecutorSteps, Zenon DEF Next, Evaluate, Terminated

LEMMA GoSteps ==
    ASSUME [Next]_vars
    PROVE  \/ \E e \in Evaluator, t \in Task : Submit(e, t) \/ Wake(e, t) \/ ReceiveDone(e, t)
           \/ UNCHANGED goVars
<1>1. ASSUME NEW e \in Evaluator, Start(e) \/ EnqueueDone(e) PROVE UNCHANGED goVars
  BY <1>1, Zenon DEF Start, EnqueueDone
<1>2. ASSUME NEW e \in Evaluator, Runnable(e) \/ Finish(e) PROVE UNCHANGED goVars
  BY <1>2, Zenon DEF Runnable, Finish
<1>3. ASSUME NEW e \in Evaluator, ReceiveErr(e) \/ Cancel(e) PROVE UNCHANGED goVars
  BY <1>3, Zenon DEF ReceiveErr, Cancel
<1>4. ASSUME NEW e \in Evaluator, NEW t \in Task, Read(e, t) PROVE UNCHANGED goVars
  BY <1>4, Zenon DEF Read
<1>5. CASE UNCHANGED vars
  BY <1>5, Zenon DEF vars
<1> QED
  BY <1>1, <1>2, <1>3, <1>4, <1>5, ExecutorSteps, Zenon DEF Next, Evaluate, Terminated

LEMMA LoopSteps ==
    ASSUME [Next]_vars
    PROVE  \/ \E e \in Evaluator : \/ Start(e) \/ EnqueueDone(e) \/ Runnable(e) \/ Finish(e)
                                   \/ ReceiveErr(e) \/ Cancel(e)
           \/ \E e \in Evaluator, t \in Task : Submit(e, t) \/ ReceiveDone(e, t)
           \/ UNCHANGED loopVars
<1>1. ASSUME NEW e \in Evaluator, NEW t \in Task, Read(e, t) \/ Wake(e, t)
      PROVE UNCHANGED loopVars
  BY <1>1, Zenon DEF Read, Wake, loopVars
<1>2. CASE UNCHANGED vars
  BY <1>2, Zenon DEF vars, loopVars
<1> QED
  BY <1>1, <1>2, ExecutorSteps, Zenon DEF Next, Evaluate, Terminated

-----------------------------------------------------------------------------
(* Types.                                                                  *)

LEMMA TaskTypeStep == ASSUME TypeOK, [Next]_vars PROVE TaskTypeOK'
<1> USE States DEF TypeOK, TaskTypeOK
<1>1. ASSUME NEW e \in Evaluator, Start(e) PROVE TaskTypeOK'
  BY <1>1, Zenon DEF Start
<1>2. ASSUME NEW e \in Evaluator, NEW t \in Task, Submit(e, t) PROVE TaskTypeOK'
  BY <1>2 DEF Submit, Mark
<1>3. ASSUME NEW e \in Evaluator, NEW t \in Task, Wake(e, t) PROVE TaskTypeOK'
  BY <1>3 DEF Wake, Bookkeep
<1>4. ASSUME NEW t \in Task, Execute(t) PROVE TaskTypeOK'
  BY <1>4 DEF Execute, RunStart, RunEnd, MayEnd, DiscardEnd
<1>5. ASSUME NEW t \in Task, Lose(t) \/ DiscardStart(t) PROVE TaskTypeOK'
  BY <1>5, BoundAssumption DEF Lose, DiscardStart
<1>6. CASE UNCHANGED taskVars
  BY <1>6, Zenon DEF taskVars
<1> QED
  BY <1>1, <1>2, <1>3, <1>4, <1>5, <1>6, TaskSteps, Zenon

LEMMA WaitTypeStep == ASSUME TypeOK, [Next]_vars PROVE WaitTypeOK'
<1>0. WaitTypeOK /\ TaskTypeOK
  BY Zenon DEF TypeOK
<1>1. ASSUME NEW e \in Evaluator, Start(e) PROVE WaitTypeOK'
  BY <1>0, <1>1, GraphAssumption, Zenon DEF Start, WaitTypeOK
<1>2. ASSUME NEW e \in Evaluator, NEW t \in Task, Read(e, t) PROVE WaitTypeOK'
  BY <1>0, <1>2, Zenon DEF Read, TaskTypeOK, WaitTypeOK
<1>3. ASSUME NEW e \in Evaluator, EnqueueDone(e) PROVE WaitTypeOK'
  BY <1>0, <1>3, WaitsFinite DEF EnqueueDone, Count, NoView, WaitTypeOK
<1>4. ASSUME NEW e \in Evaluator, NEW t \in Task, ReceiveDone(e, t) PROVE WaitTypeOK'
  <2>0. UNCHANGED <<deps, view>>
    BY <1>4, Zenon DEF ReceiveDone
  <2> USE <1>0, <2>0 DEF WaitTypeOK
  <2>1. CASE ReturnUnsettled(e, t)
    BY <2>1, Zenon DEF ReturnUnsettled
  <2>2. CASE ReturnErr(e, t)
    BY <2>2, Zenon DEF ReturnErr
  <2>3. CASE ReturnOk(e, t)
    BY <2>3 DEF ReturnOk, Dependents
  <2>4. CASE ReturnLost(e, t)
    BY <2>4, Zenon DEF ReturnLost
  <2> QED
    BY <1>4, <2>1, <2>2, <2>3, <2>4, Zenon DEF ReceiveDone
<1>5. CASE UNCHANGED waitVars
  BY <1>0, <1>5, Zenon DEF waitVars, WaitTypeOK
<1> QED
  BY <1>1, <1>2, <1>3, <1>4, <1>5, WaitSteps, Zenon

LEMMA GoTypeStep == ASSUME TypeOK, [Next]_vars PROVE GoTypeOK'
<1>0. GoTypeOK
  BY Zenon DEF TypeOK
<1>1. ASSUME NEW e \in Evaluator, NEW t \in Task, Submit(e, t) PROVE GoTypeOK'
  BY <1>0, <1>1 DEF Submit, GoTypeOK
<1>2. ASSUME NEW e \in Evaluator, NEW t \in Task, Wake(e, t) PROVE GoTypeOK'
  <2>0. /\ watched' = [watched EXCEPT ![e] = @ \ {t}]
        /\ runner' = [runner EXCEPT ![e] = @ \ {t}]
    BY <1>2, Zenon DEF Wake
  <2>1. CASE donec' = [donec EXCEPT ![e] = @ \cup {t}] /\ UNCHANGED errc
    BY <1>0, <2>0, <2>1, Zenon DEF GoTypeOK
  <2>2. CASE errc' = [errc EXCEPT ![e] = TRUE] /\ UNCHANGED donec
    BY <1>0, <2>0, <2>2, Zenon DEF GoTypeOK
  <2> QED
    BY <1>2, <2>1, <2>2, Zenon DEF Wake
<1>3. ASSUME NEW e \in Evaluator, NEW t \in Task, ReceiveDone(e, t) PROVE GoTypeOK'
  BY <1>0, <1>3, Zenon DEF ReceiveDone, GoTypeOK
<1>4. CASE UNCHANGED goVars
  BY <1>0, <1>4, Zenon DEF goVars, GoTypeOK
<1> QED
  BY <1>1, <1>2, <1>3, <1>4, GoSteps, Zenon

LEMMA LoopTypeStep == ASSUME TypeOK, [Next]_vars PROVE LoopTypeOK'
<1>0. LoopTypeOK
  BY Zenon DEF TypeOK
<1> USE <1>0 DEF LoopTypeOK, PCs, Rets
<1>1. ASSUME NEW e \in Evaluator, Start(e) PROVE LoopTypeOK'
  BY <1>1, Zenon DEF Start
<1>2. ASSUME NEW e \in Evaluator, EnqueueDone(e) PROVE LoopTypeOK'
  BY <1>2, Zenon DEF EnqueueDone, Schedule, Rebuilt
<1>3. ASSUME NEW e \in Evaluator, Finish(e) PROVE LoopTypeOK'
  BY <1>3, Zenon DEF Finish, Return
<1>4. ASSUME NEW e \in Evaluator, ReceiveErr(e) PROVE LoopTypeOK'
  BY <1>4, Zenon DEF ReceiveErr, Return
<1>5. ASSUME NEW e \in Evaluator, Cancel(e) PROVE LoopTypeOK'
  BY <1>5, Zenon DEF Cancel
<1>6. ASSUME NEW e \in Evaluator, Runnable(e) PROVE LoopTypeOK'
  BY <1>6, Zenon DEF Runnable
<1>7. ASSUME NEW e \in Evaluator, NEW t \in Task, ReceiveDone(e, t) PROVE LoopTypeOK'
  <2>0. /\ pending' = [pending EXCEPT ![e] = @ \ {t}]
        /\ UNCHANGED <<ret, ctxDone, batch>>
    BY <1>7, Zenon DEF ReceiveDone
  <2>1. CASE ReturnUnsettled(e, t)
    BY <2>0, <2>1, Zenon DEF ReturnUnsettled
  <2>2. CASE ReturnErr(e, t)
    BY <2>0, <2>2, Zenon DEF ReturnErr
  <2>3. CASE ReturnOk(e, t)
    BY <2>0, <2>3, Zenon DEF ReturnOk
  <2>4. CASE ReturnLost(e, t)
    BY <2>0, <2>4, Zenon DEF ReturnLost
  <2> QED
    BY <1>7, <2>1, <2>2, <2>3, <2>4, Zenon DEF ReceiveDone
<1>8. ASSUME NEW e \in Evaluator, NEW t \in Task, Submit(e, t) PROVE LoopTypeOK'
  BY <1>8, Zenon DEF Submit
<1>9. CASE UNCHANGED loopVars
  BY <1>9, Zenon DEF loopVars
<1> QED
  BY <1>1, <1>2, <1>3, <1>4, <1>5, <1>6, <1>7, <1>8, <1>9, LoopSteps, Zenon

\* Every state the model reaches is well typed: counts stay integers, no
\* executor.Run ends that was not started, views hold task states.
THEOREM TypeCorrect == Spec => []TypeOK
<1>1. Init => TypeOK
  BY States, BoundAssumption DEF Init, TypeOK, TaskTypeOK, WaitTypeOK, GoTypeOK, LoopTypeOK,
     NoView, PCs, Rets
<1>2. TypeOK /\ [Next]_vars => TypeOK'
  BY TaskTypeStep, WaitTypeStep, GoTypeStep, LoopTypeStep, Zenon DEF TypeOK
<1> QED
  BY <1>1, <1>2, PTL DEF Spec

-----------------------------------------------------------------------------
(* Any number of evaluators.                                               *)

LEMMA OnePlaceStep == ASSUME TypeOK, OnePlace, [Next]_vars PROVE OnePlace'
<1>0. LoopTypeOK /\ GoTypeOK
  BY Zenon DEF TypeOK
<1> USE <1>0 DEF OnePlace, ReturnNeverPanics
<1>1. ASSUME NEW e \in Evaluator, Start(e) PROVE OnePlace'
  BY <1>1, Zenon DEF Start, goVars, LoopTypeOK
<1>2. ASSUME NEW e \in Evaluator, EnqueueDone(e) PROVE OnePlace'
  BY <1>2, Zenon DEF EnqueueDone, Schedule, goVars, LoopTypeOK
<1>3. ASSUME NEW e \in Evaluator, Finish(e) PROVE OnePlace'
  BY <1>3, Zenon DEF Finish, Return, goVars, LoopTypeOK
<1>4. ASSUME NEW e \in Evaluator, ReceiveErr(e) PROVE OnePlace'
  BY <1>4, Zenon DEF ReceiveErr, Return, goVars, LoopTypeOK
<1>5. ASSUME NEW e \in Evaluator, NEW t \in Task, ReceiveDone(e, t) PROVE OnePlace'
  <2>0. /\ pc[e] = "loop" /\ t \in donec[e]
        /\ donec' = [donec EXCEPT ![e] = @ \ {t}]
        /\ pending' = [pending EXCEPT ![e] = @ \ {t}]
        /\ UNCHANGED <<watched, batch>>
    BY <1>5, Zenon DEF ReceiveDone
  <2> USE <2>0 DEF LoopTypeOK, GoTypeOK
  <2>1. CASE ReturnUnsettled(e, t)
    BY <2>1 DEF ReturnUnsettled
  <2>2. CASE ReturnErr(e, t)
    BY <2>2 DEF ReturnErr
  <2>3. CASE ReturnOk(e, t)
    BY <2>3 DEF ReturnOk
  <2>4. CASE ReturnLost(e, t)
    BY <2>4 DEF ReturnLost
  <2> HIDE DEF OnePlace
  <2> QED
    BY <1>5, <2>1, <2>2, <2>3, <2>4, Zenon DEF ReceiveDone
<1>6. ASSUME NEW e \in Evaluator, Runnable(e) PROVE OnePlace'
  BY <1>6, Zenon DEF Runnable, goVars, LoopTypeOK
<1>7. ASSUME NEW e \in Evaluator, NEW t \in Task, Submit(e, t) PROVE OnePlace'
  BY <1>7 DEF Submit, LoopTypeOK, GoTypeOK
<1>8. ASSUME NEW e \in Evaluator, NEW t \in Task, Wake(e, t) PROVE OnePlace'
  <2>1. /\ \A f \in Evaluator : /\ watched'[f] \subseteq watched[f]
                                /\ donec'[f] \subseteq donec[f] \cup (watched[f] \ watched'[f])
        /\ UNCHANGED <<pc, todo, pending, batch>>
    BY <1>8 DEF Wake, GoTypeOK
  <2> QED
    BY <2>1, Zenon
<1>9. ASSUME NEW e \in Evaluator, Cancel(e) PROVE OnePlace'
  BY <1>9, Zenon DEF Cancel, goVars
<1>10. CASE UNCHANGED <<goVars, loopVars>>
  BY <1>10, Zenon DEF goVars, loopVars
<1> HIDE DEF OnePlace
<1> QED
  BY <1>1, <1>2, <1>3, <1>4, <1>5, <1>6, <1>7, <1>8, <1>9, <1>10, GoSteps, LoopSteps, Zenon

\* state.Return never panics on a task that is not pending, whatever the
\* task graph and however many evaluations race.
THEOREM NoPanic == Spec => []ReturnNeverPanics
<1>1. Init => OnePlace
  BY Zenon DEF Init, OnePlace, ReturnNeverPanics
<1>2. TypeOK /\ OnePlace /\ [Next]_vars => OnePlace'
  BY OnePlaceStep, Zenon
<1>3. OnePlace => ReturnNeverPanics
  BY Zenon DEF OnePlace
<1> QED
  BY <1>1, <1>2, <1>3, TypeCorrect, PTL DEF Spec

LEMMA RunInvStep == ASSUME TypeOK, RunInv, [Next]_vars PROVE RunInv'
<1> USE States DEF RunInv, TypeOK, TaskTypeOK
<1>1. ASSUME NEW e \in Evaluator, Start(e) PROVE RunInv'
  BY <1>1, Zenon DEF Start
<1>2. CASE UNCHANGED taskVars
  BY <1>2, Zenon DEF taskVars
<1>3. ASSUME NEW e \in Evaluator, NEW t \in Task, Submit(e, t) PROVE RunInv'
  BY <1>3 DEF Submit, Mark, Unstarted, InProgress, TaskInit, TaskWaiting, TaskRunning, TaskLost
<1>4. ASSUME NEW e \in Evaluator, NEW t \in Task, Wake(e, t) PROVE RunInv'
  BY <1>4 DEF Wake, Bookkeep, InProgress, TaskRunning, TaskWaiting, TaskOk, TaskLost
<1>5. ASSUME NEW t \in Task, RunStart(t) PROVE RunInv'
  BY <1>5, Zenon DEF RunStart, InProgress
<1>6. ASSUME NEW t \in Task, NEW s \in {TaskOk, TaskErr, TaskLost}, RunEnd(t, s)
      PROVE RunInv'
  BY <1>6 DEF RunEnd, MayEnd
<1>7. ASSUME NEW t \in Task, DiscardEnd(t) PROVE RunInv'
  BY <1>7 DEF DiscardEnd
<1>8. ASSUME NEW t \in Task, Lose(t) PROVE RunInv'
  BY <1>8, Zenon DEF Lose, InProgress, TaskOk, TaskWaiting, TaskRunning
<1>9. ASSUME NEW t \in Task, DiscardStart(t) PROVE RunInv'
  BY <1>9, Zenon DEF DiscardStart, InProgress, TaskOk, TaskWaiting, TaskRunning
<1> HIDE DEF RunInv
<1> QED
  BY <1>1, <1>2, <1>3, <1>4, <1>5, <1>6, <1>7, <1>8, <1>9, TaskSteps, Zenon DEF Execute

\* No task is ever in the hands of two executor.Run calls, however many
\* evaluations share it.
THEOREM OneRun == Spec => []OneRunPerTask
<1>1. Init => RunInv
  BY DEF Init, RunInv
<1>2. TypeOK /\ RunInv /\ [Next]_vars => RunInv'
  BY RunInvStep, Zenon
<1>3. RunInv => OneRunPerTask
  BY Zenon DEF RunInv, OneRunPerTask
<1> QED
  BY <1>1, <1>2, <1>3, TypeCorrect, PTL DEF Spec

\* The contract's task states are those of the evaluator.
LEMMA SameStates ==
    /\ Contract!TaskInit = TaskInit /\ Contract!TaskWaiting = TaskWaiting
    /\ Contract!TaskRunning = TaskRunning /\ Contract!TaskOk = TaskOk
    /\ Contract!TaskErr = TaskErr /\ Contract!TaskLost = TaskLost
    /\ Contract!Unstarted = Unstarted /\ Contract!InProgress = InProgress
BY Zenon
   DEF Contract!TaskInit, Contract!TaskWaiting, Contract!TaskRunning, Contract!TaskOk,
       Contract!TaskErr, Contract!TaskLost, Contract!Unstarted, Contract!InProgress, TaskInit,
       TaskWaiting, TaskRunning, TaskOk, TaskErr, TaskLost, Unstarted, InProgress

\* Every step of Eval, of its goroutines and of the executor is, for the task
\* states, a step that the contract allows.
LEMMA ContractStep ==
    ASSUME TypeOK, RunInv, [Next]_vars
    PROVE  Contract!Next \/ UNCHANGED Contract!vars
<1> USE DEF Contract!Next
<1>1. ASSUME NEW e \in Evaluator, Start(e) PROVE UNCHANGED Contract!vars
  BY <1>1, Zenon DEF Start, Contract!vars
<1>2. ASSUME NEW e \in Evaluator, NEW t \in Task, Submit(e, t)
      PROVE Contract!Next \/ UNCHANGED Contract!vars
  <2>1. CASE taskState[t] \in Unstarted
    <3>1. /\ taskState' = [taskState EXCEPT ![t] = TaskWaiting]
          /\ runs' = [runs EXCEPT ![t] = @ + 1] /\ discarding' = discarding
      BY <1>2, <2>1, States, Zenon DEF Submit, Mark
    <3>2. runs[t] = 0 /\ runs[t] \in Nat
      BY <2>1, States DEF RunInv, TypeOK, TaskTypeOK
    <3>3. Contract!Submit(t)
      BY SameStates, <2>1, <3>1, <3>2 DEF Contract!Submit
    <3> QED
      BY <3>3, Zenon
  <2>2. CASE ~(taskState[t] \in Unstarted)
    BY <1>2, <2>2, Zenon DEF Submit, Contract!vars
  <2> QED
    BY <2>1, <2>2, Zenon
<1>3. ASSUME NEW e \in Evaluator, NEW t \in Task, Wake(e, t)
      PROVE Contract!Next \/ UNCHANGED Contract!vars
  <2>1. runs' = runs /\ discarding' = discarding /\ Bookkeep(e, t)
    BY <1>3, Zenon DEF Wake
  <2>2. CASE taskState[t] = TaskLost
    <3>1. \/ taskState' = taskState
          \/ taskState' = [taskState EXCEPT ![t] = TaskErr]
          \/ taskState' = [taskState EXCEPT ![t] = @]
      BY <2>1, Zenon DEF Bookkeep
    <3>2. taskState = [taskState EXCEPT ![t] = @]
      BY Zenon DEF TypeOK, TaskTypeOK
    <3>3. CASE taskState' = [taskState EXCEPT ![t] = TaskErr]
      <4>1. Contract!GiveUp(t)
        BY SameStates, <2>1, <2>2, <3>3, Zenon DEF Contract!GiveUp
      <4> QED
        BY <4>1, Zenon
    <3>4. CASE taskState' = taskState
      BY <2>1, <3>4, Zenon DEF Contract!vars
    <3> QED
      BY <3>1, <3>2, <3>3, <3>4, Zenon
  <2>3. CASE taskState[t] # TaskLost
    <3>1. 0 < MaxConsecutiveLost /\ MaxConsecutiveLost \in Nat
      BY BoundAssumption
    <3>2. taskState' = taskState
      BY <2>1, <2>3, <3>1 DEF Bookkeep, TypeOK, TaskTypeOK
    <3> QED
      BY <2>1, <3>2, Zenon DEF Contract!vars
  <2> QED
    BY <2>2, <2>3, Zenon
<1>4. ASSUME NEW t \in Task, RunStart(t) PROVE Contract!Next
  <2>1. runs[t] = 1
    BY <1>4 DEF RunStart, RunInv, TypeOK, TaskTypeOK
  <2>2. Contract!RunStart(t)
    BY SameStates, <1>4, <2>1, Zenon DEF RunStart, Contract!RunStart
  <2> QED
    BY <2>2, Zenon
<1>5. ASSUME NEW t \in Task, NEW s \in {TaskOk, TaskErr, TaskLost}, RunEnd(t, s)
      PROVE Contract!Next
  <2>1. runs[t] = 1 /\ t \notin discarding /\ runs' = [runs EXCEPT ![t] = 0]
    <3>1. /\ runs[t] > 0 /\ runs[t] \in Nat /\ runs[t] <= 1 /\ t \notin discarding
          /\ runs' = [runs EXCEPT ![t] = runs[t] - 1]
      BY <1>5, Zenon DEF RunEnd, MayEnd, RunInv, TypeOK, TaskTypeOK
    <3>2. runs[t] = 1 /\ runs[t] - 1 = 0
      BY <3>1
    <3> QED
      BY <3>1, <3>2, Zenon
  <2>2. Contract!RunEnd(t, s)
    BY SameStates, <1>5, <2>1, Zenon DEF RunEnd, MayEnd, Contract!RunEnd
  <2> QED
    BY SameStates, <2>2, Zenon
<1>6. ASSUME NEW t \in Task, DiscardEnd(t) PROVE Contract!Next
  <2>1. Contract!DiscardEnd(t)
    BY SameStates, <1>6, Zenon DEF DiscardEnd, Contract!DiscardEnd
  <2> QED
    BY <2>1, Zenon
<1>7. ASSUME NEW t \in Task, Lose(t) \/ DiscardStart(t) PROVE Contract!Next
  <2>1. Contract!Lose(t) \/ Contract!DiscardStart(t)
    BY SameStates, <1>7, Zenon DEF Lose, DiscardStart, Contract!Lose, Contract!DiscardStart
  <2> QED
    BY <2>1, Zenon
<1>8. ASSUME UNCHANGED taskVars PROVE UNCHANGED Contract!vars
  BY <1>8, Zenon DEF taskVars, Contract!vars
<1> HIDE DEF Contract!Next
<1> QED
  BY <1>1, <1>2, <1>3, <1>4, <1>5, <1>6, <1>7, <1>8, TaskSteps, Zenon DEF Execute

\* Any number of evaluators that share tasks implement, with the executor, the
\* contract on task states: the detailed specification refines the abstract one.
THEOREM EvalFollowsContract == Spec => FollowsContract
<1>1. Init => RunInv /\ Contract!Init
  BY SameStates DEF Init, RunInv, Contract!Init
<1>2. TypeOK /\ RunInv /\ [Next]_vars => RunInv'
  BY RunInvStep, Zenon
<1>3. TypeOK /\ RunInv /\ [Next]_vars => [Contract!Next]_(Contract!vars)
  BY ContractStep, Zenon
<1> QED
  BY <1>1, <1>2, <1>3, TypeCorrect, PTL DEF Spec, FollowsContract, Contract!Spec

\* An error is final, and what was TaskOk during an evaluation stays recorded.
LEMMA HistoryStep ==
    ASSUME TypeOK, RunInv, SatisfiedInv, [Next]_vars
    PROVE  /\ \A t \in Task : taskState[t] = TaskErr => taskState'[t] = TaskErr
           /\ \A e \in Evaluator : wasOk[e] \subseteq wasOk'[e]
<1> DEFINE P == /\ \A t \in Task : taskState[t] = TaskErr => taskState'[t] = TaskErr
                /\ \A e \in Evaluator : wasOk[e] \subseteq wasOk'[e]
<1> USE States DEF TypeOK, TaskTypeOK
<1>1. ASSUME NEW e \in Evaluator, Start(e) PROVE P
  BY <1>1, Zenon DEF Start, SatisfiedInv, SeenInv
<1>3. ASSUME UNCHANGED taskVars PROVE P
  BY <1>3, Zenon DEF taskVars
<1>4. ASSUME NEW e \in Evaluator, NEW t \in Task, Submit(e, t) PROVE P
  BY <1>4, ZenonT(30) DEF Submit, Mark
<1>5. ASSUME NEW e \in Evaluator, NEW t \in Task, Wake(e, t) PROVE P
  BY <1>5 DEF Wake, Bookkeep
<1>6. ASSUME NEW t \in Task, RunStart(t) PROVE P
  BY <1>6, Zenon DEF RunStart, InProgress
<1>7. ASSUME NEW t \in Task, NEW s \in {TaskOk, TaskErr, TaskLost}, RunEnd(t, s)
      PROVE P
  BY <1>7, Zenon DEF RunEnd, MayEnd
<1>8. ASSUME NEW t \in Task, DiscardEnd(t) PROVE P
  BY <1>8, Zenon DEF DiscardEnd, RunInv, InProgress
<1>9. ASSUME NEW t \in Task, Lose(t) \/ DiscardStart(t) PROVE P
  BY <1>9 DEF Lose, DiscardStart
<1> HIDE DEF P
<1>10. P
  BY <1>1, <1>3, <1>4, <1>5, <1>6, <1>7, <1>8, <1>9, TaskSteps, Zenon DEF Execute
<1> QED
  BY <1>10, Zenon DEF P

\* A phase Enqueue enters has been read to the end when the round is over.
LEMMA DepsRead ==
    ASSUME NEW e \in Evaluator, NEW t \in Task, NEW u \in Task, TypeOK,
           Demanded(e) = {}, view[e][t] \in Unstarted, Head[u] \in Deps[t]
    PROVE  view[e][u] \in TaskStates
<1>1. Head[u] \in Entered(e)
  BY Zenon DEF Entered
<1>2. Head[Head[u]] = Head[u] /\ Head[u] \in Task
  BY GraphAssumption, Zenon
<1>3. view[e][u] # Unread
  BY <1>1, <1>2, Zenon DEF Demanded
<1> QED
  BY <1>3, Zenon DEF TypeOK, WaitTypeOK

\* A step that neither schedules, nor reads, nor makes a task TaskOk unseen.
LEMMA SeenKept ==
    ASSUME NEW e \in Evaluator, TypeOK, SeenInv(e),
           \A t \in Task : taskState[t] = TaskErr => taskState'[t] = TaskErr,
           \A t \in Task : Satisfied(t) => Satisfied(t)',
           wasOk[e] \subseteq wasOk'[e],
           pc'[e] = pc[e] \/ (pc[e] = "submit" /\ pc'[e] = "loop"),
           view'[e] = view[e], todo'[e] = todo[e], pending'[e] = pending[e],
           pc[e] = "idle" => wasOk'[e] = wasOk[e],
           \A t \in Task : taskState'[t] = TaskOk =>
                               taskState[t] = TaskOk \/ (Active(e) => t \in wasOk'[e])
    PROVE  SeenInv(e)'
<1>1. todo[e] \subseteq Task /\ pending[e] \subseteq Task
  BY Zenon DEF TypeOK, LoopTypeOK
<1>2. \A t \in todo'[e] \cup pending'[e] : Satisfied(t)'
  BY <1>1, Zenon DEF SeenInv
<1>3. \A t \in Task : /\ view'[e][t] \in InProgress => Satisfied(t)'
                      /\ view'[e][t] = TaskOk => t \in wasOk'[e]
                      /\ view'[e][t] = TaskErr => taskState'[t] = TaskErr
  BY Zenon DEF SeenInv
<1>4. Active(e)' => Active(e)
  BY Zenon DEF Active
<1>5. Active(e)' => \A t \in Task : taskState'[t] = TaskOk => t \in wasOk'[e]
  BY <1>4, Zenon DEF SeenInv
<1>6. /\ pc'[e] = "idle" => wasOk'[e] = {}
      /\ pc'[e] # "enqueue" => view'[e] = NoView
  BY Zenon DEF SeenInv
<1> QED
  BY <1>2, <1>3, <1>5, <1>6, Zenon DEF SeenInv

\* What the loop of one evaluator leaves alone in another one.
LEMMA OtherEvaluator ==
    ASSUME NEW e \in Evaluator, NEW f \in Evaluator, f # e, TypeOK, Start(f) \/ Evaluate(f)
    PROVE  /\ pc'[e] = pc[e] /\ view'[e] = view[e]
           /\ todo'[e] = todo[e] /\ pending'[e] = pending[e] /\ wasOk'[e] = wasOk[e]
<1> DEFINE P == /\ pc'[e] = pc[e] /\ view'[e] = view[e]
                /\ todo'[e] = todo[e] /\ pending'[e] = pending[e] /\ wasOk'[e] = wasOk[e]
<1>0. LoopTypeOK /\ WaitTypeOK /\ TaskTypeOK
  BY Zenon DEF TypeOK
<1> USE <1>0 DEF LoopTypeOK
<1>1. ASSUME Start(f) PROVE P
  BY <1>1, Zenon DEF Start, TaskTypeOK
<1>2. ASSUME NEW t \in Task, Read(f, t) PROVE P
  BY <1>2, Zenon DEF Read, WaitTypeOK, taskVars
<1>3. ASSUME EnqueueDone(f) PROVE P
  BY <1>3, Zenon DEF EnqueueDone, WaitTypeOK, taskVars
<1>4. ASSUME Finish(f) \/ ReceiveErr(f) PROVE P
  BY <1>4, Zenon DEF Finish, ReceiveErr, Return, waitVars, taskVars
<1>5. ASSUME NEW t \in Task, ReceiveDone(f, t) PROVE P
  <2>0. pending'[e] = pending[e] /\ UNCHANGED <<view, wasOk>>
    BY <1>5, Zenon DEF ReceiveDone, taskVars
  <2>1. pc'[e] = pc[e] /\ todo'[e] = todo[e]
    BY <1>5, Zenon DEF ReceiveDone, ReturnUnsettled, ReturnErr, ReturnOk, ReturnLost
  <2> QED
    BY <2>0, <2>1, Zenon
<1>6. ASSUME Runnable(f) PROVE P
  BY <1>6, Zenon DEF Runnable, waitVars, taskVars
<1>7. ASSUME NEW t \in Task, Submit(f, t) PROVE P
  BY <1>7, Zenon DEF Submit, waitVars
<1> HIDE DEF P
<1>8. P
  BY <1>1, <1>2, <1>3, <1>4, <1>5, <1>6, <1>7, Zenon DEF Evaluate
<1> QED
  BY <1>8, Zenon DEF P

LEMMA SeenStep ==
    ASSUME NEW e \in Evaluator, TypeOK, OnePlace, SatisfiedInv, [Next]_vars,
           \A t \in Task : taskState[t] = TaskErr => taskState'[t] = TaskErr,
           \A t \in Task : Satisfied(t) => Satisfied(t)',
           wasOk[e] \subseteq wasOk'[e]
    PROVE  SeenInv(e)'
<1>0. SeenInv(e)
  BY Zenon DEF SatisfiedInv
<1>a. todo[e] \subseteq Task /\ pending[e] \subseteq Task
  BY Zenon DEF TypeOK, LoopTypeOK
<1>1. ASSUME Start(e) PROVE SeenInv(e)'
  <2>1. /\ view'[e] = [t \in Task |-> Unread] /\ pc'[e] = "enqueue"
        /\ UNCHANGED <<taskState, todo, pending>>
        /\ \A t \in Task : taskState[t] = TaskOk => t \in wasOk'[e]
    BY <1>0, <1>1, Zenon DEF Start, SeenInv, NoView, TypeOK, LoopTypeOK, TaskTypeOK
  <2>2. \A t \in Task : view'[e][t] \notin InProgress \cup {TaskOk, TaskErr}
    BY <2>1, States, Zenon
  <2>3. \A t \in todo'[e] \cup pending'[e] : Satisfied(t)'
    BY <1>0, <1>a, <2>1, Zenon DEF SeenInv
  <2> QED
    BY <2>1, <2>2, <2>3, Zenon DEF SeenInv, Active
<1>2. ASSUME NEW t \in Task, Read(e, t) PROVE SeenInv(e)'
  <2>1. /\ pc[e] = "enqueue"
        /\ \A u \in Task : view'[e][u] = IF u = t THEN taskState[t] ELSE view[e][u]
        /\ UNCHANGED <<taskState, wasOk, pc, todo, pending>>
    BY <1>2, Zenon DEF Read, TypeOK, WaitTypeOK, taskVars
  <2>2. taskState[t] # TaskInit => Satisfied(t)
    BY Zenon DEF SatisfiedInv
  <2>3. TaskInit \notin InProgress
    BY DEF TaskInit, InProgress, TaskWaiting, TaskRunning
  <2>4. taskState[t] = TaskOk => t \in wasOk[e]
    BY <1>0, <2>1, Zenon DEF SeenInv, Active
  <2>5. \A u \in todo'[e] \cup pending'[e] : Satisfied(u)'
    BY <1>0, <1>a, <2>1, Zenon DEF SeenInv
  <2>6. \A u \in Task : /\ view'[e][u] \in InProgress => Satisfied(u)'
                        /\ view'[e][u] = TaskOk => u \in wasOk'[e]
                        /\ view'[e][u] = TaskErr => taskState'[u] = TaskErr
    BY <1>0, <2>1, <2>2, <2>3, <2>4, Zenon DEF SeenInv
  <2> QED
    BY <1>0, <2>1, <2>5, <2>6, Zenon DEF SeenInv, Active
<1>3. ASSUME EnqueueDone(e) PROVE SeenInv(e)'
  <2>1. ASSUME NEW t \in Rebuilt(e), Waits(e, t) = {} PROVE Satisfied(t)
    <3> SUFFICES ASSUME NEW u \in Task, Head[u] \in Deps[t]
                 PROVE taskState[u] = TaskErr \/ \E f \in Evaluator : u \in wasOk[f]
      BY Zenon DEF Satisfied
    <3>1. view[e][u] \in TaskStates
      BY <1>3, DepsRead, Zenon DEF EnqueueDone, Rebuilt
    <3>2. view[e][u] \in {TaskOk, TaskErr}
      BY <2>1, <3>1, States, Zenon DEF Waits
    <3> QED
      BY <1>0, <3>2, Zenon DEF SeenInv
  <2>2. todo'[e] \subseteq todo[e] \cup {t \in Rebuilt(e) : Waits(e, t) = {}}
                                   \cup {t \in Task : view[e][t] \in InProgress}
    BY <1>3, Zenon DEF EnqueueDone, Schedule, TypeOK, LoopTypeOK
  <2>3. \A t \in todo'[e] : t \in Task /\ Satisfied(t)
    BY <1>0, <1>a, <2>1, <2>2, Zenon DEF SeenInv, Rebuilt
  <2>4. /\ UNCHANGED <<taskState, wasOk, pending>>
        /\ pc[e] = "enqueue" /\ pc'[e] = "loop" /\ view'[e] = [t \in Task |-> Unread]
    BY <1>3, Zenon DEF EnqueueDone, TypeOK, LoopTypeOK, WaitTypeOK, taskVars, NoView
  <2>5. \A t \in todo'[e] \cup pending'[e] : Satisfied(t)'
    BY <1>0, <1>a, <2>3, <2>4, Zenon DEF SeenInv
  <2>6. \A t \in Task : view'[e][t] \notin InProgress \cup {TaskOk, TaskErr}
    BY <2>4, States, Zenon
  <2> QED
    BY <1>0, <2>4, <2>5, <2>6, Zenon DEF SeenInv, Active, NoView
<1>4. ASSUME Finish(e) \/ ReceiveErr(e) PROVE SeenInv(e)'
  <2>1. /\ pc[e] = "loop" /\ pc'[e] = "returned"
        /\ UNCHANGED <<taskState, wasOk, view, todo, pending>>
    BY <1>4, Zenon DEF Finish, ReceiveErr, Return, TypeOK, LoopTypeOK, taskVars, waitVars
  <2> QED
    BY <1>0, <1>a, <2>1, Zenon DEF SeenInv, Active
<1>5. ASSUME NEW t \in Task, ReceiveDone(e, t) PROVE SeenInv(e)'
  <2>1. /\ pc[e] = "loop" /\ t \in donec[e] /\ pending'[e] \subseteq pending[e]
        /\ UNCHANGED <<taskState, wasOk, view>>
    BY <1>5, Zenon DEF ReceiveDone, taskVars, TypeOK, LoopTypeOK
  <2>2. /\ todo'[e] \subseteq todo[e] \cup {t}
        /\ pc'[e] \in {"loop", "enqueue"}
    BY <1>5, <2>1, Zenon
       DEF ReceiveDone, ReturnUnsettled, ReturnErr, ReturnOk, ReturnLost, TypeOK,
       LoopTypeOK
  <2>3. t \in pending[e]
    BY <2>1, Zenon DEF OnePlace, ReturnNeverPanics
  <2>4. \A u \in todo'[e] \cup pending'[e] : Satisfied(u)'
    BY <1>0, <1>a, <2>1, <2>2, <2>3, Zenon DEF SeenInv
  <2> QED
    BY <1>0, <2>1, <2>2, <2>4, Zenon DEF SeenInv, Active
<1>6. ASSUME Runnable(e) PROVE SeenInv(e)'
  <2>1. /\ pc[e] = "loop" /\ pc'[e] = "submit"
        /\ todo'[e] = {} /\ pending'[e] = pending[e] \cup todo[e]
        /\ UNCHANGED <<taskState, wasOk, view>>
    BY <1>6, Zenon DEF Runnable, TypeOK, LoopTypeOK, taskVars, waitVars
  <2> QED
    BY <1>0, <1>a, <2>1, Zenon DEF SeenInv, Active
<1>7. ASSUME NEW f \in Evaluator, NEW t \in Task, Submit(f, t) PROVE SeenInv(e)'
  <2>1. \A u \in Task : taskState'[u] = TaskOk => taskState[u] = TaskOk
    BY <1>7 DEF Submit, Mark, TypeOK, TaskTypeOK, TaskOk, TaskWaiting
  <2>2. /\ pc'[e] = pc[e] \/ (pc[e] = "submit" /\ pc'[e] = "loop")
        /\ UNCHANGED <<view, todo, pending, wasOk>>
    BY <1>7, Zenon DEF Submit, TypeOK, LoopTypeOK, waitVars
  <2> QED
    BY <1>0, <2>1, <2>2, SeenKept, Zenon
<1>8. ASSUME NEW f \in Evaluator, f # e, Start(f) \/ Evaluate(f), UNCHANGED taskState
      PROVE SeenInv(e)'
  BY <1>0, <1>8, OtherEvaluator, SeenKept, Zenon
<1>9. ASSUME NEW f \in Evaluator, NEW t \in Task, Wake(f, t) PROVE SeenInv(e)'
  <2>1. \A u \in Task : taskState'[u] = TaskOk => taskState[u] = TaskOk
    BY <1>9 DEF Wake, Bookkeep, TypeOK, TaskTypeOK, TaskErr, TaskOk
  <2>2. UNCHANGED <<pc, view, todo, pending, wasOk>>
    BY <1>9, Zenon DEF Wake, waitVars
  <2> QED
    BY <1>0, <2>1, <2>2, SeenKept, Zenon
<1>10. ASSUME NEW t \in Task, Execute(t) \/ Lose(t) \/ DiscardStart(t) PROVE SeenInv(e)'
  <2>1. UNCHANGED <<pc, view, todo, pending>>
    BY <1>10, ExecutorSteps, Zenon DEF waitVars, loopVars
  <2>2. /\ pc[e] = "idle" => wasOk'[e] = wasOk[e]
        /\ \A u \in Task : taskState'[u] = TaskOk =>
                               taskState[u] = TaskOk \/ (Active(e) => u \in wasOk'[e])
    <3>1. ASSUME NEW s \in {TaskOk, TaskErr, TaskLost}, RunEnd(t, s)
          PROVE /\ pc[e] = "idle" => wasOk'[e] = wasOk[e]
                /\ \A u \in Task : taskState'[u] = TaskOk =>
                                       taskState[u] = TaskOk \/ (Active(e) => u \in wasOk'[e])
      BY <3>1, Zenon DEF RunEnd, Active, TypeOK, TaskTypeOK, TaskErr, TaskOk, TaskLost
    <3>2. CASE RunStart(t) \/ DiscardEnd(t) \/ Lose(t) \/ DiscardStart(t)
      BY <3>2 DEF RunStart, DiscardEnd, Lose, DiscardStart, TypeOK, TaskTypeOK, TaskOk,
         TaskRunning, TaskLost
    <3> QED
      BY <1>10, <3>1, <3>2, Zenon DEF Execute
  <2> QED
    BY <1>0, <2>1, <2>2, SeenKept, Zenon
<1>11. ASSUME UNCHANGED <<taskVars, waitVars, pc, todo, pending>> PROVE SeenInv(e)'
  BY <1>0, <1>11, SeenKept, Zenon DEF taskVars, waitVars
<1>12. ASSUME NEW f \in Evaluator, Start(f) \/ Evaluate(f) PROVE SeenInv(e)'
  <2>1. CASE f = e
    BY <1>1, <1>2, <1>3, <1>4, <1>5, <1>6, <1>7, <1>12, <2>1, Zenon DEF Evaluate
  <2>2. CASE f # e
    <3>1. UNCHANGED taskState \/ \E t \in Task : Submit(f, t)
      BY <1>12, Zenon DEF Start, Evaluate, Read, EnqueueDone, Finish, ReceiveErr, ReceiveDone,
         Runnable, taskVars
    <3> QED
      BY <1>7, <1>8, <1>12, <2>2, <3>1, Zenon
  <2> QED
    BY <2>1, <2>2, Zenon
<1>13. ASSUME NEW f \in Evaluator, Cancel(f) PROVE SeenInv(e)'
  BY <1>11, <1>13, Zenon DEF Cancel
<1>14. ASSUME UNCHANGED vars PROVE SeenInv(e)'
  BY <1>11, <1>14, Zenon DEF vars
<1> QED
  BY <1>9, <1>10, <1>12, <1>13, <1>14, Zenon DEF Next, Terminated

LEMMA SatisfiedInvStep ==
    ASSUME TypeOK, OnePlace, RunInv, SatisfiedInv, [Next]_vars
    PROVE  SatisfiedInv'
<1>1. /\ \A t \in Task : taskState[t] = TaskErr => taskState'[t] = TaskErr
      /\ \A e \in Evaluator : wasOk[e] \subseteq wasOk'[e]
  BY HistoryStep, Zenon
<1>2. \A t \in Task : Satisfied(t) => Satisfied(t)'
  BY <1>1, Zenon DEF Satisfied
<1>3. \A t \in Task : taskState'[t] # TaskInit => Satisfied(t)'
  <2> DEFINE P == \A u \in Task : taskState'[u] # TaskInit => Satisfied(u)'
  <2>0. /\ taskState \in [Task -> TaskStates]
        /\ \A u \in Task : taskState[u] # TaskInit => Satisfied(u)
    BY Zenon DEF TypeOK, TaskTypeOK, SatisfiedInv
  <2>a. ASSUME NEW t \in Task, Satisfied(t),
               \A u \in Task : u # t => taskState'[u] = taskState[u]
        PROVE P
    BY <1>2, <2>0, <2>a, Zenon
  <2>1. ASSUME NEW e \in Evaluator, NEW t \in Task, Submit(e, t) PROVE P
    <3>1. t \in pending[e]
      BY <2>1, Zenon DEF Submit, OnePlace, ReturnNeverPanics
    <3>2. Satisfied(t)
      BY <3>1, Zenon DEF SatisfiedInv, SeenInv
    <3>3. \A u \in Task : u # t => taskState'[u] = taskState[u]
      BY <2>0, <2>1, Zenon DEF Submit, Mark
    <3> QED
      BY <2>a, <3>2, <3>3, Zenon
  <2>2. ASSUME NEW e \in Evaluator, NEW t \in Task, Wake(e, t) PROVE P
    <3>1. \A u \in Task : taskState'[u] # taskState[u] => taskState[u] \in {TaskOk, TaskLost}
      BY <2>0, <2>2, Zenon DEF Wake, Bookkeep
    <3> QED
      BY <1>2, <2>0, <3>1 DEF TaskInit, TaskOk, TaskLost
  <2>3. ASSUME NEW t \in Task, Execute(t) PROVE P
    <3>1. runs[t] > 0 \/ t \in discarding
      BY <2>3, Zenon DEF Execute, RunStart, RunEnd, MayEnd, DiscardEnd
    <3>2. taskState[t] # TaskInit
      BY <3>1 DEF RunInv, InProgress, TaskInit, TaskWaiting, TaskRunning
    <3>3. \A u \in Task : u # t => taskState'[u] = taskState[u]
      BY <2>0, <2>3, Zenon DEF Execute, RunStart, RunEnd, DiscardEnd
    <3> QED
      BY <2>0, <2>a, <3>2, <3>3, Zenon
  <2>4. ASSUME NEW t \in Task, Lose(t) \/ DiscardStart(t) PROVE P
    <3>1. taskState[t] = TaskOk /\ \A u \in Task : u # t => taskState'[u] = taskState[u]
      BY <2>0, <2>4, Zenon DEF Lose, DiscardStart
    <3> QED
      BY <2>0, <2>a, <3>1 DEF TaskOk, TaskInit
  <2>5. ASSUME UNCHANGED taskState PROVE P
    BY <1>2, <2>0, <2>5, Zenon
  <2>6. ASSUME NEW e \in Evaluator, Start(e) PROVE P
    BY <2>5, <2>6, Zenon DEF Start
  <2>7. ASSUME UNCHANGED taskVars PROVE P
    BY <2>5, <2>7, Zenon DEF taskVars
  <2> HIDE DEF P
  <2>8. P
    BY <2>1, <2>2, <2>3, <2>4, <2>6, <2>7, TaskSteps, Zenon
  <2> QED
    BY <2>8, Zenon DEF P
<1>4. \A e \in Evaluator : SeenInv(e)'
  BY <1>1, <1>2, SeenStep, Zenon
<1> QED
  BY <1>3, <1>4, Zenon DEF SatisfiedInv

\* No task is handed to the executor before its dependencies have run (or
\* failed for good), however many evaluations share them.
THEOREM Dispatch == Spec => []DispatchedAfterDeps
<1> DEFINE Inv == OnePlace /\ RunInv /\ SatisfiedInv
<1>1. Init => Inv
  BY States DEF Init, OnePlace, ReturnNeverPanics, RunInv, SatisfiedInv, SeenInv, Active,
     NoView
<1>2. TypeOK /\ Inv /\ [Next]_vars => Inv'
  BY OnePlaceStep, RunInvStep, SatisfiedInvStep, Zenon
<1>3. Inv => DispatchedAfterDeps
  BY DEF SatisfiedInv, DispatchedAfterDeps, TaskWaiting, TaskInit
<1> QED
  BY <1>1, <1>2, <1>3, TypeCorrect, PTL DEF Spec
=============================================================================
