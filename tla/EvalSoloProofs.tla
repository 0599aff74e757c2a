---------------------------- MODULE EvalSoloProofs ----------------------------
(***************************************************************************)
(* What Eval promises when it has the tasks for itself (one evaluator):    *)
(* proofs for every task graph, every history of losses and discards, and  *)
(* every interleaving with the executor.  With a second evaluator on the   *)
(* same tasks neither theorem holds; see NilMeansEvaluated in Eval.        *)
(***************************************************************************)
EXTENDS EvalProofs

-----------------------------------------------------------------------------
(* The counting argument behind the waitlists: a task on a waitlist waits  *)
(* for at most as many tasks as are still outstanding among the ones its   *)
(* row of the dependency map names, so its count cannot get stuck above    *)
(* zero.                                                                   *)

LEMMA OutstandingFinite ==
    ASSUME NEW e \in Evaluator, TypeOK
    PROVE  IsFiniteSet(Outstanding(e)) /\ Outstanding(e) \subseteq Task
<1>1. Outstanding(e) \subseteq Task
  BY Zenon DEF TypeOK, LoopTypeOK, WaitTypeOK, Outstanding
<1> QED
  BY <1>1, GraphAssumption, FS_Subset, Zenon

\* A waitlist still drains when more tasks are outstanding.
LEMMA DrainsKept ==
    ASSUME NEW e \in Evaluator, TypeOK', Drains(e), ~failed[e],
           Outstanding(e) \subseteq Outstanding(e)',
           deps'[e] = deps[e], counts'[e] = counts[e]
    PROVE  Drains(e)'
<1> SUFFICES ASSUME NEW d \in Task, counts[e][d] > 0
             PROVE counts[e][d] <= Cardinality({u \in Outstanding(e)' : <<Head[u], d>> \in deps[e]})
  BY Zenon DEF Drains
<1> DEFINE S == {u \in Outstanding(e) : <<Head[u], d>> \in deps[e]}
           T == {u \in Outstanding(e)' : <<Head[u], d>> \in deps[e]}
<1>1. counts[e][d] <= Cardinality(S)
  BY Zenon DEF Drains
<1>2. IsFiniteSet(Outstanding(e)')
  <2>1. Outstanding(e)' \subseteq Task
    BY Zenon DEF TypeOK, LoopTypeOK, WaitTypeOK, Outstanding
  <2> QED
    BY <2>1, GraphAssumption, FS_Subset, Zenon
<1>3. IsFiniteSet(T) /\ S \subseteq T
  BY <1>2, FS_Subset, Zenon
<1>4. IsFiniteSet(S) /\ Cardinality(S) <= Cardinality(T)
  BY <1>3, FS_Subset, Zenon
<1>5. Cardinality(S) \in Nat /\ Cardinality(T) \in Nat
  BY <1>3, <1>4, FS_CardinalityType, Zenon
<1>6. counts[e][d] \in Int
  BY Zenon DEF TypeOK, WaitTypeOK
<1> QED
  BY <1>1, <1>4, <1>5, <1>6

\* What an EnqueueDone leaves outstanding: all that was, and all that a task
\* with a rebuilt waitlist waits for.
LEMMA EnqueueOutstanding ==
    ASSUME NEW e \in Evaluator, TypeOK, Views(e), Live(e), EnqueueDone(e)
    PROVE  /\ Outstanding(e) \subseteq Outstanding(e)'
           /\ \A u \in Task : view[e][u] \in Unstarted \cup InProgress => u \in Outstanding(e)'
<1> USE DEF TypeOK, LoopTypeOK, WaitTypeOK
<1>1. ASSUME NEW u \in Task, view[e][u] \in InProgress PROVE u \in Outstanding(e)'
  BY <1>1, Zenon DEF EnqueueDone, Count, Schedule, Outstanding
<1>2. ASSUME NEW u \in Task, view[e][u] \in Unstarted PROVE u \in Outstanding(e)'
  <2>1. u \in Rebuilt(e)
    BY <1>2, Zenon DEF Rebuilt
  <2>2. CASE Waits(e, u) = {}
    BY <2>1, <2>2, Zenon DEF EnqueueDone, Count, Schedule, Outstanding
  <2>3. CASE Waits(e, u) # {}
    <3>1. Cardinality(Waits(e, u)) > 0
      BY <2>3, WaitsFinite, FS_EmptySet
    <3>2. counts'[e][u] = Cardinality(Waits(e, u))
      BY <2>1, Zenon DEF EnqueueDone, Count
    <3> QED
      BY <3>1, <3>2, Zenon DEF Outstanding
  <2> QED
    BY <2>2, <2>3, Zenon
<1>3. ASSUME NEW u \in want[e] PROVE u \in Outstanding(e)'
  <2>1. view[e][u] # Unread
    BY GraphAssumption, Zenon DEF EnqueueDone, Demanded, Entered
  <2>2. view[e][u] \in Unstarted \/ u \in pending[e]
    BY <2>1, Zenon DEF Views
  <2>3. CASE u \in pending[e]
    BY <2>3, Zenon DEF EnqueueDone, Count, Schedule, Outstanding
  <2> QED
    BY <1>2, <2>2, <2>3, Zenon
<1>4. ASSUME NEW u \in Task, counts[e][u] > 0 PROVE u \in Outstanding(e)'
  <2>1. CASE u \in Rebuilt(e)
    BY <1>2, <2>1, Zenon DEF Rebuilt
  <2>2. CASE u \notin Rebuilt(e)
    BY <1>4, <2>2, Zenon DEF EnqueueDone, Count, Schedule, Outstanding
  <2> QED
    BY <2>1, <2>2, Zenon
<1>5. ASSUME NEW u \in todo[e] \cup pending[e] PROVE u \in Outstanding(e)'
  BY Zenon DEF EnqueueDone, Count, Schedule, Outstanding
<1> QED
  BY <1>1, <1>2, <1>3, <1>4, <1>5, Zenon DEF Outstanding

LEMMA EnqueueDrains ==
    ASSUME NEW e \in Evaluator, TypeOK, TypeOK', Views(e), Live(e), Drains(e), EnqueueDone(e)
    PROVE  Drains(e)'
<1> SUFFICES ASSUME NEW d \in Task, counts'[e][d] > 0
             PROVE counts'[e][d] <= Cardinality({u \in Outstanding(e)' : <<Head[u], d>> \in deps'[e]})
  BY Zenon DEF Drains
<1> DEFINE T == {u \in Outstanding(e)' : <<Head[u], d>> \in deps'[e]}
<1>1. IsFiniteSet(T) /\ Cardinality(T) \in Nat
  <2>1. T \subseteq Task
    BY Zenon DEF TypeOK, LoopTypeOK, WaitTypeOK, Outstanding
  <2> QED
    BY <2>1, GraphAssumption, FS_Subset, FS_CardinalityType, Zenon
<1>2. ASSUME NEW S, S \subseteq T, counts'[e][d] <= Cardinality(S)
      PROVE  counts'[e][d] <= Cardinality(T)
  <2>1. IsFiniteSet(S) /\ Cardinality(S) <= Cardinality(T)
    BY <1>1, <1>2, FS_Subset, Zenon
  <2>2. Cardinality(S) \in Nat
    BY <2>1, FS_CardinalityType, Zenon
  <2>3. counts'[e][d] \in Int
    BY DEF TypeOK, WaitTypeOK
  <2> QED
    BY <1>1, <1>2, <2>1, <2>2, <2>3
<1>3. CASE d \in Rebuilt(e)
  <2>1. counts'[e][d] = Cardinality(Waits(e, d))
    BY <1>3, Zenon DEF EnqueueDone, Count, Schedule, TypeOK, WaitTypeOK
  <2>2. Waits(e, d) \subseteq T
    <3> SUFFICES ASSUME NEW u \in Waits(e, d) PROVE u \in T
      BY Zenon
    <3>1. u \in Task /\ u \in Outstanding(e)'
      BY EnqueueOutstanding, Zenon DEF Waits
    <3>2. Head[u] \in Task
      BY <3>1, GraphAssumption, Zenon
    <3>3. <<Head[u], d>> \in deps'[e]
      BY <1>3, <3>2, Zenon DEF EnqueueDone, Count, Schedule, TypeOK, WaitTypeOK
    <3> QED
      BY <3>1, <3>3, Zenon
  <2>3. Cardinality(Waits(e, d)) \in Nat
    BY WaitsFinite, Zenon
  <2> QED
    BY <1>2, <2>1, <2>2, <2>3
<1>4. CASE d \notin Rebuilt(e)
  <2> DEFINE S == {u \in Outstanding(e) : <<Head[u], d>> \in deps[e]}
  <2>1. counts'[e][d] = counts[e][d]
    BY <1>4, Zenon DEF EnqueueDone, Count, Schedule, TypeOK, WaitTypeOK
  <2>2. counts[e][d] <= Cardinality(S)
    BY <2>1, Zenon DEF Drains, Live
  <2>3. S \subseteq T
    <3> SUFFICES ASSUME NEW u \in S PROVE u \in T
      BY Zenon
    <3>1. u \in Outstanding(e)'
      BY EnqueueOutstanding, Zenon
    <3>2. <<Head[u], d>> \in deps'[e]
      BY <1>4, Zenon DEF EnqueueDone, Count, Schedule, TypeOK, WaitTypeOK
    <3> QED
      BY <3>1, <3>2, Zenon
  <2> QED
    BY <1>2, <2>1, <2>2, <2>3, Zenon
<1> QED
  BY <1>3, <1>4, Zenon

\* A return takes one task off the outstanding ones, and one off the count of
\* every task that waited for it.
LEMMA ReturnOkDrains ==
    ASSUME NEW e \in Evaluator, NEW t \in Task, TypeOK, TypeOK', Rounds(e), Drains(e), Live(e),
           ReceiveDone(e, t), ReturnOk(e, t), t \in pending[e]
    PROVE  /\ Outstanding(e) \ {t} \subseteq Outstanding(e)'
           /\ Drains(e)'
<1>1. /\ \A d \in Task : counts'[e][d] = IF d \in Dependents(e, t)
                                         THEN counts[e][d] - 1 ELSE counts[e][d]
      /\ want'[e] = {d \in Dependents(e, t) : counts[e][d] = 1}
      /\ deps' = deps /\ todo' = todo /\ pending'[e] = pending[e] \ {t}
  BY DEF ReturnOk, ReceiveDone, TypeOK, WaitTypeOK, LoopTypeOK
<1>2. counts[e] \in [Task -> Int] /\ counts'[e] \in [Task -> Int]
  BY Zenon DEF TypeOK, WaitTypeOK
<1>3. Outstanding(e) \ {t} \subseteq Outstanding(e)'
  <2> SUFFICES ASSUME NEW u \in Outstanding(e), u # t PROVE u \in Outstanding(e)'
    BY Zenon
  <2>1. want[e] = {}
    BY Zenon DEF Rounds, ReceiveDone
  <2>2. CASE u \in todo[e] \cup pending[e]
    BY <1>1, <2>2, Zenon DEF Outstanding
  <2>3. ASSUME u \in Task, counts[e][u] > 0 PROVE u \in Outstanding(e)'
    BY <1>1, <1>2, <2>3 DEF Outstanding
  <2> QED
    BY <2>1, <2>2, <2>3, Zenon DEF Outstanding
<1>4. ASSUME NEW d \in Task, counts'[e][d] > 0
      PROVE counts'[e][d] <= Cardinality({u \in Outstanding(e)' : <<Head[u], d>> \in deps'[e]})
  <2> DEFINE S == {u \in Outstanding(e) : <<Head[u], d>> \in deps[e]}
             T == {u \in Outstanding(e)' : <<Head[u], d>> \in deps'[e]}
  <2>1. IsFiniteSet(T) /\ Cardinality(T) \in Nat
    <3>1. T \subseteq Task
      BY Zenon DEF TypeOK, LoopTypeOK, WaitTypeOK, Outstanding
    <3> QED
      BY <3>1, GraphAssumption, FS_Subset, FS_CardinalityType, Zenon
  <2>2. IsFiniteSet(S) /\ Cardinality(S) \in Nat
    BY OutstandingFinite, FS_Subset, FS_CardinalityType, Zenon
  <2>3. S \ {t} \subseteq T
    BY <1>1, <1>3, Zenon
  <2>4. counts[e][d] <= Cardinality(S)
    BY <1>1, <1>2, <1>4 DEF Drains, Live
  <2>5. CASE d \in Dependents(e, t)
    <3>1. t \in S
      BY <2>5, Zenon DEF Dependents, Outstanding
    <3>2. Cardinality(S \ {t}) = Cardinality(S) - 1
      BY <2>2, <3>1, FS_RemoveElement, Zenon
    <3>3. Cardinality(S \ {t}) <= Cardinality(T)
      BY <2>1, <2>3, FS_Subset, Zenon
    <3>4. counts'[e][d] = counts[e][d] - 1
      BY <1>1, <2>5, Zenon
    <3> QED
      BY <1>2, <2>1, <2>2, <2>4, <3>2, <3>3, <3>4
  <2>6. CASE d \notin Dependents(e, t)
    <3>1. t \notin S
      BY <2>6, Zenon DEF Dependents
    <3>2. Cardinality(S) <= Cardinality(T)
      BY <2>1, <2>3, <3>1, FS_Subset, Zenon
    <3>3. counts'[e][d] = counts[e][d]
      BY <1>1, <2>6, Zenon
    <3> QED
      BY <1>2, <2>1, <2>2, <2>4, <3>2, <3>3
  <2> QED
    BY <2>5, <2>6, Zenon
<1>5. Drains(e)'
  BY <1>4, Zenon DEF Drains
<1> QED
  BY <1>3, <1>5, Zenon

\* When nothing is scheduled or pending no waitlist is left, because the graph
\* has no cycles: a waiting task would wait for another waiting one, for ever.
LEMMA NothingWaits ==
    ASSUME NEW e \in Evaluator, TypeOK, Rounds(e), Drains(e), ~failed[e],
           pc[e] = "loop", todo[e] = {}, pending[e] = {}
    PROVE  Outstanding(e) = {}
<1>1. Outstanding(e) = {d \in Task : counts[e][d] > 0}
  BY Zenon DEF Outstanding, Rounds
<1> SUFFICES ASSUME Outstanding(e) # {} PROVE FALSE
  BY Zenon
<1>2. PICK d \in Outstanding(e) : \A u \in Outstanding(e) : Head[u] \notin Deps[d]
  BY <1>1, AcyclicAssumption, Zenon
<1> DEFINE S == {u \in Outstanding(e) : <<Head[u], d>> \in deps[e]}
<1>3. S = {}
  BY <1>2, Zenon DEF Rounds
<1>4. d \in Task /\ counts[e][d] > 0
  BY <1>1, Zenon
<1>5. counts[e][d] <= Cardinality(S)
  BY <1>4, Zenon DEF Drains
<1>6. Cardinality(S) = 0
  BY <1>3, FS_EmptySet, Zenon
<1>7. counts[e][d] \in Int
  BY <1>4 DEF TypeOK, WaitTypeOK
<1> HIDE DEF S
<1> QED
  BY <1>4, <1>5, <1>6, <1>7

\* What the four outcomes of a received task have in common: the evaluator's
\* own state, and then what happens to the task.
LEMMA Received ==
    ASSUME NEW e \in Evaluator, NEW t \in Task, TypeOK, ReceiveDone(e, t)
    PROVE  /\ pc[e] = "loop" /\ todo[e] = {} /\ t \in donec[e] /\ ~failed[e]
           /\ donec'[e] \subseteq donec[e] /\ pending'[e] = pending[e] \ {t}
           /\ UNCHANGED <<taskState, wasOk, watched, ret, deps, view, batch>>
BY Zenon DEF ReceiveDone, Done, TypeOK, GoTypeOK, LoopTypeOK, taskVars

LEMMA Outcomes ==
    ASSUME NEW e \in Evaluator, NEW t \in Task, TypeOK, ReceiveDone(e, t)
    PROVE  /\ taskState[t] = TaskErr => failed'[e]
           /\ pc'[e] \in {"loop", "enqueue"}
           /\ todo'[e] # {} => /\ todo'[e] = {t}
                               /\ pc'[e] = "loop"
                               /\ taskState[t] < TaskOk
           /\ pc'[e] = "loop" => want'[e] = want[e]
           /\ pc'[e] = "enqueue" =>
                \A u \in want'[e] : \/ u = t /\ taskState[t] = TaskLost
                                    \/ u \in Task /\ counts[e][u] = 1
           /\ \A u \in Task : counts'[e][u] = counts[e][u] \/ counts'[e][u] = counts[e][u] - 1
<1> DEFINE P == /\ taskState[t] = TaskErr => failed'[e]
                /\ pc'[e] \in {"loop", "enqueue"}
                /\ todo'[e] # {} => /\ todo'[e] = {t}
                                    /\ pc'[e] = "loop"
                                    /\ taskState[t] < TaskOk
                /\ pc'[e] = "loop" => want'[e] = want[e]
                /\ pc'[e] = "enqueue" =>
                     \A u \in want'[e] : \/ u = t /\ taskState[t] = TaskLost
                                         \/ u \in Task /\ counts[e][u] = 1
                /\ \A u \in Task :
                     counts'[e][u] = counts[e][u] \/ counts'[e][u] = counts[e][u] - 1
<1>0. pc[e] = "loop" /\ todo[e] = {}
  BY Received, Zenon
<1>1. ASSUME ReturnUnsettled(e, t) PROVE P
  BY <1>0, <1>1 DEF ReturnUnsettled, TypeOK, LoopTypeOK, TaskOk, TaskErr
<1>2. ASSUME ReturnErr(e, t) PROVE P
  BY <1>0, <1>2, Zenon DEF ReturnErr, TypeOK, LoopTypeOK
<1>3. ASSUME ReturnOk(e, t) PROVE P
  BY <1>0, <1>3 DEF ReturnOk, Dependents, TypeOK, LoopTypeOK, WaitTypeOK, TaskOk, TaskErr
<1>4. ASSUME ReturnLost(e, t) PROVE P
  BY <1>0, <1>4 DEF ReturnLost, TypeOK, LoopTypeOK, WaitTypeOK, TaskLost, TaskErr
<1> HIDE DEF P
<1>5. P
  BY <1>1, <1>2, <1>3, <1>4, Zenon DEF ReceiveDone
<1> QED
  BY <1>5, Zenon DEF P

LEMMA ReceivedRounds ==
    ASSUME NEW e \in Evaluator, NEW t \in Task, TypeOK, Rounds(e), Settled(e),
           ReceiveDone(e, t)
    PROVE  Quiet(e)' /\ Rounds(e)' /\ Settled(e)'
<1>1. Quiet(e)'
  BY Outcomes, Zenon DEF Quiet
<1>2. Rounds(e)'
  BY Received, Outcomes DEF Rounds
<1>3. Settled(e)'
  BY Received, Zenon DEF Settled
<1> QED
  BY <1>1, <1>2, <1>3, Zenon

\* Only the received task can stop being parked, and it was not on a waitlist.
LEMMA ReceivedParked ==
    ASSUME NEW e \in Evaluator, NEW t \in Task, TypeOK, Waitlist(e), ReceiveDone(e, t),
           ~failed'[e], NEW u \in Task, counts[e][u] > 0
    PROVE  Parked(e, u)'
<1>1. Live(e)
  BY Received, Zenon DEF Live, Active
<1>2. Parked(e, u)
  BY <1>1, Zenon DEF Waitlist
<1>3. u = t => taskState[u] # TaskErr
  BY Outcomes, ZenonT(30)
<1> QED
  BY <1>2, <1>3, Received DEF Parked

LEMMA ReceivedWaitlist ==
    ASSUME NEW e \in Evaluator, NEW t \in Task, TypeOK, TypeOK', OnePlace, Rounds(e),
           Waitlist(e), ReceiveDone(e, t)
    PROVE  Waitlist(e)'
<1> SUFFICES ASSUME ~failed'[e], NEW u \in Task
             PROVE  /\ counts'[e][u] > 0 => Parked(e, u)'
                    /\ u \in todo'[e] \cup batch'[e] => counts'[e][u] <= 0
  BY Zenon DEF Waitlist, Live
<1>0. counts[e][u] \in Int /\ counts'[e][u] \in Int
  BY DEF TypeOK, WaitTypeOK
<1>1. counts'[e][u] > 0 => counts[e][u] > 0
  BY <1>0, Outcomes
<1>2. counts'[e][u] > 0 => Parked(e, u)'
  BY <1>1, ReceivedParked, Zenon
<1>3. batch'[e] = {}
  BY Received, Zenon DEF OnePlace
<1>4. ASSUME u \in todo'[e] PROVE counts'[e][u] <= 0
  <2>1. u = t /\ taskState'[u] < TaskOk /\ taskState'[u] # TaskInit
    BY <1>4, Received, Outcomes DEF Rounds
  <2>2. ~Parked(e, u)'
    BY <2>1 DEF Parked, Unstarted, TaskInit, TaskLost, TaskErr, TaskOk
  <2> QED
    BY <1>0, <1>2, <2>2
<1> QED
  BY <1>2, <1>3, <1>4, Zenon

LEMMA ReceivedViews ==
    ASSUME NEW e \in Evaluator, NEW t \in Task, TypeOK, SeenInv(e), Rounds(e), Waitlist(e),
           ReceiveDone(e, t)
    PROVE  Views(e)'
<1>1. \A u \in Task : view'[e][u] = Unread
  BY Received DEF SeenInv, NoView
<1>2. ASSUME ~failed'[e], NEW u \in want'[e] PROVE Parked(e, u)'
  <2>1. want[e] = {} /\ taskState' = taskState
    BY Received, Zenon DEF Rounds
  <2>2. \/ u = t /\ taskState'[t] = TaskLost
        \/ u \in Task /\ counts[e][u] = 1
    BY <2>1, Outcomes
  <2>3. TaskLost \in Unstarted
    BY Zenon DEF Unstarted
  <2> QED
    BY <1>2, <2>2, <2>3, ReceivedParked DEF Parked
<1> QED
  BY <1>1, <1>2, States, Zenon DEF Views, Live

LEMMA ReceivedDrains ==
    ASSUME NEW e \in Evaluator, NEW t \in Task, TypeOK, TypeOK', OnePlace, SeenInv(e),
           Rounds(e), RootsKept(e), Drains(e), ReceiveDone(e, t)
    PROVE  RootsKept(e)' /\ Drains(e)'
<1>0. Live(e) /\ t \in pending[e]
  BY Received, Zenon DEF Live, Active, OnePlace, ReturnNeverPanics
<1>1. wasOk' = wasOk /\ Roots[e] \subseteq wasOk[e] \cup Outstanding(e)
  BY <1>0, Received, Zenon DEF RootsKept
<1>2. ASSUME ReturnOk(e, t) PROVE RootsKept(e)' /\ Drains(e)'
  <2>1. t \in wasOk[e]
    BY <1>0, <1>2, Zenon DEF SeenInv, Live, ReturnOk
  <2>2. Outstanding(e) \ {t} \subseteq Outstanding(e)' /\ Drains(e)'
    BY <1>0, <1>2, ReturnOkDrains, Zenon
  <2> QED
    BY <1>1, <2>1, <2>2, Zenon DEF RootsKept
<1>3. ASSUME ReturnErr(e, t) PROVE RootsKept(e)' /\ Drains(e)'
  BY <1>3, Zenon DEF ReturnErr, TypeOK, LoopTypeOK, RootsKept, Drains, Live
<1>4. ASSUME Outstanding(e) \subseteq Outstanding(e)', counts' = counts
      PROVE RootsKept(e)' /\ Drains(e)'
  <2>1. Drains(e)'
    BY <1>4, Received, DrainsKept, Zenon
  <2> QED
    BY <1>1, <1>4, <2>1, Zenon DEF RootsKept
<1>5. pending'[e] = pending[e] \ {t} /\ todo[e] = {} /\ want[e] = {}
  BY Received, Zenon DEF Rounds
<1>6. ASSUME ReturnUnsettled(e, t) PROVE RootsKept(e)' /\ Drains(e)'
  <2>1. todo'[e] = {t} /\ counts' = counts /\ want' = want
    BY <1>5, <1>6, Zenon DEF ReturnUnsettled, TypeOK, LoopTypeOK
  <2>2. Outstanding(e) \subseteq Outstanding(e)'
    BY <1>5, <2>1, Zenon DEF Outstanding
  <2> QED
    BY <1>4, <2>1, <2>2, Zenon
<1>7. ASSUME ReturnLost(e, t) PROVE RootsKept(e)' /\ Drains(e)'
  <2>1. want'[e] = {t} /\ counts' = counts /\ todo' = todo
    BY <1>7, Zenon DEF ReturnLost, TypeOK, WaitTypeOK
  <2>2. Outstanding(e) \subseteq Outstanding(e)'
    BY <1>5, <2>1, Zenon DEF Outstanding
  <2> QED
    BY <1>4, <2>1, <2>2, Zenon
<1> QED
  BY <1>2, <1>3, <1>6, <1>7, Zenon DEF ReceiveDone

LEMMA SoloReceiveStep ==
    ASSUME NEW e \in Evaluator, NEW t \in Task, TypeOK, TypeOK', OnePlace, SeenInv(e),
           SoloInv(e), ReceiveDone(e, t)
    PROVE  SoloInv(e)'
<1>1. Rounds(e) /\ Waitlist(e) /\ RootsKept(e) /\ Drains(e) /\ Settled(e)
  BY Zenon DEF SoloInv
<1>2. Quiet(e)' /\ Rounds(e)' /\ Settled(e)'
  BY <1>1, ReceivedRounds, Zenon
<1>3. Waitlist(e)' /\ Views(e)'
  BY <1>1, ReceivedWaitlist, ReceivedViews, Zenon
<1>4. RootsKept(e)' /\ Drains(e)'
  BY <1>1, ReceivedDrains, Zenon
<1> QED
  BY <1>2, <1>3, <1>4, Zenon DEF SoloInv

LEMMA EnqueueFrame ==
    ASSUME NEW e \in Evaluator, TypeOK, EnqueueDone(e)
    PROVE  /\ pc[e] = "enqueue" /\ pc'[e] = "loop" /\ want'[e] = {} /\ view'[e] = NoView
           /\ UNCHANGED <<taskState, wasOk, goVars, ret, pending, failed, batch>>
           /\ Live(e)' <=> Live(e)
           /\ \A u \in Task : Parked(e, u)' <=> Parked(e, u)
<1>1. pc[e] = "enqueue" /\ UNCHANGED <<taskState, wasOk, goVars, ret, pending, failed, batch>>
  BY Zenon DEF EnqueueDone, taskVars
<1>2. pc'[e] = "loop" /\ want'[e] = {} /\ view'[e] = NoView
  BY Zenon DEF EnqueueDone, TypeOK, LoopTypeOK, WaitTypeOK
<1>3. /\ Live(e)' <=> Live(e)
      /\ \A u \in Task : Parked(e, u)' <=> Parked(e, u)
  BY <1>1, <1>2, Zenon DEF Live, Active, Parked
<1> QED
  BY <1>1, <1>2, <1>3, Zenon

LEMMA EnqueueWaitlist ==
    ASSUME NEW e \in Evaluator, TypeOK, OnePlace, Rounds(e), Waitlist(e), Views(e),
           EnqueueDone(e)
    PROVE  Waitlist(e)'
<1> SUFFICES ASSUME Live(e), NEW u \in Task
             PROVE /\ counts'[e][u] > 0 => Parked(e, u)
                   /\ u \in todo'[e] \cup batch[e] => counts'[e][u] <= 0
  BY EnqueueFrame, Zenon DEF Waitlist
<1>1. counts'[e][u] = IF u \in Rebuilt(e) THEN Cardinality(Waits(e, u)) ELSE counts[e][u]
  BY Zenon DEF EnqueueDone, Count, TypeOK, WaitTypeOK
<1>2. u \in Rebuilt(e) => Parked(e, u)
  BY Zenon DEF Rebuilt, Views
<1>3. counts'[e][u] > 0 => Parked(e, u)
  BY <1>1, <1>2, Zenon DEF Waitlist
<1>4. ASSUME u \in todo'[e] PROVE counts'[e][u] <= 0
  <2>0. todo[e] = {}
    BY EnqueueFrame, Zenon DEF Rounds
  <2>1. \/ u \in Rebuilt(e) /\ Waits(e, u) = {}
        \/ view[e][u] \in InProgress
    BY <1>4, <2>0, Zenon DEF EnqueueDone, Schedule, TypeOK, LoopTypeOK
  <2>2. view[e][u] \in InProgress => u \notin Rebuilt(e) /\ counts[e][u] <= 0
    BY States, Zenon DEF Views, Rebuilt
  <2> QED
    BY <1>1, <2>1, <2>2, FS_EmptySet
<1>5. u \notin batch[e]
  BY EnqueueFrame, Zenon DEF OnePlace
<1> QED
  BY <1>3, <1>4, <1>5, Zenon

LEMMA EnqueueRounds ==
    ASSUME NEW e \in Evaluator, TypeOK, Rounds(e), Settled(e), EnqueueDone(e)
    PROVE  Quiet(e)' /\ Rounds(e)' /\ Settled(e)'
<1>1. \A d \in deps'[e] : d[1] \in Deps[d[2]]
  BY Zenon DEF EnqueueDone, Count, Rounds, Waits, TypeOK, WaitTypeOK
<1>2. Rounds(e)'
  BY <1>1, EnqueueFrame, Zenon DEF Rounds, goVars
<1> QED
  BY <1>2, EnqueueFrame, Zenon DEF Quiet, Settled

LEMMA SoloEnqueueStep ==
    ASSUME NEW e \in Evaluator, TypeOK, TypeOK', OnePlace, SoloInv(e), EnqueueDone(e)
    PROVE  SoloInv(e)'
<1>0. Quiet(e)' /\ Rounds(e)' /\ Settled(e)'
  BY EnqueueRounds, Zenon DEF SoloInv
<1>1. Waitlist(e)'
  BY EnqueueWaitlist, Zenon DEF SoloInv
<1>2. Views(e)'
  BY EnqueueFrame, States DEF Views, NoView
<1>3. RootsKept(e)'
  BY EnqueueFrame, EnqueueOutstanding, Zenon DEF SoloInv, RootsKept
<1>4. Drains(e)'
  BY EnqueueFrame, EnqueueDrains, Zenon DEF SoloInv, Drains, Live, Active
<1> QED
  BY <1>0, <1>1, <1>2, <1>3, <1>4, Zenon DEF SoloInv

LEMMA SoloReturnStep ==
    ASSUME NEW e \in Evaluator, TypeOK, Quiet(e), Rounds(e), Waitlist(e), Views(e), RootsKept(e), Drains(e), Settled(e),
           Finish(e) \/ ReceiveErr(e)
    PROVE  SoloInv(e)'
<1>1. /\ pc[e] = "loop" /\ pc'[e] = "returned"
      /\ UNCHANGED <<taskState, wasOk, waitVars, goVars, todo, pending, failed, batch>>
  BY Zenon DEF Finish, ReceiveErr, Return, TypeOK, LoopTypeOK, taskVars
<1>2. Quiet(e)' /\ Rounds(e)'
  BY <1>1, Zenon DEF Quiet, Rounds, waitVars, goVars
<1>3. Waitlist(e)' /\ Views(e)' /\ RootsKept(e)'
  BY <1>1, Zenon DEF Waitlist, Views, RootsKept, Live, Active
<1>4. Drains(e)'
  BY <1>1, Zenon DEF Drains, Outstanding, waitVars
<1>5. ASSUME ret'[e] = "nil" PROVE Roots[e] \subseteq wasOk[e]
  <2>1. todo[e] = {} /\ pending[e] = {} /\ ~failed[e]
    BY <1>5, Zenon DEF Finish, ReceiveErr, Return, Done, TypeOK, LoopTypeOK
  <2>2. Outstanding(e) = {}
    BY <1>1, <2>1, NothingWaits, Zenon
  <2> QED
    BY <1>1, <2>1, <2>2, Zenon DEF RootsKept, Live, Active
<1>6. Settled(e)'
  BY <1>1, <1>5, Zenon DEF Settled
<1> QED
  BY <1>2, <1>3, <1>4, <1>6, Zenon DEF SoloInv

-----------------------------------------------------------------------------
(* The steps that do not change a waitlist.                                *)

\* A step of the executor, of a waiting goroutine or of the caller leaves the
\* evaluator's maps alone, and leaves parked tasks parked.
LEMMA SoloOtherStep ==
    ASSUME NEW e \in Evaluator, SoloInv(e), TypeOK',
           UNCHANGED <<waitVars, pc, ret, todo, pending, failed, batch>>,
           wasOk[e] \subseteq wasOk'[e],
           \A t \in Task : Parked(e, t) => Parked(e, t)',
           Quiet(e)',
           \A t \in watched'[e] \cup donec'[e] : taskState'[t] # TaskInit
    PROVE  SoloInv(e)'
<1>1. Rounds(e)'
  BY Zenon DEF SoloInv, Rounds, waitVars
<1>2. Outstanding(e)' = Outstanding(e)
  BY Zenon DEF Outstanding, waitVars
<1>3. Live(e)' <=> Live(e)
  BY Zenon DEF Live, Active
<1>4. Waitlist(e)'
  BY <1>3, Zenon DEF SoloInv, Waitlist, waitVars
<1>5. Views(e)'
  BY <1>3, Zenon DEF SoloInv, Views, waitVars
<1>6. RootsKept(e)' /\ Settled(e)'
  BY <1>2, <1>3, Zenon DEF SoloInv, RootsKept, Settled
<1>7. Drains(e)'
  BY <1>2, Zenon DEF SoloInv, Drains, waitVars
<1> QED
  BY <1>1, <1>4, <1>5, <1>6, <1>7, Zenon DEF SoloInv

LEMMA SoloExecuteStep ==
    ASSUME NEW e \in Evaluator, NEW t \in Task, TypeOK, TypeOK', RunInv, SoloInv(e),
           wasOk[e] \subseteq wasOk'[e],
           Execute(t) \/ Lose(t) \/ DiscardStart(t)
    PROVE  SoloInv(e)'
<1>1. UNCHANGED evalVars
  BY Zenon DEF Execute, RunStart, RunEnd, MayEnd, DiscardEnd, Lose, DiscardStart
<1>2. /\ taskState[t] \in InProgress \cup {TaskOk}
      /\ taskState'[t] # TaskInit
      /\ \A u \in Task : u # t => taskState'[u] = taskState[u]
  BY States DEF Execute, RunStart, RunEnd, MayEnd, DiscardEnd, Lose, DiscardStart, RunInv,
     TypeOK, TaskTypeOK, InProgress, TaskInit, TaskOk, TaskErr, TaskLost, TaskRunning
<1>3. \A u \in Task : Parked(e, u) => Parked(e, u)'
  BY <1>1, <1>2, States, Zenon DEF Parked, evalVars
<1>4. Quiet(e)'
  BY <1>1, <1>2, States, Zenon DEF Quiet, SoloInv, evalVars, waitVars, goVars, Unstarted
<1>5. \A u \in watched'[e] \cup donec'[e] : taskState'[u] # TaskInit
  BY <1>1, <1>2, Zenon DEF SoloInv, Rounds, evalVars, goVars, TypeOK, GoTypeOK
<1>6. UNCHANGED <<waitVars, pc, ret, todo, pending, failed, batch>>
  BY <1>1, Zenon DEF evalVars
<1> QED
  BY <1>3, <1>4, <1>5, <1>6, SoloOtherStep, Zenon

LEMMA SoloWakeStep ==
    ASSUME NEW e \in Evaluator, NEW t \in Task, TypeOK, TypeOK', OnePlace, SoloInv(e), Wake(e, t)
    PROVE  SoloInv(e)'
<1>1. /\ UNCHANGED <<wasOk, waitVars, pc, ret, todo, pending, failed, batch>>
      /\ watched'[e] \cup donec'[e] \subseteq watched[e] \cup donec[e]
      /\ t \in watched[e] /\ t \in pending[e]
  BY DEF Wake, OnePlace, ReturnNeverPanics, TypeOK, GoTypeOK
<1>2. \A u \in Task : taskState'[u] # taskState[u] => u = t /\ taskState'[u] = TaskErr
  BY Zenon DEF Wake, Bookkeep, TypeOK, TaskTypeOK
<1>3. \A u \in Task : Parked(e, u) => Parked(e, u)'
  BY <1>1, <1>2, Zenon DEF Parked
<1>4. Quiet(e)'
  BY <1>1, Zenon DEF Quiet, SoloInv
<1>5. \A u \in watched'[e] \cup donec'[e] : taskState'[u] # TaskInit
  BY <1>1, <1>2 DEF SoloInv, Rounds, TypeOK, GoTypeOK, TaskInit, TaskErr
<1> QED
  BY <1>1, <1>3, <1>4, <1>5, SoloOtherStep, Zenon

LEMMA SoloStartStep ==
    ASSUME NEW e \in Evaluator, TypeOK, SeenInv(e), Quiet(e), Rounds(e), Start(e)
    PROVE  SoloInv(e)'
<1>1. /\ pc[e] = "idle" /\ pc'[e] = "enqueue" /\ want'[e] = Roots[e]
      /\ UNCHANGED <<taskState, deps, counts, goVars, view, ret, todo, batch>>
  BY Zenon DEF Start, TypeOK, LoopTypeOK, WaitTypeOK
<1>2. \A t \in Task : taskState[t] = TaskInit /\ counts[e][t] = 0
  BY <1>1, Zenon DEF Quiet
<1>3. \A t \in Task : Parked(e, t)' /\ view[e][t] = Unread
  BY <1>1, <1>2, Zenon DEF Parked, Unstarted, NoView, SeenInv
<1>4. Quiet(e)' /\ Rounds(e)'
  BY <1>1, Zenon DEF Quiet, Rounds, goVars
<1>5. Waitlist(e)'
  BY <1>1, <1>2, <1>3 DEF Waitlist
<1>6. Views(e)'
  BY <1>1, <1>3, States, Zenon DEF Views
<1>7. RootsKept(e)'
  BY <1>1, Zenon DEF RootsKept, Outstanding
<1>8. Drains(e)'
  BY <1>1, <1>2 DEF Drains
<1>9. Settled(e)'
  BY <1>1, Zenon DEF Quiet, Settled
<1> QED
  BY <1>4, <1>5, <1>6, <1>7, <1>8, <1>9, Zenon DEF SoloInv

LEMMA SoloReadStep ==
    ASSUME NEW e \in Evaluator, NEW t \in Task, TypeOK, Quiet(e), Rounds(e), Waitlist(e), Views(e), RootsKept(e), Drains(e), Settled(e),
           Read(e, t)
    PROVE  SoloInv(e)'
<1>1. /\ pc[e] = "enqueue"
      /\ \A u \in Task : view'[e][u] = IF u = t THEN taskState[t] ELSE view[e][u]
  BY Zenon DEF Read, TypeOK, WaitTypeOK
<1>a. UNCHANGED <<taskState, wasOk, deps, counts, want, goVars, pc, ret, todo, pending, failed,
                  batch>>
  BY Zenon DEF Read, taskVars
<1>2. Outstanding(e)' = Outstanding(e) /\ (Live(e)' <=> Live(e))
  BY <1>a, Zenon DEF Outstanding, Live, Active
<1>3. \A u \in Task : Parked(e, u)' <=> Parked(e, u)
  BY <1>a, Zenon DEF Parked
<1>4. Quiet(e)' /\ Rounds(e)'
  BY <1>a, Zenon DEF Quiet, Rounds, goVars
<1>5. Waitlist(e)'
  BY <1>a, <1>2, <1>3, Zenon DEF Waitlist
<1>6. Views(e)'
  <2> SUFFICES ASSUME Live(e), NEW u \in Task
               PROVE /\ view'[e][u] \in Unstarted => Parked(e, u)
                     /\ view'[e][u] \in InProgress => counts[e][u] <= 0
                     /\ u \in want[e] =>
                          /\ Parked(e, u)
                          /\ view'[e][u] \in Unstarted \cup {Unread} \/ u \in pending[e]
    BY <1>a, <1>2, <1>3, Zenon DEF Views
  <2>1. CASE u # t
    BY <1>1, <2>1, Zenon DEF Views
  <2>2. CASE u = t
    <3>1. view'[e][u] = taskState[u]
      BY <1>1, <2>2, Zenon
    <3>2. taskState[u] \in InProgress => ~Parked(e, u)
      BY States, Zenon DEF Parked
    <3>3. counts[e][u] \in Int
      BY Zenon DEF TypeOK, WaitTypeOK
    <3>4. view'[e][u] \in InProgress => counts[e][u] <= 0
      BY <3>1, <3>2, <3>3 DEF Waitlist
    <3>5. u \in want[e] => Parked(e, u)
      BY Zenon DEF Views
    <3> QED
      BY <3>1, <3>4, <3>5, Zenon DEF Parked
  <2> QED
    BY <2>1, <2>2, Zenon
<1>7. RootsKept(e)' /\ Settled(e)'
  BY <1>a, <1>2, Zenon DEF RootsKept, Settled
<1>8. Drains(e)'
  BY <1>a, <1>2, Zenon DEF Drains
<1> QED
  BY <1>4, <1>5, <1>6, <1>7, <1>8, Zenon DEF SoloInv

LEMMA SoloRunnableStep ==
    ASSUME NEW e \in Evaluator, TypeOK, OnePlace, Quiet(e), Rounds(e), Waitlist(e), Views(e), RootsKept(e), Drains(e), Settled(e),
           Runnable(e)
    PROVE  SoloInv(e)'
<1>1. /\ pc[e] = "loop" /\ pc'[e] = "submit" /\ todo'[e] = {} /\ batch'[e] = todo[e]
      /\ pending'[e] = pending[e] \cup todo[e]
      /\ UNCHANGED <<taskState, wasOk, waitVars, goVars, ret, failed>>
  BY Zenon DEF Runnable, TypeOK, LoopTypeOK, taskVars
<1>2. batch[e] = {} /\ want[e] = {}
  BY <1>1, Zenon DEF OnePlace, Rounds
<1>3. Outstanding(e)' = Outstanding(e)
  BY <1>1, <1>2, Zenon DEF Outstanding, waitVars
<1>4. /\ Live(e)' <=> Live(e)
      /\ \A u \in Task : Parked(e, u) => Parked(e, u)'
  BY <1>1, Zenon DEF Live, Active, Parked
<1>5. Quiet(e)' /\ Rounds(e)'
  BY <1>1, Zenon DEF Quiet, Rounds, waitVars, goVars
<1>6. Waitlist(e)'
  BY <1>1, <1>4, Zenon DEF Waitlist, waitVars
<1>7. Views(e)'
  BY <1>1, <1>2, <1>4, Zenon DEF Views, waitVars
<1>8. RootsKept(e)' /\ Settled(e)'
  BY <1>1, <1>3, <1>4, Zenon DEF RootsKept, Settled
<1>9. Drains(e)'
  BY <1>1, <1>3, Zenon DEF Drains, waitVars
<1> QED
  BY <1>5, <1>6, <1>7, <1>8, <1>9, Zenon DEF SoloInv

LEMMA SubmitFrame ==
    ASSUME NEW e \in Evaluator, NEW t \in Task, TypeOK, Submit(e, t)
    PROVE  /\ pc[e] = "submit" /\ pc'[e] \in {"loop", "submit"} /\ t \in batch[e]
           /\ batch'[e] \subseteq batch[e]
           /\ UNCHANGED <<wasOk, waitVars, ret, todo, pending, failed>>
           /\ Live(e)' <=> Live(e)
           /\ \A u \in Task : u # t => taskState'[u] = taskState[u]
           /\ taskState'[t] # TaskInit
           /\ watched'[e] \cup donec'[e] \subseteq {t} \cup watched[e] \cup donec[e]
<1>1. /\ pc[e] = "submit" /\ pc'[e] \in {"loop", "submit"} /\ t \in batch[e]
      /\ batch'[e] \subseteq batch[e]
      /\ UNCHANGED <<wasOk, waitVars, ret, todo, pending, failed>>
  BY Zenon DEF Submit, TypeOK, LoopTypeOK
<1>2. /\ \A u \in Task : u # t => taskState'[u] = taskState[u]
      /\ taskState'[t] # TaskInit
  BY States DEF Submit, Mark, TypeOK, TaskTypeOK, TaskInit, TaskWaiting, TaskRunning,
     TaskOk, TaskErr, InProgress
<1>3. watched'[e] \cup donec'[e] \subseteq {t} \cup watched[e] \cup donec[e]
  BY Zenon DEF Submit, TypeOK, GoTypeOK
<1>4. Live(e)' <=> Live(e)
  BY <1>1, Zenon DEF Live, Active
<1> QED
  BY <1>1, <1>2, <1>3, <1>4, Zenon

LEMMA SubmitWaitlist ==
    ASSUME NEW e \in Evaluator, NEW t \in Task, TypeOK, Waitlist(e), Submit(e, t)
    PROVE  Waitlist(e)'
<1> SUFFICES ASSUME Live(e), NEW u \in Task
             PROVE /\ counts[e][u] > 0 => Parked(e, u)'
                   /\ u \in todo[e] \cup batch'[e] => counts[e][u] <= 0
  BY SubmitFrame, Zenon DEF Waitlist, waitVars
<1>1. counts[e][u] \in Int
  BY Zenon DEF TypeOK, WaitTypeOK
<1>2. u \in todo[e] \cup batch[e] => counts[e][u] <= 0
  BY Zenon DEF Waitlist
<1>3. t \in batch[e] /\ batch'[e] \subseteq batch[e]
  BY SubmitFrame, Zenon
<1>4. counts[e][u] > 0 => u # t
  BY <1>1, <1>2, <1>3
<1>5. counts[e][u] > 0 => Parked(e, u)
  BY Zenon DEF Waitlist
<1>6. Parked(e, u) /\ u # t => Parked(e, u)'
  BY SubmitFrame, Zenon DEF Parked
<1> QED
  BY <1>2, <1>3, <1>4, <1>5, <1>6, Zenon

LEMMA SoloSubmitStep ==
    ASSUME NEW e \in Evaluator, NEW t \in Task, TypeOK, SeenInv(e), SoloInv(e), Submit(e, t)
    PROVE  SoloInv(e)'
<1>1. want[e] = {} /\ \A u \in Task : view[e][u] = Unread
  BY SubmitFrame, ZenonT(30) DEF SoloInv, Rounds, SeenInv, NoView
<1>2. Outstanding(e)' = Outstanding(e)
  BY SubmitFrame, Zenon DEF Outstanding, waitVars
<1>3. Quiet(e)' /\ Rounds(e)'
  BY SubmitFrame, Zenon DEF SoloInv, Quiet, Rounds, waitVars
<1>4. Waitlist(e)'
  BY SubmitWaitlist, Zenon DEF SoloInv
<1>5. Views(e)'
  BY <1>1, States, SubmitFrame DEF Views, waitVars
<1>6. RootsKept(e)' /\ Settled(e)'
  BY <1>2, SubmitFrame, Zenon DEF SoloInv, RootsKept, Settled
<1>7. Drains(e)'
  BY <1>2, SubmitFrame DEF SoloInv, Drains, waitVars
<1> QED
  BY <1>3, <1>4, <1>5, <1>6, <1>7, Zenon DEF SoloInv

LEMMA SoloCancelStep ==
    ASSUME NEW e \in Evaluator, TypeOK, TypeOK', SoloInv(e),
           UNCHANGED <<taskState, wasOk, waitVars, goVars, pc, ret, todo, pending, failed, batch>>
    PROVE  SoloInv(e)'
<1>1. \A t \in Task : Parked(e, t) => Parked(e, t)'
  BY Zenon DEF Parked
<1>2. Quiet(e)'
  BY Zenon DEF Quiet, SoloInv, waitVars, goVars
<1>3. \A t \in watched'[e] \cup donec'[e] : taskState'[t] # TaskInit
  BY Zenon DEF SoloInv, Rounds, goVars, TypeOK, GoTypeOK
<1> QED
  BY <1>1, <1>2, <1>3, SoloOtherStep, Zenon

-----------------------------------------------------------------------------
(* Every step.                                                             *)

LEMMA SoloStep ==
    ASSUME NEW e \in Evaluator, Evaluator = {e}, TypeOK, TypeOK', OnePlace, RunInv,
           SatisfiedInv, SoloInv(e), [Next]_vars
    PROVE  SoloInv(e)'
<1>0. SeenInv(e) /\ wasOk[e] \subseteq wasOk'[e]
  BY HistoryStep, Zenon DEF SatisfiedInv
<1>a. Quiet(e) /\ Rounds(e) /\ Waitlist(e) /\ Views(e) /\ RootsKept(e) /\ Drains(e) /\ Settled(e)
  BY Zenon DEF SoloInv
<1>1. ASSUME Start(e) PROVE SoloInv(e)'
  BY <1>0, <1>a, <1>1, SoloStartStep, Zenon
<1>2. ASSUME NEW t \in Task, Read(e, t) PROVE SoloInv(e)'
  BY <1>a, <1>2, SoloReadStep, Zenon
<1>3. ASSUME EnqueueDone(e) PROVE SoloInv(e)'
  BY <1>3, SoloEnqueueStep, Zenon
<1>4. ASSUME Finish(e) \/ ReceiveErr(e) PROVE SoloInv(e)'
  BY <1>a, <1>4, SoloReturnStep, Zenon
<1>5. ASSUME NEW t \in Task, ReceiveDone(e, t) PROVE SoloInv(e)'
  BY <1>0, <1>5, SoloReceiveStep, Zenon
<1>6. ASSUME Runnable(e) PROVE SoloInv(e)'
  BY <1>a, <1>6, SoloRunnableStep, Zenon
<1>7. ASSUME NEW t \in Task, Submit(e, t) PROVE SoloInv(e)'
  BY <1>0, <1>7, SoloSubmitStep, Zenon
<1>8. ASSUME NEW t \in Task, Wake(e, t) PROVE SoloInv(e)'
  BY <1>8, SoloWakeStep, Zenon
<1>9. ASSUME NEW t \in Task, Execute(t) \/ Lose(t) \/ DiscardStart(t) PROVE SoloInv(e)'
  BY <1>0, <1>9, SoloExecuteStep, Zenon
<1>10. ASSUME Cancel(e) \/ UNCHANGED vars PROVE SoloInv(e)'
  <2>1. UNCHANGED <<taskState, wasOk, waitVars, goVars, pc, ret, todo, pending, failed, batch>>
    BY <1>10, Zenon DEF Cancel, vars, taskVars
  <2> QED
    BY <2>1, SoloCancelStep, Zenon
<1>11. ASSUME Evaluate(e) PROVE SoloInv(e)'
  BY <1>2, <1>3, <1>4, <1>5, <1>6, <1>7, <1>11, Zenon DEF Evaluate
<1> QED
  BY <1>1, <1>8, <1>9, <1>10, <1>11, Zenon DEF Next, Terminated

LEMMA SoloInvariant ==
    ASSUME NEW e \in Evaluator, Evaluator = {e}
    PROVE  Spec => []SoloInv(e)
<1> DEFINE Inv == OnePlace /\ RunInv /\ SatisfiedInv /\ SoloInv(e)
<1>1. Init => Inv
  <2> SUFFICES ASSUME Init PROVE Inv
    BY Zenon
  <2>1. OnePlace /\ RunInv /\ SatisfiedInv
    BY States DEF Init, OnePlace, ReturnNeverPanics, RunInv, SatisfiedInv, SeenInv, Active,
       NoView
  <2>2. SoloInv(e)
    <3>1. Quiet(e) /\ Rounds(e) /\ Settled(e)
      BY Zenon DEF Init, Quiet, Rounds, Settled
    <3>2. Waitlist(e) /\ Views(e) /\ RootsKept(e)
      BY Zenon DEF Init, Waitlist, Views, RootsKept, Live, Active
    <3>3. Drains(e)
      BY DEF Init, Drains
    <3> QED
      BY <3>1, <3>2, <3>3, Zenon DEF SoloInv
  <2> QED
    BY <2>1, <2>2, Zenon
<1>2. TypeOK /\ TypeOK' /\ Inv /\ [Next]_vars => Inv'
  BY OnePlaceStep, RunInvStep, SatisfiedInvStep, SoloStep, Zenon
<1> QED
  BY <1>1, <1>2, TypeCorrect, PTL DEF Spec

\* When a single evaluation runs, Eval returns nil only after every root was
\* TaskOk during the call, whatever is lost or discarded meanwhile.
THEOREM NilMeansEvaluatedSolo ==
    ASSUME NEW e \in Evaluator, Evaluator = {e}
    PROVE  Spec => []NilMeansEvaluated
<1>1. SoloInv(e) => NilMeansEvaluated
  BY Zenon DEF SoloInv, Settled, NilMeansEvaluated
<1> QED
  BY <1>1, SoloInvariant, PTL

\* When a single evaluation runs, no task is left on a waitlist that cannot
\* drain.
THEOREM WaitlistDrainsSolo ==
    ASSUME NEW e \in Evaluator, Evaluator = {e}
    PROVE  Spec => []WaitlistDrains
<1>1. SoloInv(e) => WaitlistDrains
  BY Zenon DEF SoloInv, Drains, WaitlistDrains
<1> QED
  BY <1>1, SoloInvariant, PTL
=============================================================================
