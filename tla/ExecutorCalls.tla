--------------------------- MODULE ExecutorCalls ----------------------------
(***************************************************************************)
(* Two inductive invariants of module BigmachineExecutor, for every task   *)
(* graph, every number of machines and of calls of Run, and every value of *)
(* the bounds.  Typed adds to the types what a call knows of its task and  *)
(* machine, and that a task has a location.  Publication says that, until  *)
(* something is discarded, what the calls of Run publish (a task's state,  *)
(* its location and the list of its machine) is consistent.  Every step    *)
(* keeps Typed, and the steps of a call of Run keep Publication.           *)
(***************************************************************************)
EXTENDS BigmachineExecutor, TLAPS

-----------------------------------------------------------------------------
(* Types.                                                                  *)

\* A call of Run works on a task, and from its offer on has a machine.
CallsShaped ==
    \A c \in Call : /\ call[c].pc # "idle" => call[c].task \in Task
                    /\ call[c].pc = "idle" => call[c].task = NoTask
                    /\ call[c].pc \notin {"idle", "offer"} => call[c].on \in Machine

\* A task that has completed once has a location from then on, which is what
\* Discard relies on.
Located ==
    /\ \A t \in Task : taskState[t] = TaskOk => locations[t] \in Machine
    /\ \A c \in Call : call[c].pc \in {"located", "assign"} => locations[call[c].task] \in Machine
    /\ \A d \in discards : locations[d.task] \in Machine

Typed == TypeOK /\ CallsShaped /\ Located

-----------------------------------------------------------------------------
(* What a step of Run does to the calls.                                   *)

CallRecord == [task : Task \cup {NoTask}, pc : PCs, on : Machine \cup {NoMachine}, src : Places]

Others(c) == \A d \in Call : d # c => call'[d] = call[d]

LEMMA GotoEffect ==
    ASSUME call \in [Call -> CallRecord], NEW c \in Call, NEW pc \in PCs, Goto(c, pc)
    PROVE  /\ call' \in [Call -> CallRecord] /\ Others(c)
           /\ call'[c].pc = pc /\ call'[c].task = call[c].task /\ call'[c].on = call[c].on
BY Zenon DEF CallRecord, Others, Goto

LEMMA OfferEffect ==
    ASSUME call \in [Call -> CallRecord], NEW c \in Call, NEW m \in Machine, Offered(c, m)
    PROVE  /\ call' \in [Call -> CallRecord] /\ Others(c)
           /\ call'[c].pc = "compile" /\ call'[c].task = call[c].task /\ call'[c].on = m
BY ZenonT(30) DEF CallRecord, Others, Offered, PCs

LEMMA RequestEffect ==
    ASSUME call \in [Call -> CallRecord], NEW c \in Call,
           NEW d \in Task, NEW m \in Machine \cup {NoMachine},
           call' = [call EXCEPT ![c].src[d] = m]
    PROVE  /\ call' \in [Call -> CallRecord] /\ Others(c)
           /\ call'[c].pc = call[c].pc /\ call'[c].task = call[c].task
           /\ call'[c].on = call[c].on
<1>1. [call[c].src EXCEPT ![d] = m] \in Places
  BY Zenon DEF CallRecord, Places
<1> QED
  BY <1>1, ZenonT(30) DEF CallRecord, Others

LEMMA FreeRecord == /\ Free \in CallRecord /\ Free.task = NoTask /\ Free.pc = "idle"
                    /\ Free.on = NoMachine /\ Free.src = Nowhere
BY Zenon DEF Free, CallRecord, Places, PCs, Nowhere

LEMMA ReturnEffect ==
    ASSUME call \in [Call -> CallRecord], NEW c \in Call, call' = [call EXCEPT ![c] = Free]
    PROVE  /\ call' \in [Call -> CallRecord] /\ Others(c)
           /\ call'[c].pc = "idle" /\ call'[c].task = NoTask
BY FreeRecord, Zenon DEF Others

LEMMA SubmitEffect ==
    ASSUME call \in [Call -> CallRecord], NEW c \in Call, NEW t \in Task, Submit(c, t)
    PROVE  /\ call' \in [Call -> CallRecord] /\ Others(c)
           /\ call[c].pc = "idle" /\ call[c].task = NoTask
           /\ call'[c].pc = "offer" /\ call'[c].task = t
<1> DEFINE r == [Free EXCEPT !.task = t, !.pc = "offer"]
<1>1. call[c] = Free /\ call' = [call EXCEPT ![c] = r]
  BY Zenon DEF Submit
<1>2. r \in CallRecord /\ r.task = t /\ r.pc = "offer"
  BY Zenon DEF Free, CallRecord, PCs, Places, Nowhere
<1> HIDE DEF r
<1> QED
  BY <1>1, <1>2, FreeRecord, Zenon DEF Others

-----------------------------------------------------------------------------
(* The types are kept.                                                     *)

LEMMA TypedCalls ==
    ASSUME TypeOK
    PROVE  /\ call \in [Call -> CallRecord]
           /\ \A c \in Call : call[c].task \in Task \cup {NoTask} /\ call[c].pc \in PCs
                              /\ call[c].on \in Machine \cup {NoMachine}
BY Zenon DEF TypeOK, CallRecord

LEMMA StepTypes ==
    ASSUME TypeOK, call' \in [Call -> CallRecord], taskState' \in [Task -> TaskStates],
           locations' \in Places, assigned' \in [Machine -> Seq(Task)],
           held' \in [Machine -> SUBSET Task], discardVars' = discardVars,
           UNCHANGED <<lost, marking, alive, deaths>>
    PROVE  TypeOK'
BY Zenon DEF TypeOK, CallRecord, discardVars

LEMMA SetTypes ==
    ASSUME TypeOK, NEW t \in Task, NEW s \in TaskStates, Set(t, s)
    PROVE  /\ taskState' \in [Task -> TaskStates] /\ taskState'[t] = s
           /\ \A u \in Task : u # t => taskState'[u] = taskState[u]
BY Zenon DEF TypeOK, Set

LEMMA States ==
    /\ {TaskInit, TaskWaiting, TaskRunning, TaskOk, TaskErr, TaskLost} \subseteq TaskStates
    /\ TaskOk \notin {TaskInit, TaskWaiting, TaskRunning, TaskErr, TaskLost}
    /\ TaskWaiting \notin {TaskInit, TaskRunning, TaskErr, TaskLost}
    /\ TaskRunning \notin {TaskInit, TaskErr, TaskLost}
BY DEF TaskStates, TaskInit, TaskWaiting, TaskRunning, TaskOk, TaskErr, TaskLost

LEMMA TypedInit == Init => Typed
BY ExecutorAssumption
   DEF Init, Typed, TypeOK, CallsShaped, Located, Free, Nowhere, Places, PCs,
       TaskStates, TaskInit, TaskOk, TaskLost

LEMMA SubmitTyped ==
    ASSUME Typed, NEW c \in Call, NEW t \in Task, Submit(c, t)
    PROVE  Typed'
<1>1. TypeOK /\ call \in [Call -> CallRecord]
  BY TypedCalls, Zenon DEF Typed
<1>2. Set(t, TaskWaiting) /\ UNCHANGED <<discardVars, locations, machineVars, held>>
  BY Zenon DEF Submit, Set
<1>3. /\ taskState' \in [Task -> TaskStates] /\ taskState'[t] = TaskWaiting
      /\ \A u \in Task : u # t => taskState'[u] = taskState[u]
  BY <1>1, <1>2, States, SetTypes, Zenon
<1>4. /\ call' \in [Call -> CallRecord] /\ Others(c)
      /\ call'[c].pc = "offer" /\ call'[c].task = t
  BY <1>1, SubmitEffect, Zenon
<1>5. TypeOK'
  BY <1>1, <1>2, <1>3, <1>4, StepTypes, Zenon DEF TypeOK, machineVars
<1>6. CallsShaped'
  BY <1>4, Zenon DEF Typed, CallsShaped, Others
<1>7. Located'
  BY <1>2, <1>3, <1>4, States, Zenon DEF Typed, Located, Others, discardVars
<1> QED
  BY <1>5, <1>6, <1>7, Zenon DEF Typed

\* A call of Run that returns with an error, whatever the worker stored.
LEMMA FailTyped ==
    ASSUME Typed, NEW c \in Call, call[c].pc # "idle", NEW s \in {TaskErr, TaskLost}, Fail(c, s),
           UNCHANGED <<discardVars, locations, machineVars>>, held' \in [Machine -> SUBSET Task]
    PROVE  Typed'
<1>1. /\ TypeOK /\ call \in [Call -> CallRecord] /\ call[c].task \in Task
  BY TypedCalls, Zenon DEF Typed, CallsShaped
<1>2. /\ taskState' \in [Task -> TaskStates] /\ taskState'[call[c].task] = s
      /\ \A u \in Task : u # call[c].task => taskState'[u] = taskState[u]
  BY <1>1, States, SetTypes DEF Fail
<1>3. /\ call' \in [Call -> CallRecord] /\ Others(c)
      /\ call'[c].pc = "idle" /\ call'[c].task = NoTask
  BY <1>1, ReturnEffect, Zenon DEF Fail
<1>4. TypeOK'
  BY <1>1, <1>2, <1>3, StepTypes, Zenon DEF TypeOK, machineVars
<1>5. CallsShaped'
  BY <1>3, Zenon DEF Typed, CallsShaped, Others
<1>6. Located'
  BY <1>2, <1>3, States, Zenon DEF Typed, Located, Others, discardVars
<1> QED
  BY <1>4, <1>5, <1>6, Zenon DEF Typed

\* A call of Run that goes on and leaves the states, the locations and the
\* lists alone.
LEMMA MoveTyped ==
    ASSUME Typed, NEW c \in Call, call[c].pc # "idle", call' \in [Call -> CallRecord], Others(c),
           call'[c].task = call[c].task, call'[c].on \in Machine,
           call'[c].pc \in {"compile", "locate", "start", "run", "replied"},
           UNCHANGED <<taskState, discardVars, locations, machineVars>>,
           held' \in [Machine -> SUBSET Task]
    PROVE  Typed'
<1>1. TypeOK'
  BY StepTypes, Zenon DEF Typed, TypeOK, machineVars
<1>2. CallsShaped'
  BY Zenon DEF Typed, CallsShaped, Others
<1>3. Located'
  BY Zenon DEF Typed, Located, Others, discardVars
<1> QED
  BY <1>1, <1>2, <1>3, Zenon DEF Typed

LEMMA HoldTypes ==
    ASSUME Typed, NEW c \in Call, At(c, "run"), Hold(c)
    PROVE  held' \in [Machine -> SUBSET Task]
BY Zenon DEF Typed, TypeOK, CallsShaped, At, Hold

LEMMA LocationTyped ==
    ASSUME Typed, NEW c \in Call, SetLocation(c)
    PROVE  Typed'
<1>1. /\ TypeOK /\ call \in [Call -> CallRecord] /\ call[c].pc = "replied"
      /\ call[c].task \in Task /\ call[c].on \in Machine
  BY TypedCalls, Zenon DEF Typed, CallsShaped, SetLocation, At
<1>2. /\ call' \in [Call -> CallRecord] /\ Others(c)
      /\ call'[c].pc = "located" /\ call'[c].task = call[c].task /\ call'[c].on = call[c].on
  BY <1>1, GotoEffect, Zenon DEF SetLocation, PCs
<1>3. /\ locations' \in Places /\ locations'[call[c].task] = call[c].on
      /\ \A u \in Task : u # call[c].task => locations'[u] = locations[u]
  BY <1>1, Zenon DEF TypeOK, Places, SetLocation
<1>4. UNCHANGED <<taskState, discardVars, machineVars, held>>
  BY Zenon DEF SetLocation
<1>5. TypeOK'
  BY <1>1, <1>2, <1>3, <1>4, StepTypes, Zenon DEF TypeOK, machineVars
<1>6. CallsShaped'
  BY <1>1, <1>2, Zenon DEF Typed, CallsShaped, Others
<1>7. Located'
  <2>1. \A u \in Task : locations[u] \in Machine => locations'[u] \in Machine
    BY <1>1, <1>3, Zenon
  <2>2. \A d \in discards : d.task \in Task
    BY <1>1, Zenon DEF TypeOK
  <2>3. \A d \in Call : call[d].pc \in {"located", "assign"} => call[d].task \in Task
    BY Zenon DEF Typed, CallsShaped
  <2> QED
    BY <1>1, <1>2, <1>3, <1>4, <2>1, <2>2, <2>3 DEF Typed, Located, Others, discardVars
<1> QED
  BY <1>5, <1>6, <1>7, Zenon DEF Typed

LEMMA OkTyped ==
    ASSUME Typed, NEW c \in Call, SetOk(c)
    PROVE  Typed'
<1>1. /\ TypeOK /\ call \in [Call -> CallRecord] /\ call[c].pc = "located"
      /\ call[c].task \in Task /\ call[c].on \in Machine /\ locations[call[c].task] \in Machine
  BY TypedCalls, Zenon DEF Typed, CallsShaped, Located, SetOk, At
<1>2. /\ call' \in [Call -> CallRecord] /\ Others(c)
      /\ call'[c].pc = "assign" /\ call'[c].task = call[c].task /\ call'[c].on = call[c].on
  BY <1>1, GotoEffect, Zenon DEF SetOk, PCs
<1>3. /\ taskState' \in [Task -> TaskStates] /\ taskState'[call[c].task] = TaskOk
      /\ \A u \in Task : u # call[c].task => taskState'[u] = taskState[u]
  BY <1>1, States, SetTypes, Zenon DEF SetOk
<1>4. UNCHANGED <<discardVars, locations, machineVars, held>>
  BY Zenon DEF SetOk
<1>5. TypeOK'
  BY <1>1, <1>2, <1>3, <1>4, StepTypes, Zenon DEF TypeOK, machineVars
<1>6. CallsShaped'
  BY <1>1, <1>2, Zenon DEF Typed, CallsShaped, Others
<1>7. Located'
  BY <1>1, <1>2, <1>3, <1>4, Zenon DEF Typed, Located, Others, discardVars
<1> QED
  BY <1>5, <1>6, <1>7, Zenon DEF Typed

LEMMA AssignTyped ==
    ASSUME Typed, NEW c \in Call, Assign(c)
    PROVE  Typed'
<1>1. /\ TypeOK /\ call \in [Call -> CallRecord] /\ call[c].pc = "assign"
      /\ call[c].task \in Task /\ call[c].on \in Machine
  BY TypedCalls, Zenon DEF Typed, CallsShaped, Assign, At
<1>2. /\ call' \in [Call -> CallRecord] /\ Others(c)
      /\ call'[c].pc = "idle" /\ call'[c].task = NoTask
  BY <1>1, ReturnEffect, Zenon DEF Assign
<1>3. /\ taskState' \in [Task -> TaskStates]
      /\ \A u \in Task : taskState'[u] = taskState[u] \/ taskState'[u] = TaskLost
  <2>1. CASE Set(call[c].task, TaskLost)
    BY <2>1, <1>1, States, SetTypes
  <2>2. CASE UNCHANGED taskState
    BY <2>2, <1>1, Zenon DEF TypeOK
  <2> QED
    BY <2>1, <2>2, Zenon DEF Assign, AssignTask
<1>4. assigned' \in [Machine -> Seq(Task)]
  <2>1. Append(assigned[call[c].on], call[c].task) \in Seq(Task)
    BY <1>1 DEF TypeOK
  <2> QED
    BY <1>1, <2>1, Zenon DEF TypeOK, Assign, AssignTask
<1>5. UNCHANGED <<discardVars, locations, lost, marking, alive, deaths, held>>
  BY Zenon DEF Assign
<1>6. TypeOK'
  BY <1>1, <1>2, <1>3, <1>4, <1>5, StepTypes, Zenon DEF TypeOK
<1>7. CallsShaped'
  BY <1>1, <1>2, Zenon DEF Typed, CallsShaped, Others
<1>8. Located'
  BY <1>1, <1>2, <1>3, <1>5, States, Zenon DEF Typed, Located, Others, discardVars
<1> QED
  BY <1>6, <1>7, <1>8, Zenon DEF Typed

LEMMA RunTyped ==
    ASSUME Typed, NEW c \in Call, Run(c)
    PROVE  Typed'
<1>1. /\ TypeOK /\ call \in [Call -> CallRecord] /\ held \in [Machine -> SUBSET Task]
      /\ call[c].pc \notin {"idle", "offer"} => call[c].on \in Machine
  BY TypedCalls, Zenon DEF Typed, TypeOK, CallsShaped
<1>2. ASSUME NEW m \in Machine, Offered(c, m) PROVE Typed'
  <2>1. /\ call' \in [Call -> CallRecord] /\ Others(c)
        /\ call'[c].pc = "compile" /\ call'[c].task = call[c].task /\ call'[c].on = m
    BY <1>1, <1>2, OfferEffect, Zenon
  <2> QED
    BY <1>1, <1>2, <2>1, MoveTyped, Zenon DEF Offered, At
<1>3. CASE Compile(c)
  <2>1. CASE Goto(c, "locate") /\ UNCHANGED taskState
    BY <1>1, <1>3, <2>1, GotoEffect, MoveTyped, Zenon DEF Compile, At, PCs
  <2>2. ASSUME NEW s \in {TaskErr, TaskLost}, Fail(c, s) PROVE Typed'
    BY <1>1, <1>3, <2>2, FailTyped, Zenon DEF Compile, At
  <2> QED
    BY <1>3, <2>1, <2>2, Zenon DEF Compile
<1>4. CASE Locate(c)
  <2>1. CASE Goto(c, "start") /\ UNCHANGED taskState
    BY <1>1, <1>4, <2>1, GotoEffect, MoveTyped, Zenon DEF Locate, At, PCs
  <2>2. ASSUME NEW d \in DepOf[call[c].task], call' = [call EXCEPT ![c].src[d] = locations[d]],
               UNCHANGED taskState
        PROVE  Typed'
    <3>1. d \in Task /\ locations[d] \in Machine \cup {NoMachine}
      BY <1>1, <1>4, <2>2, ExecutorAssumption, Zenon
         DEF Typed, TypeOK, CallsShaped, Places, Locate, At
    <3> QED
      BY <1>1, <1>4, <2>2, <3>1, RequestEffect, MoveTyped, Zenon DEF Locate, At
  <2>3. CASE Fail(c, TaskErr)
    BY <1>1, <1>4, <2>3, FailTyped, Zenon DEF Locate, At
  <2> QED
    BY <1>4, <2>1, <2>2, <2>3, Zenon DEF Locate
<1>5. CASE Start(c)
  <2>1. CASE Set(call[c].task, TaskRunning) /\ Goto(c, "run")
    <3>1. /\ call' \in [Call -> CallRecord] /\ Others(c)
          /\ call'[c].pc = "run" /\ call'[c].task = call[c].task /\ call'[c].on = call[c].on
      BY <1>1, <2>1, GotoEffect, Zenon DEF PCs
    <3>2. call[c].pc = "start" /\ call[c].task \in Task
      BY <1>5, Zenon DEF Typed, CallsShaped, Start, At
    <3>3. /\ taskState' \in [Task -> TaskStates]
          /\ \A u \in Task : taskState'[u] = taskState[u] \/ taskState'[u] = TaskRunning
      BY <1>1, <2>1, <3>2, States, SetTypes
    <3>4. UNCHANGED <<discardVars, locations, machineVars, held>>
      BY <1>5, Zenon DEF Start
    <3>5. TypeOK'
      BY <1>1, <3>1, <3>3, <3>4, StepTypes, Zenon DEF TypeOK, machineVars
    <3>6. CallsShaped'
      BY <1>1, <3>1, <3>2, Zenon DEF Typed, CallsShaped, Others
    <3>7. Located'
      BY <1>1, <3>1, <3>2, <3>3, <3>4, States, Zenon DEF Typed, Located, Others, discardVars
    <3> QED
      BY <3>5, <3>6, <3>7, Zenon DEF Typed
  <2>2. CASE Fail(c, TaskErr)
    BY <1>1, <1>5, <2>2, FailTyped, Zenon DEF Start, At
  <2> QED
    BY <1>5, <2>1, <2>2, Zenon DEF Start
<1>6. CASE Replied(c)
  BY <1>1, <1>6, GotoEffect, HoldTypes, MoveTyped, Zenon DEF Replied, At, PCs
<1>7. CASE RunFailed(c)
  <2>1. held' \in [Machine -> SUBSET Task]
    BY <1>1, <1>7, HoldTypes, Zenon DEF RunFailed
  <2> QED
    BY <1>1, <1>7, <2>1, FailTyped, Zenon DEF RunFailed, At
<1> QED
  BY <1>2, <1>3, <1>4, <1>5, <1>6, <1>7, LocationTyped, OkTyped, AssignTyped, Zenon DEF Run

\* The steps that leave the calls of Run alone.
LEMMA OtherTypes ==
    ASSUME TypeOK, UNCHANGED <<call, locations>>, taskState' \in [Task -> TaskStates],
           discards' \in SUBSET [task : Task, pc : {"locate", "call", "end"},
                                 on : Machine \cup {NoMachine}, n : 1..MaxDiscards],
           \A d \in discards' : d.pc = "locate" \/ d.on \in Machine,
           ndiscards' \in 0..MaxDiscards, deaths' \in 0..MaxDeaths,
           assigned' \in [Machine -> Seq(Task)], marking' \in [Machine -> Seq(Task)],
           lost' \in SUBSET Machine, alive' \in SUBSET Machine,
           held' \in [Machine -> SUBSET Task]
    PROVE  TypeOK'
BY Zenon DEF TypeOK

LEMMA OtherTyped ==
    ASSUME Typed, TypeOK', UNCHANGED <<call, locations>>,
           \A t \in Task : taskState'[t] = TaskOk => taskState[t] = TaskOk,
           \A d \in discards' : locations[d.task] \in Machine
    PROVE  Typed'
BY Zenon DEF Typed, CallsShaped, Located

LEMMA DiscardStartTyped ==
    ASSUME Typed, NEW t \in Task, DiscardStart(t)
    PROVE  Typed'
<1> DEFINE d == [task |-> t, pc |-> "locate", on |-> NoMachine, n |-> ndiscards + 1]
<1>1. /\ taskState' \in [Task -> TaskStates]
      /\ \A u \in Task : taskState'[u] = TaskOk => taskState[u] = TaskOk
  BY States, SetTypes, Zenon DEF Typed, DiscardStart
<1>2. ndiscards + 1 \in 1..MaxDiscards /\ ndiscards' \in 0..MaxDiscards
  BY ExecutorAssumption DEF Typed, TypeOK, DiscardStart
<1>3. /\ d \in [task : Task, pc : {"locate", "call", "end"},
                on : Machine \cup {NoMachine}, n : 1..MaxDiscards]
      /\ d.pc = "locate" /\ d.task = t
  BY <1>2, Zenon
<1>4. discards' = discards \cup {d}
  BY Zenon DEF DiscardStart
<1> HIDE DEF d
<1>5. TypeOK'
  BY <1>1, <1>2, <1>3, <1>4, OtherTypes, Zenon DEF Typed, TypeOK, DiscardStart, machineVars
<1>6. \A e \in discards' : locations[e.task] \in Machine
  BY <1>3, <1>4, Zenon DEF Typed, Located, DiscardStart
<1> QED
  BY <1>1, <1>5, <1>6, OtherTyped, Zenon DEF DiscardStart

LEMMA DiscardTyped ==
    ASSUME Typed, NEW d \in discards, Discard(d)
    PROVE  Typed'
<1> DEFINE DiscardRecord == [task : Task, pc : {"locate", "call", "end"},
                             on : Machine \cup {NoMachine}, n : 1..MaxDiscards]
<1>1. d \in DiscardRecord /\ locations[d.task] \in Machine /\ (d.pc = "locate" \/ d.on \in Machine)
  BY Zenon DEF Typed, TypeOK, Located
<1>2. CASE DiscardLocate(d)
  <2> DEFINE e == [d EXCEPT !.pc = "call", !.on = locations[d.task]]
  <2>1. e \in DiscardRecord /\ e.on \in Machine /\ e.task = d.task
    BY <1>1, Zenon
  <2>2. discards' = (discards \ {d}) \cup {e}
    BY <1>2, Zenon DEF DiscardLocate, Advance
  <2> HIDE DEF e
  <2>3. TypeOK'
    BY <1>2, <2>1, <2>2, OtherTypes, Zenon DEF Typed, TypeOK, DiscardLocate, machineVars
  <2>4. \A x \in discards' : locations[x.task] \in Machine
    BY <1>1, <2>1, <2>2, Zenon DEF Typed, Located
  <2> QED
    BY <1>2, <2>3, <2>4, OtherTyped, Zenon DEF DiscardLocate
<1>3. CASE DiscardCall(d)
  <2> DEFINE e == [d EXCEPT !.pc = "end"]
  <2>1. d.on \in Machine
    BY <1>1, <1>3, Zenon DEF DiscardCall
  <2>2. e \in DiscardRecord /\ e.on \in Machine /\ e.task = d.task
    BY <1>1, <2>1, Zenon
  <2>3. discards' = (discards \ {d}) \cup {e}
    BY <1>3, Zenon DEF DiscardCall, Advance
  <2> HIDE DEF e
  <2>4. held' \in [Machine -> SUBSET Task]
    BY <1>3, <2>1, Zenon DEF Typed, TypeOK, DiscardCall
  <2>5. TypeOK'
    BY <1>3, <2>2, <2>3, <2>4, OtherTypes, Zenon DEF Typed, TypeOK, DiscardCall, machineVars
  <2>6. \A x \in discards' : locations[x.task] \in Machine
    BY <1>1, <2>2, <2>3, Zenon DEF Typed, Located
  <2> QED
    BY <1>3, <2>5, <2>6, OtherTyped, Zenon DEF DiscardCall
<1>4. CASE DiscardEnd(d)
  <2>1. d.task \in Task
    BY <1>1, Zenon
  <2>2. /\ taskState' \in [Task -> TaskStates]
        /\ \A u \in Task : taskState'[u] = TaskOk => taskState[u] = TaskOk
    BY <1>4, <2>1, States, SetTypes, Zenon DEF Typed, DiscardEnd
  <2>3. TypeOK'
    BY <1>4, <2>2, OtherTypes, Zenon DEF Typed, TypeOK, DiscardEnd, machineVars
  <2>4. \A x \in discards' : locations[x.task] \in Machine
    BY <1>4, Zenon DEF Typed, Located, DiscardEnd
  <2> QED
    BY <1>4, <2>2, <2>3, <2>4, OtherTyped, Zenon DEF DiscardEnd
<1> QED
  BY <1>2, <1>3, <1>4, Zenon DEF Discard

LEMMA MachineTyped ==
    ASSUME Typed, NEW m \in Machine, Die(m) \/ Notice(m) \/ MarkLost(m)
    PROVE  Typed'
<1>1. TypeOK /\ \A d \in discards : locations[d.task] \in Machine
  BY Zenon DEF Typed, Located
<1>2. CASE Die(m)
  <2>1. deaths' \in 0..MaxDeaths
    BY <1>1, <1>2, ExecutorAssumption, SMTT(30) DEF TypeOK, Die
  <2>2. TypeOK'
    BY <1>1, <1>2, <2>1, OtherTypes, Zenon DEF TypeOK, Die, discardVars
  <2> QED
    BY <1>1, <1>2, <2>2, OtherTyped, Zenon DEF Die, discardVars
<1>3. CASE Notice(m)
  <2>1. TypeOK'
    BY <1>1, <1>3, OtherTypes DEF TypeOK, Notice, discardVars
  <2> QED
    BY <1>1, <1>3, <2>1, OtherTyped, Zenon DEF Notice, discardVars
<1>4. CASE MarkLost(m)
  <2>1. Head(marking[m]) \in Task /\ Tail(marking[m]) \in Seq(Task)
    BY <1>1, <1>4 DEF TypeOK, MarkLost
  <2>2. /\ taskState' \in [Task -> TaskStates]
        /\ \A u \in Task : taskState'[u] = TaskOk => taskState[u] = TaskOk
    BY <1>1, <1>4, <2>1, States, SetTypes, Zenon DEF MarkLost
  <2>3. marking' \in [Machine -> Seq(Task)]
    BY <1>1, <1>4, <2>1, Zenon DEF TypeOK, MarkLost
  <2>4. TypeOK'
    BY <1>1, <1>4, <2>2, <2>3, OtherTypes, Zenon DEF TypeOK, MarkLost, discardVars
  <2> QED
    BY <1>1, <1>4, <2>2, <2>4, OtherTyped, Zenon DEF MarkLost, discardVars
<1> QED
  BY <1>2, <1>3, <1>4, Zenon

LEMMA GiveUpTyped ==
    ASSUME Typed, NEW t \in Task, GiveUp(t)
    PROVE  Typed'
<1>1. /\ taskState' \in [Task -> TaskStates]
      /\ \A u \in Task : taskState'[u] = TaskOk => taskState[u] = TaskOk
  BY States, SetTypes, Zenon DEF Typed, GiveUp, Set
<1>2. TypeOK'
  BY <1>1, OtherTypes, Zenon DEF Typed, TypeOK, GiveUp, discardVars, machineVars
<1> QED
  BY <1>1, <1>2, OtherTyped, Zenon DEF Typed, Located, GiveUp, discardVars

LEMMA TypedNext == Typed /\ [Next]_vars => Typed'
<1> SUFFICES ASSUME Typed, [Next]_vars PROVE Typed'
  BY Zenon
<1>1. ASSUME UNCHANGED vars PROVE Typed'
  BY <1>1, Zenon DEF vars, discardVars, machineVars, Typed, TypeOK, CallsShaped, Located
<1>2. CASE Idle
  BY <1>1, <1>2, Zenon DEF Idle
<1> QED
  BY <1>1, <1>2, RunTyped, SubmitTyped, GiveUpTyped, DiscardStartTyped, DiscardTyped,
     MachineTyped, Zenon
     DEF Next
-----------------------------------------------------------------------------
\* The executor's variables keep their types; in particular b.location, which
\* Discard calls on a completed task, always finds a machine.
THEOREM ExecutorTypeCorrect == Spec => []TypeOK
<1>1. Typed => TypeOK
  BY Zenon DEF Typed
<1> QED
  BY <1>1, TypedInit, TypedNext, PTL DEF Spec


-----------------------------------------------------------------------------
(* Until something is discarded.                                           *)

\* The tasks that a machine's loss will mark, before and after it is noticed.
Listed == [m \in Machine |-> IF m \in lost THEN marking[m] ELSE assigned[m]]

\* One call of Run per task.
OneCall ==
    \A c, d \in Call : call[c].pc # "idle" /\ call[c].task = call[d].task => c = d

\* Where a call of Run is tells the state of its task.
PhaseOf(c) ==
    /\ call[c].pc \in {"offer", "compile", "locate", "start"} => taskState[call[c].task] = TaskWaiting
    /\ call[c].pc \in {"run", "replied", "located"} => taskState[call[c].task] = TaskRunning
    /\ call[c].pc = "assign" => taskState[call[c].task] = TaskOk
Phase == \A c \in Call : PhaseOf(c)

\* A machine lists completed tasks that are located there, each once and none
\* that a call of Run has yet to assign; every completed task is listed or
\* has yet to be assigned.
Apart == \A m \in Machine : IF m \in lost THEN assigned[m] = <<>> ELSE marking[m] = <<>>
ListsOk ==
    \A m \in Machine : \A i \in DOMAIN Listed[m] :
      /\ taskState[Listed[m][i]] = TaskOk /\ locations[Listed[m][i]] = m
      /\ \A j \in DOMAIN Listed[m] : Listed[m][i] = Listed[m][j] => i = j
      /\ \A c \in Call : call[c].task # Listed[m][i]
OkListed ==
    \A t \in Task : taskState[t] = TaskOk =>
      \/ \E c \in Call : call[c].task = t /\ call[c].pc = "assign"
      \/ \E i \in DOMAIN Listed[locations[t]] : Listed[locations[t]][i] = t

\* What a worker has answered for is on it while it lives, and so is what the
\* locations say.
HeldFor(c) ==
    /\ call[c].pc \in {"replied", "located"} /\ call[c].on \in alive =>
         call[c].task \in held[call[c].on]
    /\ call[c].pc \in {"located", "assign"} => locations[call[c].task] = call[c].on
HeldOk(t) == taskState[t] = TaskOk /\ locations[t] \in alive => t \in held[locations[t]]
Held == (\A c \in Call : HeldFor(c)) /\ (\A t \in Task : HeldOk(t))

Publication == OneCall /\ Phase /\ Apart /\ ListsOk /\ OkListed /\ Held

Undiscarded == ndiscards = 0 => discards = {} /\ Publication

ExecutorInv == Typed /\ Undiscarded

-----------------------------------------------------------------------------
(* Until something is discarded, what Run publishes is consistent.         *)

LEMMA PublicationInit == Init => Publication
BY ExecutorAssumption, FreeRecord
   DEF Init, Publication, OneCall, Phase, PhaseOf, Apart, ListsOk, OkListed, Held, HeldFor,
         HeldOk,
       Listed, Nowhere, TaskInit, TaskOk

LEMMA ListedType == ASSUME TypeOK PROVE Listed \in [Machine -> Seq(Task)]
BY Zenon DEF TypeOK, Listed

LEMMA ListedTask ==
    ASSUME TypeOK, NEW m \in Machine, NEW i \in DOMAIN Listed[m]
    PROVE  Listed[m][i] \in Task
BY ListedType

\* A step of the call c, whose task is t, or that submits or frees it.
LEMMA CallStep ==
    ASSUME Typed, Typed', Publication, NEW c \in Call, NEW t \in Task, Others(c),
           call[c].task \in {t, NoTask}, call'[c].task \in {t, NoTask},
           \A d \in Call : d # c => call[d].task # t,
           taskState[t] # TaskOk,
           \A u \in Task : u # t => taskState'[u] = taskState[u] /\ locations'[u] = locations[u],
           UNCHANGED <<lost, marking, assigned, alive>>,
           \A m \in Machine : held[m] \subseteq held'[m],
           PhaseOf(c)', HeldFor(c)',
           taskState'[t] = TaskOk => call'[c].pc = "assign" /\ call'[c].task = t,
           HeldOk(t)'
    PROVE  Publication'
<1>1. Listed' = Listed
  BY Zenon DEF Listed
<1>2. \A d \in Call : d # c => call[d].task \in Task \/ call[d].pc = "idle"
  BY Zenon DEF Typed, CallsShaped
<1>3. OneCall'
  <2>1. ASSUME NEW d \in Call, NEW e \in Call, call'[d].pc # "idle", call'[d].task = call'[e].task
        PROVE  d = e
    <3>1. call'[d].task \in Task
      BY <2>1, Zenon DEF Typed, CallsShaped
    <3>2. CASE d # c /\ e # c
      BY <2>1, <3>2 DEF Publication, OneCall, Others
    <3>3. CASE d = c /\ e # c
      BY <2>1, <3>1, <3>3, ExecutorAssumption, Zenon DEF Others
    <3>4. CASE d # c /\ e = c
      BY <2>1, <3>1, <3>4, ExecutorAssumption, Zenon DEF Others
    <3> QED
      BY <3>2, <3>3, <3>4, Zenon
  <2> QED
    BY <2>1, Zenon DEF OneCall
<1>4. Phase'
  BY <1>2 DEF Publication, Phase, PhaseOf, Others
<1>5. Apart'
  BY Zenon DEF Publication, Apart
<1>6. ListsOk'
  <2> SUFFICES ASSUME NEW m \in Machine, NEW i \in DOMAIN Listed[m]
               PROVE  /\ taskState'[Listed[m][i]] = TaskOk /\ locations'[Listed[m][i]] = m
                      /\ \A j \in DOMAIN Listed[m] : Listed[m][i] = Listed[m][j] => i = j
                      /\ \A d \in Call : call'[d].task # Listed[m][i]
    BY <1>1 DEF ListsOk
  <2>1. Listed[m][i] \in Task /\ Listed[m][i] # t
    BY ListedTask DEF Typed, Publication, ListsOk
  <2> QED
    BY <2>1, ExecutorAssumption DEF Publication, ListsOk, Others
<1>7. OkListed'
  <2> SUFFICES ASSUME NEW u \in Task, taskState'[u] = TaskOk
               PROVE  \/ \E d \in Call : call'[d].task = u /\ call'[d].pc = "assign"
                      \/ \E i \in DOMAIN Listed[locations'[u]] : Listed[locations'[u]][i] = u
    BY <1>1, Zenon DEF OkListed
  <2>1. CASE u = t
    BY <2>1, Zenon
  <2>2. CASE u # t
    BY <2>2, ExecutorAssumption DEF Publication, OkListed, Others
  <2> QED
    BY <2>1, <2>2, Zenon
<1>8. Held'
  <2>1. ASSUME NEW d \in Call, d # c PROVE HeldFor(d)'
    <3>1. call'[d] = call[d] /\ HeldFor(d)
      BY <2>1, Zenon DEF Publication, Held, Others
    <3>2. call[d].pc \in {"replied", "located", "assign"} =>
            call[d].task \in Task /\ call[d].task # t /\ call[d].on \in Machine
      BY <2>1, Zenon DEF Typed, CallsShaped
    <3> QED
      BY <3>1, <3>2, Zenon DEF HeldFor
  <2>2. ASSUME NEW u \in Task, u # t PROVE HeldOk(u)'
    BY <2>2, Zenon DEF Publication, Held, HeldOk, Typed, TypeOK
  <2> QED
    BY <2>1, <2>2, Zenon DEF Held
<1> QED
  BY <1>3, <1>4, <1>5, <1>6, <1>7, <1>8, Zenon DEF Publication

\* In a step of the call c, its task is t and it is the only call that has it.
LEMMA OfCall ==
    ASSUME Typed, Publication, NEW c \in Call, call[c].pc # "idle"
    PROVE  /\ TypeOK /\ call \in [Call -> CallRecord]
           /\ call[c].task \in Task /\ (call[c].pc # "offer" => call[c].on \in Machine)
           /\ \A d \in Call : d # c => call[d].task # call[c].task
           /\ PhaseOf(c) /\ HeldFor(c)
BY TypedCalls, Zenon DEF Typed, CallsShaped, Publication, OneCall, Phase, Held

LEMMA SubmitPublication ==
    ASSUME Typed, Typed', Publication, NEW c \in Call, NEW t \in Task, Submit(c, t)
    PROVE  Publication'
<1>1. TypeOK /\ call \in [Call -> CallRecord]
  BY TypedCalls, Zenon DEF Typed
<1>2. /\ Others(c) /\ call[c].pc = "idle" /\ call[c].task = NoTask
      /\ call'[c].pc = "offer" /\ call'[c].task = t
  BY <1>1, SubmitEffect, Zenon
<1>3. /\ taskState[t] \in {TaskInit, TaskLost} /\ taskState'[t] = TaskWaiting
      /\ \A u \in Task : u # t => taskState'[u] = taskState[u]
  BY <1>1, Zenon DEF TypeOK, Submit, Unstarted
<1>4. \A d \in Call : d # c => call[d].task # t
  BY <1>3, States, ExecutorAssumption
     DEF Typed, TypeOK, CallsShaped, Publication, Phase, PhaseOf, PCs
<1>5. PhaseOf(c)' /\ HeldFor(c)' /\ HeldOk(t)'
  BY <1>2, <1>3, States, Zenon DEF PhaseOf, HeldFor, HeldOk
<1> QED
  BY <1>2, <1>3, <1>4, <1>5, States, CallStep, Zenon DEF Submit, machineVars

LEMMA FailPublication ==
    ASSUME Typed, Typed', Publication, NEW c \in Call, call[c].pc \notin {"idle", "assign"},
           NEW s \in {TaskErr, TaskLost}, Fail(c, s), UNCHANGED <<locations, machineVars>>,
           \A m \in Machine : held[m] \subseteq held'[m]
    PROVE  Publication'
<1>0. PICK t \in Task : t = call[c].task
  BY OfCall, Zenon
<1>1. /\ TypeOK /\ call \in [Call -> CallRecord]
      /\ \A d \in Call : d # c => call[d].task # t
      /\ PhaseOf(c) /\ call[c].pc \in PCs
  BY <1>0, OfCall, TypedCalls, Zenon
<1>2. Others(c) /\ call'[c].pc = "idle" /\ call'[c].task = NoTask
  BY <1>1, ReturnEffect, Zenon DEF Fail
<1>3. /\ taskState[t] # TaskOk /\ taskState'[t] # TaskOk
      /\ \A u \in Task : u # t => taskState'[u] = taskState[u]
  <2>1. taskState[t] # TaskOk
    BY <1>0, <1>1, States, Zenon DEF PhaseOf, PCs
  <2> QED
    BY <1>0, <1>1, <2>1, States, SetTypes DEF Fail
<1>4. PhaseOf(c)' /\ HeldFor(c)' /\ HeldOk(t)'
  BY <1>2, <1>3, Zenon DEF PhaseOf, HeldFor, HeldOk
<1> QED
  BY <1>0, <1>1, <1>2, <1>3, <1>4, CallStep, Zenon DEF machineVars

\* A call of Run that goes on, and whose task has the state s afterwards.
LEMMA MovePublication ==
    ASSUME Typed, Typed', Publication, NEW c \in Call, call[c].pc \notin {"idle", "assign"},
           Others(c), call'[c].task = call[c].task, NEW s \in TaskStates,
           taskState'[call[c].task] = s,
           \A u \in Task : u # call[c].task => /\ taskState'[u] = taskState[u]
                                               /\ locations'[u] = locations[u],
           UNCHANGED machineVars, \A m \in Machine : held[m] \subseteq held'[m],
           PhaseOf(c)', HeldFor(c)', s = TaskOk => call'[c].pc = "assign",
           \A t \in Task : t = call[c].task => HeldOk(t)'
    PROVE  Publication'
<1>1. PICK t \in Task : t = call[c].task
  BY OfCall, Zenon
<1>2. \A d \in Call : d # c => call[d].task # t
  BY <1>1, OfCall, Zenon
<1>3. taskState[t] # TaskOk
  BY <1>1, OfCall, TypedCalls, States, Zenon DEF PhaseOf, PCs
<1> QED
  BY <1>1, <1>2, <1>3, CallStep, Zenon DEF machineVars

LEMMA RunPublication ==
    ASSUME Typed, Typed', Publication, NEW c \in Call, Run(c), ~Assign(c)
    PROVE  Publication'
<1> USE States
<1>0. call[c].pc # "idle"
  BY Zenon
     DEF Run, Offered, Compile, Locate, Start, Replied, RunFailed, SetLocation, SetOk,
           Assign, At
<1>1. /\ TypeOK /\ call \in [Call -> CallRecord]
      /\ call[c].task \in Task /\ (call[c].pc # "offer" => call[c].on \in Machine)
      /\ PhaseOf(c) /\ HeldFor(c) /\ taskState \in [Task -> TaskStates]
      /\ held \in [Machine -> SUBSET Task]
  BY <1>0, OfCall, Zenon DEF Typed, TypeOK
<1>2. ASSUME NEW m \in Machine, Offered(c, m) PROVE Publication'
  <2>1. /\ Others(c) /\ call'[c].pc = "compile" /\ call'[c].task = call[c].task
        /\ call[c].pc = "offer" /\ UNCHANGED <<taskState, locations, machineVars, held>>
    BY <1>1, <1>2, OfferEffect, Zenon DEF Offered, At
  <2>2. PhaseOf(c)' /\ HeldFor(c)' /\ taskState[call[c].task] = TaskWaiting
    BY <1>1, <2>1, Zenon DEF PhaseOf, HeldFor
  <2>3. \A t \in Task : t = call[c].task => HeldOk(t)'
    BY <2>1, <2>2, Zenon DEF HeldOk
  <2> QED
    BY <1>1, <2>1, <2>2, <2>3, MovePublication, Zenon
<1>3. CASE Compile(c)
  <2>1. CASE Goto(c, "locate") /\ UNCHANGED taskState
    <3>1. /\ Others(c) /\ call'[c].pc = "locate" /\ call'[c].task = call[c].task
          /\ call[c].pc = "compile" /\ UNCHANGED <<taskState, locations, machineVars, held>>
      BY <1>1, <1>3, <2>1, GotoEffect, Zenon DEF Compile, At, PCs
    <3>2. PhaseOf(c)' /\ HeldFor(c)' /\ taskState[call[c].task] = TaskWaiting
      BY <1>1, <3>1, Zenon DEF PhaseOf, HeldFor
    <3>3. \A t \in Task : t = call[c].task => HeldOk(t)'
      BY <3>1, <3>2, Zenon DEF HeldOk
    <3> QED
      BY <1>1, <3>1, <3>2, <3>3, MovePublication, Zenon
  <2>2. ASSUME NEW s \in {TaskErr, TaskLost}, Fail(c, s) PROVE Publication'
    BY <1>3, <2>2, FailPublication, Zenon DEF Compile, At
  <2> QED
    BY <1>3, <2>1, <2>2, Zenon DEF Compile
<1>4. CASE Locate(c)
  <2>1. CASE Others(c) /\ call'[c].pc \in {"locate", "start"} /\ call'[c].task = call[c].task
             /\ UNCHANGED taskState
    <3>1. call[c].pc = "locate" /\ UNCHANGED <<taskState, locations, machineVars, held>>
      BY <1>4, <2>1, Zenon DEF Locate, At
    <3>2. PhaseOf(c)' /\ HeldFor(c)' /\ taskState[call[c].task] = TaskWaiting
      BY <1>1, <2>1, <3>1, Zenon DEF PhaseOf, HeldFor
    <3>3. \A t \in Task : t = call[c].task => HeldOk(t)'
      BY <3>1, <3>2, Zenon DEF HeldOk
    <3> QED
      BY <1>1, <2>1, <3>1, <3>2, <3>3, MovePublication, Zenon
  <2>2. CASE Goto(c, "start") /\ UNCHANGED taskState
    BY <1>1, <2>1, <2>2, GotoEffect, Zenon DEF PCs
  <2>3. ASSUME NEW d \in DepOf[call[c].task], call' = [call EXCEPT ![c].src[d] = locations[d]],
               UNCHANGED taskState
        PROVE  Publication'
    <3>1. d \in Task /\ locations[d] \in Machine \cup {NoMachine}
      BY <1>1, <2>3, ExecutorAssumption, Zenon DEF TypeOK, Places
    <3> QED
      BY <1>1, <1>4, <2>1, <2>3, <3>1, RequestEffect, Zenon DEF Locate, At
  <2>4. CASE Fail(c, TaskErr)
    BY <1>4, <2>4, FailPublication, Zenon DEF Locate, At
  <2> QED
    BY <1>4, <2>2, <2>3, <2>4, Zenon DEF Locate
<1>5. CASE Start(c)
  <2>1. CASE Set(call[c].task, TaskRunning) /\ Goto(c, "run")
    <3>1. /\ Others(c) /\ call'[c].pc = "run" /\ call'[c].task = call[c].task
          /\ call[c].pc = "start" /\ UNCHANGED <<locations, machineVars, held>>
      BY <1>1, <1>5, <2>1, GotoEffect, Zenon DEF Start, At, PCs
    <3>2. /\ taskState'[call[c].task] = TaskRunning
          /\ \A u \in Task : u # call[c].task => taskState'[u] = taskState[u]
      BY <1>1, <2>1, SetTypes, Zenon
    <3>3. PhaseOf(c)' /\ HeldFor(c)'
      BY <1>1, <3>1, <3>2, Zenon DEF PhaseOf, HeldFor
    <3>4. \A t \in Task : t = call[c].task => HeldOk(t)'
      BY <3>2, Zenon DEF HeldOk
    <3> QED
      BY <1>1, <3>1, <3>2, <3>3, <3>4, MovePublication, Zenon
  <2>2. CASE Fail(c, TaskErr)
    BY <1>5, <2>2, FailPublication, Zenon DEF Start, At
  <2> QED
    BY <1>5, <2>1, <2>2, Zenon DEF Start
<1>6. CASE Replied(c)
  <2>1. /\ Others(c) /\ call'[c].pc = "replied" /\ call'[c].task = call[c].task
        /\ call'[c].on = call[c].on
        /\ call[c].pc = "run" /\ UNCHANGED <<taskState, locations, machineVars>>
    BY <1>1, <1>6, GotoEffect, Zenon DEF Replied, At, PCs
  <2>2. call[c].task \in held'[call[c].on] /\ \A m \in Machine : held[m] \subseteq held'[m]
    BY <1>1, <1>6, <2>1, Zenon DEF Replied, Hold
  <2>3. PhaseOf(c)' /\ HeldFor(c)' /\ taskState[call[c].task] = TaskRunning
    BY <1>1, <2>1, <2>2, Zenon DEF PhaseOf, HeldFor
  <2>4. \A t \in Task : t = call[c].task => HeldOk(t)'
    BY <2>1, <2>3, Zenon DEF HeldOk
  <2> QED
    BY <1>1, <2>1, <2>2, <2>3, <2>4, MovePublication, Zenon
<1>7. CASE RunFailed(c)
  <2>1. call[c].pc = "run" /\ \A m \in Machine : held[m] \subseteq held'[m]
    BY <1>1, <1>7, Zenon DEF RunFailed, Hold, At
  <2> QED
    BY <1>7, <2>1, FailPublication, Zenon DEF RunFailed
<1>8. CASE SetLocation(c)
  <2>1. /\ Others(c) /\ call'[c].pc = "located" /\ call'[c].task = call[c].task
        /\ call'[c].on = call[c].on
        /\ call[c].pc = "replied" /\ UNCHANGED <<taskState, machineVars, held>>
    BY <1>1, <1>8, GotoEffect, Zenon DEF SetLocation, At, PCs
  <2>2. /\ locations'[call[c].task] = call[c].on
        /\ \A u \in Task : u # call[c].task => locations'[u] = locations[u]
    BY <1>1, <1>8, Zenon DEF SetLocation, TypeOK, Places
  <2>3. PhaseOf(c)' /\ HeldFor(c)' /\ taskState[call[c].task] = TaskRunning
    BY <1>1, <2>1, <2>2, Zenon DEF PhaseOf, HeldFor, machineVars
  <2>4. \A t \in Task : t = call[c].task => HeldOk(t)'
    BY <2>1, <2>3, Zenon DEF HeldOk
  <2> QED
    BY <1>1, <2>1, <2>2, <2>3, <2>4, MovePublication, Zenon
<1>9. CASE SetOk(c)
  <2>1. /\ Others(c) /\ call'[c].pc = "assign" /\ call'[c].task = call[c].task
        /\ call'[c].on = call[c].on
        /\ call[c].pc = "located" /\ UNCHANGED <<locations, machineVars, held>>
    BY <1>1, <1>9, GotoEffect, Zenon DEF SetOk, At, PCs
  <2>2. /\ taskState'[call[c].task] = TaskOk
        /\ \A u \in Task : u # call[c].task => taskState'[u] = taskState[u]
    BY <1>1, <1>9, SetTypes, Zenon DEF SetOk
  <2>3. PhaseOf(c)' /\ HeldFor(c)'
    BY <1>1, <2>1, <2>2, Zenon DEF PhaseOf, HeldFor
  <2>4. \A t \in Task : t = call[c].task => HeldOk(t)'
    BY <1>1, <2>1, Zenon DEF HeldOk, HeldFor, machineVars
  <2> QED
    BY <1>1, <2>1, <2>2, <2>3, <2>4, MovePublication, Zenon
<1> QED
  BY <1>2, <1>3, <1>4, <1>5, <1>6, <1>7, <1>8, <1>9, Zenon DEF Run

\* The last step of Run: the machine's list has the task, or its loss is seen.
LEMMA AssignPublication ==
    ASSUME Typed, Typed', Publication, NEW c \in Call, Assign(c)
    PROVE  Publication'
<1> USE States
<1>0. PICK t \in Task : t = call[c].task
  BY OfCall, Zenon DEF Assign, At
<1>1. PICK m \in Machine : m = call[c].on
  BY OfCall, Zenon DEF Assign, At
<1>2. /\ TypeOK /\ call \in [Call -> CallRecord] /\ taskState[t] = TaskOk /\ locations[t] = m
      /\ \A d \in Call : d # c => call[d].task # t
  BY <1>0, <1>1, OfCall, Zenon DEF Assign, At, PhaseOf, HeldFor
<1>3. Others(c) /\ call'[c].pc = "idle" /\ call'[c].task = NoTask
  BY <1>2, ReturnEffect, Zenon DEF Assign
<1>4. UNCHANGED <<locations, lost, marking, alive, held>>
  BY Zenon DEF Assign
<1>5. \A n \in Machine : \A i \in DOMAIN Listed[n] : Listed[n][i] # t
  BY <1>0 DEF Publication, ListsOk
<1>6. OneCall'
  BY <1>3, ExecutorAssumption DEF Typed, CallsShaped, Publication, OneCall, Others
<1>7. \A u \in Task : u # t => taskState'[u] = taskState[u]
  <2>1. CASE Set(t, TaskLost)
    BY <1>2, <2>1, SetTypes, Zenon
  <2>2. CASE UNCHANGED taskState
    BY <2>2, Zenon
  <2> QED
    BY <1>0, <2>1, <2>2, Zenon DEF Assign, AssignTask
<1>8. Phase'
  <2> SUFFICES ASSUME NEW d \in Call PROVE PhaseOf(d)'
    BY Zenon DEF Phase
  <2>1. CASE d = c
    BY <1>3, <2>1, Zenon DEF PhaseOf
  <2>2. CASE d # c
    <3>1. call'[d] = call[d] /\ PhaseOf(d) /\ (call[d].pc = "idle" \/ call[d].task \in Task \ {t})
      BY <1>2, <1>3, <2>2, Zenon DEF Typed, CallsShaped, Publication, Phase, Others
    <3> QED
      BY <1>7, <3>1, Zenon DEF PhaseOf
  <2> QED
    BY <2>1, <2>2, Zenon
<1>9. \A u \in Task : taskState'[u] = TaskOk => taskState[u] = TaskOk
  BY <1>2, <1>7, Zenon
<1>10. Held'
  <2>1. ASSUME NEW d \in Call PROVE HeldFor(d)'
    BY <1>3, <1>4, Zenon DEF Publication, Held, HeldFor, Others
  <2>2. ASSUME NEW u \in Task PROVE HeldOk(u)'
    BY <1>4, <1>9, Zenon DEF Publication, Held, HeldOk
  <2> QED
    BY <2>1, <2>2, Zenon DEF Held
<1>11. CASE m \in lost
  <2>1. Set(t, TaskLost) /\ UNCHANGED assigned
    BY <1>0, <1>1, <1>11, Zenon DEF Assign, AssignTask
  <2>2. Listed' = Listed /\ taskState'[t] = TaskLost
    BY <1>2, <1>4, <2>1, SetTypes, Zenon DEF Listed
  <2>3. Apart'
    BY <1>4, <2>1, Zenon DEF Publication, Apart
  <2>4. ListsOk'
    <3> SUFFICES ASSUME NEW n \in Machine, NEW i \in DOMAIN Listed[n]
                 PROVE  /\ taskState'[Listed[n][i]] = TaskOk /\ locations[Listed[n][i]] = n
                        /\ \A j \in DOMAIN Listed[n] : Listed[n][i] = Listed[n][j] => i = j
                        /\ \A d \in Call : call'[d].task # Listed[n][i]
      BY <1>4, <2>2, SMTT(30) DEF ListsOk
    <3>1. Listed[n][i] \in Task
      BY <1>2, ListedTask, Zenon
    <3> QED
      BY <1>3, <1>5, <1>7, <3>1, ExecutorAssumption DEF Publication, ListsOk, Others
  <2>5. OkListed'
    BY <1>2, <1>3, <1>4, <1>7, <1>0, <2>2, SMTT(30) DEF Publication, OkListed, Others
  <2> QED
    BY <1>6, <1>8, <1>10, <2>3, <2>4, <2>5, Zenon DEF Publication
<1>12. CASE m \notin lost
  <2>1. assigned' = [assigned EXCEPT ![m] = Append(@, t)] /\ UNCHANGED taskState
    BY <1>0, <1>1, <1>12, Zenon DEF Assign, AssignTask
  <2>2. Listed[m] \in Seq(Task) /\ assigned[m] = Listed[m] /\ assigned \in [Machine -> Seq(Task)]
    BY <1>2, <1>12, ListedType, Zenon DEF Listed, TypeOK
  <2>3. /\ Listed'[m] = Append(Listed[m], t)
        /\ \A n \in Machine : n # m => Listed'[n] = Listed[n]
    BY <1>4, <1>12, <2>1, <2>2, Zenon DEF Listed
  <2>4. Apart'
    BY <1>4, <1>12, <2>1, <2>2, Zenon DEF Publication, Apart
  <2>5. ListsOk'
    <3> SUFFICES ASSUME NEW n \in Machine, NEW i \in DOMAIN Listed'[n]
                 PROVE  /\ taskState[Listed'[n][i]] = TaskOk /\ locations[Listed'[n][i]] = n
                        /\ \A j \in DOMAIN Listed'[n] : Listed'[n][i] = Listed'[n][j] => i = j
                        /\ \A d \in Call : call'[d].task # Listed'[n][i]
      BY <1>4, <2>1, Zenon DEF ListsOk
    <3>1. \A k \in Machine : \A j \in DOMAIN Listed[k] : Listed[k][j] \in Task
      BY <1>2, ListedTask, Zenon
    <3>2. CASE n # m
      BY <1>3, <2>3, <3>1, <3>2, ExecutorAssumption, SMTT(30) DEF Publication, ListsOk, Others
    <3>3. CASE n = m
      <4>1. /\ DOMAIN Listed'[m] = 1..(Len(Listed[m]) + 1) /\ Len(Listed[m]) \in Nat
            /\ DOMAIN Listed[m] = 1..Len(Listed[m])
            /\ Listed'[m][Len(Listed[m]) + 1] = t
            /\ \A j \in DOMAIN Listed[m] : Listed'[m][j] = Listed[m][j]
        BY <2>2, <2>3
      <4>2. CASE i = Len(Listed[m]) + 1
        BY <1>2, <1>3, <1>5, <3>3, <4>1, <4>2, ExecutorAssumption, SMTT(30) DEF Others
      <4>3. CASE i # Len(Listed[m]) + 1
        <5>1. i \in DOMAIN Listed[m] /\ Listed'[m][i] = Listed[m][i] /\ Listed[m][i] # t
          BY <1>5, <3>3, <4>1, <4>3
        <5>2. \A d \in Call : call'[d].task # Listed[m][i]
          BY <1>3, <3>1, <5>1, ExecutorAssumption DEF Publication, ListsOk, Others
        <5>3. ASSUME NEW j \in DOMAIN Listed'[m], Listed'[m][i] = Listed'[m][j] PROVE i = j
          <6>1. j # Len(Listed[m]) + 1
            BY <4>1, <5>1, <5>3, Zenon
          <6>2. j \in DOMAIN Listed[m] /\ Listed'[m][j] = Listed[m][j]
            BY <4>1, <5>3, <6>1
          <6>3. Listed[m][i] = Listed[m][j]
            BY <5>1, <5>3, <6>2, Zenon
          <6>4. \A k \in DOMAIN Listed[m] : Listed[m][i] = Listed[m][k] => i = k
            BY <5>1, Zenon DEF Publication, ListsOk
          <6> QED
            BY <6>2, <6>3, <6>4, Zenon
        <5> QED
          BY <3>3, <5>1, <5>2, <5>3 DEF Publication, ListsOk
      <4> QED
        BY <4>2, <4>3, Zenon
    <3> QED
      BY <3>2, <3>3, Zenon
  <2>6. OkListed'
    <3> SUFFICES ASSUME NEW u \in Task, taskState[u] = TaskOk
                 PROVE  \/ \E d \in Call : call'[d].task = u /\ call'[d].pc = "assign"
                        \/ \E i \in DOMAIN Listed'[locations[u]] : Listed'[locations[u]][i] = u
      BY <1>4, <2>1, Zenon DEF OkListed
    <3>1. /\ DOMAIN Listed'[m] = 1..(Len(Listed[m]) + 1) /\ Len(Listed[m]) \in Nat
          /\ DOMAIN Listed[m] = 1..Len(Listed[m])
          /\ Listed'[m][Len(Listed[m]) + 1] = t
          /\ \A j \in DOMAIN Listed[m] : Listed'[m][j] = Listed[m][j] /\ j \in DOMAIN Listed'[m]
      BY <2>2, <2>3, SMTT(30)
    <3>2. CASE u = t
      <4>1. Len(Listed[m]) + 1 \in DOMAIN Listed'[m]
        BY <3>1, SMTT(30)
      <4> QED
        BY <1>2, <3>1, <3>2, <4>1, Zenon
    <3>3. ASSUME u # t, NEW d \in Call, call[d].task = u, call[d].pc = "assign"
          PROVE  \E e \in Call : call'[e].task = u /\ call'[e].pc = "assign"
      BY <1>0, <1>3, <3>3, Zenon DEF Others
    <3>4. ASSUME NEW i \in DOMAIN Listed[locations[u]], Listed[locations[u]][i] = u
          PROVE  \E j \in DOMAIN Listed'[locations[u]] : Listed'[locations[u]][j] = u
      <4>1. locations[u] \in Machine
        BY Zenon DEF Typed, Located
      <4> QED
        BY <2>3, <3>1, <3>4, <4>1, Zenon
    <3> QED
      BY <3>2, <3>3, <3>4, Zenon DEF Publication, OkListed
  <2> QED
    BY <1>6, <1>8, <1>10, <2>4, <2>5, <2>6, Zenon DEF Publication
<1> QED
  BY <1>11, <1>12, Zenon

=============================================================================
