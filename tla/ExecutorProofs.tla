--------------------------- MODULE ExecutorProofs ---------------------------
(***************************************************************************)
(* Two theorems about module BigmachineExecutor, for every task graph,     *)
(* every number of machines and of calls of Run, and every value of the    *)
(* bounds: a completed task's output is where its readers look, or its     *)
(* loss is under way, until something is discarded; and until then the     *)
(* executor implements ExecutorContract.                                   *)
(***************************************************************************)
EXTENDS ExecutorCalls, FiniteSetTheorems

LEMMA GiveUpPublication ==
    ASSUME Typed, Typed', Publication, NEW t \in Task, GiveUp(t)
    PROVE  Publication'
<1> USE States
<1>1. /\ TypeOK /\ taskState[t] = TaskLost /\ taskState'[t] = TaskErr
      /\ \A u \in Task : u # t => taskState'[u] = taskState[u]
      /\ UNCHANGED <<call, locations, machineVars, held>>
  BY Zenon DEF Typed, TypeOK, GiveUp
<1>2. Listed' = Listed
  BY <1>1, Zenon DEF Listed, machineVars
<1>3. OneCall' /\ Apart'
  BY <1>1, Zenon DEF Publication, OneCall, Apart, machineVars
<1>4. \A u \in Task : taskState[u] = TaskOk <=> taskState'[u] = TaskOk
  BY <1>1, TaskErr # TaskOk, TaskLost # TaskOk, Zenon
<1>5. Phase'
  <2> SUFFICES ASSUME NEW c \in Call PROVE PhaseOf(c)'
    BY Zenon DEF Phase
  <2>1. call[c].pc # "idle" => call[c].task \in Task
    BY Zenon DEF Typed, CallsShaped
  <2>2. PhaseOf(c) /\ call' = call
    BY <1>1, Zenon DEF Publication, Phase
  <2> QED
    BY <1>1, <2>1, <2>2, Zenon DEF PhaseOf
<1>6. ListsOk'
  BY <1>1, <1>2, <1>4, ListedTask, SMTT(30) DEF Publication, ListsOk
<1>7. OkListed'
  BY <1>1, <1>2, <1>4, Zenon DEF Publication, OkListed
<1>8. Held'
  BY <1>1, <1>4, Zenon DEF Publication, Held, HeldFor, HeldOk, machineVars
<1> QED
  BY <1>3, <1>5, <1>6, <1>7, <1>8, Zenon DEF Publication

\* A machine that dies, and the noticing of it.
LEMMA DiePublication ==
    ASSUME Typed, Typed', Publication, NEW m \in Machine, Die(m)
    PROVE  Publication'
<1>1. /\ UNCHANGED <<taskState, call, locations, assigned, lost, marking>>
      /\ alive' = alive \ {m} /\ held' = [held EXCEPT ![m] = {}]
      /\ held \in [Machine -> SUBSET Task] /\ alive \in SUBSET Machine
  BY Zenon DEF Typed, TypeOK, Die
<1>2. Listed' = Listed
  BY <1>1, Zenon DEF Listed
<1>3. \A n \in alive' : n \in alive /\ held'[n] = held[n]
  BY <1>1, Zenon
<1>4. Held'
  BY <1>1, <1>3, Zenon DEF Publication, Held, HeldFor, HeldOk
<1> QED
  BY <1>1, <1>2, <1>4
     DEF Publication, OneCall, Phase, PhaseOf, Apart, ListsOk, OkListed

LEMMA NoticePublication ==
    ASSUME Typed, Typed', Publication, NEW m \in Machine, Notice(m)
    PROVE  Publication'
<1>1. /\ UNCHANGED <<taskState, call, locations, alive, held>>
      /\ m \notin lost /\ lost' = lost \cup {m}
      /\ marking' = [marking EXCEPT ![m] = assigned[m]]
      /\ assigned' = [assigned EXCEPT ![m] = <<>>]
      /\ DOMAIN marking = Machine /\ DOMAIN assigned = Machine
  BY Zenon DEF Typed, TypeOK, Notice
<1>2. Listed' = Listed
  BY <1>1, Zenon DEF Listed
<1>3. Apart'
  BY <1>1, Zenon DEF Publication, Apart
<1> QED
  BY <1>1, <1>2, <1>3, SMTT(30)
     DEF Publication, OneCall, Phase, PhaseOf, ListsOk, OkListed, Held, HeldFor, HeldOk

\* The first task of a lost machine's list is marked.
LEMMA MarkPublication ==
    ASSUME Typed, Typed', Publication, NEW m \in Machine, MarkLost(m)
    PROVE  Publication'
<1> USE States
<1>1. /\ TypeOK /\ UNCHANGED <<call, locations, assigned, lost, alive, held>>
      /\ marking \in [Machine -> Seq(Task)] /\ marking[m] # <<>>
      /\ marking' = [marking EXCEPT ![m] = Tail(@)]
  BY Zenon DEF Typed, TypeOK, MarkLost
<1>2. m \in lost
  BY <1>1, Zenon DEF Publication, Apart
<1>3. /\ Listed[m] \in Seq(Task) /\ Listed[m] = marking[m] /\ Listed'[m] = Tail(Listed[m])
      /\ \A n \in Machine : n # m => Listed'[n] = Listed[n]
  BY <1>1, <1>2, Zenon DEF Listed
<1>4. PICK t \in Task : t = Listed[m][1]
  BY <1>1, <1>3
<1>5. /\ Len(Listed[m]) \in Nat /\ DOMAIN Listed[m] = 1..Len(Listed[m]) /\ Len(Listed[m]) # 0
      /\ DOMAIN Listed'[m] = 1..(Len(Listed[m]) - 1)
      /\ \A i \in DOMAIN Listed'[m] : Listed'[m][i] = Listed[m][i + 1]
  BY <1>1, <1>3
<1>6. taskState[t] = TaskOk /\ locations[t] = m /\ \A c \in Call : call[c].task # t
  BY <1>4, <1>5, SMTT(30) DEF Publication, ListsOk
<1>7. /\ taskState'[t] = TaskLost
      /\ \A u \in Task : u # t => taskState'[u] = taskState[u]
  BY <1>1, <1>3, <1>4, SetTypes DEF MarkLost
<1>8. OneCall' /\ Apart'
  BY <1>1, <1>2, Zenon DEF Publication, OneCall, Apart
<1>9. Phase'
  <2> SUFFICES ASSUME NEW c \in Call PROVE PhaseOf(c)'
    BY Zenon DEF Phase
  <2>1. PhaseOf(c) /\ call' = call /\ (call[c].pc = "idle" \/ call[c].task \in Task \ {t})
    BY <1>1, <1>6, Zenon DEF Typed, CallsShaped, Publication, Phase
  <2> QED
    BY <1>7, <2>1, Zenon DEF PhaseOf
<1>10. Held'
  BY <1>1, <1>6, <1>7, Zenon DEF Publication, Held, HeldFor, HeldOk
<1>11. ListsOk'
  <2> SUFFICES ASSUME NEW n \in Machine, NEW i \in DOMAIN Listed'[n]
               PROVE  /\ taskState'[Listed'[n][i]] = TaskOk /\ locations[Listed'[n][i]] = n
                      /\ \A j \in DOMAIN Listed'[n] : Listed'[n][i] = Listed'[n][j] => i = j
                      /\ \A c \in Call : call[c].task # Listed'[n][i]
    BY <1>1, SMTT(30) DEF ListsOk
  <2>1. \A k \in Machine : \A j \in DOMAIN Listed[k] : Listed[k][j] \in Task
    BY <1>1, ListedTask, Zenon
  <2>2. CASE n # m
    <3>1. Listed'[n] = Listed[n] /\ Listed[n][i] \in Task /\ locations[Listed[n][i]] = n
      BY <1>3, <2>1, <2>2, Zenon DEF Publication, ListsOk
    <3>2. Listed[n][i] # t
      BY <1>6, <2>2, <3>1, Zenon
    <3> QED
      BY <1>7, <3>1, <3>2, SMTT(30) DEF Publication, ListsOk
  <2>3. CASE n = m
    <3>1. \A j \in DOMAIN Listed'[m] : j \in Int /\ j + 1 \in DOMAIN Listed[m] /\ j + 1 # 1
      BY <1>5
    <3>2. 1 \in DOMAIN Listed[m]
      BY <1>5
    <3>3. \A j, k \in DOMAIN Listed[m] : Listed[m][j] = Listed[m][k] => j = k
      BY Zenon DEF Publication, ListsOk
    <3>4. Listed'[m][i] = Listed[m][i + 1] /\ i + 1 \in DOMAIN Listed[m] /\ i \in Int
      BY <1>5, <2>3, <3>1, Zenon
    <3>5. Listed[m][i + 1] \in Task /\ Listed[m][i + 1] # t
      BY <1>4, <2>1, <2>3, <3>1, <3>2, <3>3, <3>4, Zenon
    <3>6. ASSUME NEW j \in DOMAIN Listed'[m], Listed'[m][i] = Listed'[m][j] PROVE i = j
      <4>1. j + 1 \in DOMAIN Listed[m] /\ j \in Int /\ Listed[m][j + 1] = Listed[m][i + 1]
        BY <1>5, <3>1, <3>4, <3>6, Zenon
      <4>2. i + 1 = j + 1
        BY <3>3, <3>4, <4>1, Zenon
      <4> QED
        BY <3>4, <4>1, <4>2
    <3>7. /\ taskState[Listed[m][i + 1]] = TaskOk /\ locations[Listed[m][i + 1]] = m
          /\ \A c \in Call : call[c].task # Listed[m][i + 1]
      BY <3>4, ZenonT(30) DEF Publication, ListsOk
    <3> QED
      BY <1>7, <2>3, <3>4, <3>5, <3>6, <3>7, Zenon
  <2> QED
    BY <2>2, <2>3, Zenon
<1>12. OkListed'
  <2> SUFFICES ASSUME NEW u \in Task, taskState'[u] = TaskOk
               PROVE  \/ \E c \in Call : call[c].task = u /\ call[c].pc = "assign"
                      \/ \E i \in DOMAIN Listed'[locations[u]] : Listed'[locations[u]][i] = u
    BY <1>1, Zenon DEF OkListed
  <2>1. u # t /\ taskState[u] = TaskOk /\ locations[u] \in Machine
    BY <1>7, Zenon DEF Typed, Located
  <2>2. CASE locations[u] # m
    BY <1>3, <2>1, <2>2, Zenon DEF Publication, OkListed
  <2>3. ASSUME locations[u] = m, NEW i \in DOMAIN Listed[m], Listed[m][i] = u
        PROVE  \E j \in DOMAIN Listed'[m] : Listed'[m][j] = u
    <3>1. i # 1
      BY <1>4, <2>1, <2>3, Zenon
    <3>2. i - 1 \in DOMAIN Listed'[m] /\ (i - 1) + 1 = i
      BY <1>5, <2>3, <3>1
    <3>3. Listed'[m][i - 1] = u
      BY <1>5, <2>3, <3>2, Zenon
    <3> QED
      BY <3>2, <3>3, Zenon
  <2> QED
    BY <2>1, <2>2, <2>3, Zenon DEF Publication, OkListed
<1> QED
  BY <1>8, <1>9, <1>10, <1>11, <1>12, Zenon DEF Publication

\* While the count of discards is 0, none has been started.
LEMMA NoneDiscarded ==
    ASSUME Typed, [Next]_vars, ndiscards' = 0
    PROVE  ndiscards = 0 /\ ~(\E t \in Task : DiscardStart(t))
<1>1. \A t \in Task : ~DiscardStart(t)
  BY SMTT(30) DEF DiscardStart, Typed, TypeOK
<1>2. ndiscards' = ndiscards
  BY <1>1, Zenon
     DEF Next, vars, discardVars, Idle, Run, Submit, GiveUp, Discard, Offered, Compile, Locate,
              Start, Replied, RunFailed, SetLocation, SetOk, Assign, DiscardLocate, DiscardCall,
              DiscardEnd, Die, Notice, MarkLost
<1> QED
  BY <1>1, <1>2, Zenon

LEMMA UndiscardedNext == Typed /\ Undiscarded /\ [Next]_vars => Undiscarded'
<1> SUFFICES ASSUME Typed, Undiscarded, [Next]_vars, ndiscards' = 0
             PROVE  discards' = {} /\ Publication'
  BY Zenon DEF Undiscarded
<1>1. Typed'
  BY TypedNext, Zenon
<1>2. ndiscards = 0 /\ ~(\E t \in Task : DiscardStart(t))
  BY NoneDiscarded, Zenon
<1>3. discards = {} /\ Publication
  BY <1>2, Zenon DEF Undiscarded
<1>4. discards' = {}
  BY <1>2, <1>3, Zenon
     DEF Next, vars, discardVars, Idle, Run, Submit, GiveUp, Offered, Compile, Locate,
                Start, Replied, RunFailed, SetLocation, SetOk, Assign, Die, Notice, MarkLost
<1>5. ASSUME UNCHANGED vars PROVE Publication'
  <2>1. UNCHANGED <<taskState, call, locations, assigned, lost, marking, alive, held>>
    BY <1>5, Zenon DEF vars, machineVars
  <2>2. Listed' = Listed
    BY <2>1, Zenon DEF Listed
  <2>3. OneCall' /\ Phase' /\ Apart'
    BY <1>3, <2>1, Zenon DEF Publication, OneCall, Phase, PhaseOf, Apart
  <2>4. ListsOk' /\ OkListed'
    BY <1>3, <2>1, <2>2 DEF Publication, ListsOk, OkListed
  <2>5. Held'
    BY <1>3, <2>1, Zenon DEF Publication, Held, HeldFor, HeldOk
  <2> QED
    BY <2>3, <2>4, <2>5, Zenon DEF Publication
<1>6. Publication'
  BY <1>1, <1>2, <1>3, <1>5, SubmitPublication, RunPublication, AssignPublication,
     GiveUpPublication,
     DiePublication, NoticePublication, MarkPublication, Zenon DEF Next, Idle
<1> QED
  BY <1>4, <1>6, Zenon

-----------------------------------------------------------------------------
LEMMA ExecutorInvariant == Spec => []ExecutorInv
<1>1. Init => ExecutorInv
  BY TypedInit, PublicationInit, Zenon DEF ExecutorInv, Undiscarded, Init
<1>2. ExecutorInv /\ [Next]_vars => ExecutorInv'
  BY TypedNext, UndiscardedNext, Zenon DEF ExecutorInv
<1> QED
  BY <1>1, <1>2, PTL DEF Spec

\* Until something is discarded, a completed task's output is on the machine
\* where Run looks for it, or its loss is under way: the order in which Run
\* publishes the location, the state and the assignment leaves no gap, however
\* machines die in between.
THEOREM OkIsAvailable == Spec => []OkMeansAvailableUntilDiscard
<1>1. ExecutorInv => OkMeansAvailableUntilDiscard
  <2> SUFFICES ASSUME Typed, Publication, NEW t \in Task, taskState[t] = TaskOk
               PROVE  (locations[t] # NoMachine /\ t \in held[locations[t]]) \/ WillBeLost(t)
    BY Zenon DEF ExecutorInv, Undiscarded, OkMeansAvailableUntilDiscard, OkMeansAvailable
  <2>1. locations[t] \in Machine /\ locations[t] # NoMachine
    BY ExecutorAssumption, Zenon DEF Typed, Located
  <2>2. CASE locations[t] \in alive
    BY <2>1, <2>2, Zenon DEF Publication, Held, HeldOk
  <2>3. ASSUME locations[t] \notin alive, NEW c \in Call, call[c].task = t, call[c].pc = "assign"
        PROVE  WillBeLost(t)
    BY <2>3, Zenon DEF Publication, Held, HeldFor, WillBeLost
  <2>4. ASSUME locations[t] \notin alive, \E i \in DOMAIN Listed[locations[t]] : Listed[locations[t]][i] = t
        PROVE  WillBeLost(t)
    BY <2>1, <2>4, Zenon DEF Listed, WillBeLost, In
  <2> QED
    BY <2>2, <2>3, <2>4, Zenon DEF Publication, OkListed
<1> QED
  BY <1>1, ExecutorInvariant, PTL

-----------------------------------------------------------------------------
(* The contract.                                                           *)

Unsettled(t) == {c \in Call : call[c].task = t /\ ~At(c, "assign")}

LEMMA RunsOf == ASSUME NEW t \in Task PROVE unsettled[t] = Cardinality(Unsettled(t))
BY Zenon DEF unsettled, Unsettled

LEMMA NoRun ==
    ASSUME NEW t \in Task, \A c \in Call : call[c].task = t => call[c].pc = "assign"
    PROVE  unsettled[t] = 0
<1>1. Unsettled(t) = {}
  BY Zenon DEF Unsettled, At
<1> QED
  BY <1>1, RunsOf, FS_EmptySet, Zenon

LEMMA OneRun ==
    ASSUME NEW c \in Call, NEW t \in Task, call[c].task = t, call[c].pc # "assign",
           \A d \in Call : d # c => call[d].task # t
    PROVE  unsettled[t] = 1
<1>1. Unsettled(t) = {c}
  BY Zenon DEF Unsettled, At
<1> QED
  BY <1>1, RunsOf, FS_Singleton, Zenon

\* A step of the call c leaves the runs of other tasks alone.
LEMMA OtherRuns ==
    ASSUME NEW c \in Call, Others(c), NEW u \in Task, call[c].task # u, call'[c].task # u
    PROVE  unsettled'[u] = unsettled[u]
<1>1. Unsettled(u)' = Unsettled(u)
  BY Zenon DEF Unsettled, At, Others
<1> QED
  BY <1>1, Zenon DEF unsettled, Unsettled

LEMMA SameRuns ==
    ASSUME NEW c \in Call, Others(c), call'[c].task = call[c].task,
           call[c].pc # "assign", call'[c].pc # "assign"
    PROVE  unsettled' = unsettled
<1>1. \A u \in Task : {d \in Call : call'[d].task = u /\ ~(call'[d].pc = "assign")} =
                     {d \in Call : call[d].task = u /\ ~(call[d].pc = "assign")}
  BY Zenon DEF Others
<1> QED
  BY <1>1, Zenon DEF unsettled, At

LEMMA SettledRun ==
    ASSUME NEW t \in Task, NEW k, unsettled'[t] = k,
           \A u \in Task : u # t => unsettled'[u] = unsettled[u]
    PROVE  unsettled' = [unsettled EXCEPT ![t] = k]
BY Zenon DEF unsettled

\* Steps of the executor as steps of the contract.
LEMMA EndsRun ==
    ASSUME Typed, Publication, Publication', discards = {}, discards' = {},
           NEW c \in Call, call[c].pc \notin {"idle", "assign"}, Others(c),
           call'[c].task = NoTask \/ (call'[c].task = call[c].task /\ call'[c].pc = "assign"),
           NEW s \in {TaskOk, TaskErr, TaskLost}, s = TaskOk => call[c].pc = "located",
           Set(call[c].task, s)
    PROVE  Contract!Next
<1>1. PICK t \in Task : t = call[c].task
  BY OfCall, Zenon
<1>2. PhaseOf(c) /\ call[c].pc \in PCs /\ TypeOK /\ \A d \in Call : d # c => call[d].task # t
  BY <1>1, OfCall, TypedCalls, Zenon DEF Typed
<1>3. unsettled[t] = 1
  BY <1>1, <1>2, OneRun, Zenon
<1>4. unsettled'[t] = 0
  <2>1. \A d \in Call : call'[d].task = t => call'[d].pc = "assign"
    BY <1>1, <1>2, ExecutorAssumption, Zenon DEF Others
  <2>2. {d \in Call : call'[d].task = t /\ ~(call'[d].pc = "assign")} = {}
    BY <2>1, Zenon
  <2>3. unsettled'[t] = Cardinality({d \in Call : call'[d].task = t /\ ~(call'[d].pc = "assign")})
    BY Zenon DEF unsettled, At
  <2> QED
    BY <2>2, <2>3, FS_EmptySet, Zenon
<1>5. \A u \in Task : u # t => unsettled'[u] = unsettled[u]
  BY <1>1, OtherRuns, ExecutorAssumption, Zenon
<1>6. unsettled' = [unsettled EXCEPT ![t] = 0]
  BY <1>4, <1>5, SettledRun, Zenon
<1>7. /\ taskState[t] \in {TaskWaiting, TaskRunning} /\ (s = TaskOk => taskState[t] = TaskRunning)
      /\ taskState' = [taskState EXCEPT ![t] = s]
  BY <1>1, <1>2, Zenon DEF PhaseOf, PCs, Set
<1>8. beingDiscarded = {} /\ beingDiscarded' = {}
  BY Zenon DEF beingDiscarded
<1>9. Contract!RunEnd(t, s)
  BY <1>3, <1>6, <1>7, <1>8, Zenon
     DEF Contract!RunEnd, Contract!InProgress, Contract!TaskWaiting, Contract!TaskRunning,
           Contract!TaskOk,
         TaskWaiting, TaskRunning, TaskOk
<1> QED
  BY <1>9, Zenon
     DEF Contract!Next, Contract!TaskOk, Contract!TaskErr, Contract!TaskLost, TaskOk,
           TaskErr, TaskLost

LEMMA Losing ==
    ASSUME NEW t \in Task, discards = {}, discards' = {}, taskState[t] = TaskOk, Set(t, TaskLost),
           unsettled' = unsettled
    PROVE  Contract!Next
<1>1. Contract!Lose(t)
  BY Zenon
     DEF Contract!Lose, Contract!TaskOk, Contract!TaskLost, TaskOk, TaskLost, Set,
           beingDiscarded
<1> QED
  BY <1>1, Zenon DEF Contract!Next

LEMMA RunContract ==
    ASSUME Typed, Publication, Publication', discards = {}, discards' = {}, NEW c \in Call, Run(c)
    PROVE  Contract!Next \/ UNCHANGED <<taskState, unsettled, beingDiscarded>>
<1>0. call[c].pc # "idle"
  BY Zenon
     DEF Run, Offered, Compile, Locate, Start, Replied, RunFailed, SetLocation, SetOk,
           Assign, At
<1>1. PICK t \in Task : t = call[c].task
  BY <1>0, OfCall, Zenon
<1>2. /\ call \in [Call -> CallRecord] /\ TypeOK
      /\ PhaseOf(c) /\ \A d \in Call : d # c => call[d].task # t
  BY <1>0, <1>1, OfCall, Zenon
<1>3. UNCHANGED beingDiscarded
  BY Zenon DEF beingDiscarded
<1>4. ASSUME NEW s \in {TaskErr, TaskLost}, Fail(c, s), call[c].pc # "assign" PROVE Contract!Next
  <2>1. Others(c) /\ call'[c].task = NoTask
    BY <1>2, <1>4, ReturnEffect, Zenon DEF Fail
  <2> QED
    BY <1>0, <1>4, <2>1, States, EndsRun, Zenon DEF Fail
<1>5. ASSUME NEW m \in Machine, Offered(c, m) PROVE UNCHANGED <<taskState, unsettled>>
  <2>1. /\ Others(c) /\ call'[c].task = call[c].task /\ call[c].pc = "offer"
        /\ call'[c].pc = "compile" /\ UNCHANGED taskState
    BY <1>2, <1>5, OfferEffect, Zenon DEF Offered, At
  <2> QED
    BY <2>1, SameRuns, Zenon
<1>6. ASSUME NEW pc \in PCs, Goto(c, pc), pc # "assign", call[c].pc # "assign" PROVE UNCHANGED unsettled
  <2>1. Others(c) /\ call'[c].task = call[c].task /\ call'[c].pc = pc
    BY <1>2, <1>6, GotoEffect, Zenon
  <2> QED
    BY <1>6, <2>1, SameRuns, Zenon
<1>7. CASE Compile(c)
  BY <1>3, <1>4, <1>6, <1>7, Zenon DEF Compile, At, PCs
<1>8. CASE Locate(c)
  <2>1. CASE Goto(c, "start") /\ UNCHANGED taskState
    BY <1>3, <1>6, <1>8, <2>1, Zenon DEF Locate, At, PCs
  <2>2. ASSUME NEW d \in DepOf[t], call' = [call EXCEPT ![c].src[d] = locations[d]]
        PROVE  UNCHANGED unsettled
    <3>1. d \in Task /\ locations[d] \in Machine \cup {NoMachine}
      BY <1>2, <2>2, ExecutorAssumption, Zenon DEF TypeOK, Places
    <3>2. /\ Others(c) /\ call'[c].task = call[c].task
          /\ call[c].pc = "locate" /\ call'[c].pc = "locate"
      BY <1>2, <1>8, <2>2, <3>1, RequestEffect, Zenon DEF Locate, At
    <3> QED
      BY <3>2, SameRuns, Zenon
  <2>3. CASE Fail(c, TaskErr)
    BY <1>4, <1>8, <2>3, Zenon DEF Locate, At
  <2> QED
    BY <1>1, <1>3, <1>8, <2>1, <2>2, <2>3, Zenon DEF Locate
<1>9. CASE Start(c)
  <2>1. CASE Set(call[c].task, TaskRunning) /\ Goto(c, "run")
    <3>1. call[c].pc = "start" /\ unsettled' = unsettled
      BY <1>6, <1>9, <2>1, Zenon DEF Start, At, PCs
    <3>2. unsettled[t] = 1 /\ taskState[t] = TaskWaiting
      BY <1>1, <1>2, <3>1, OneRun, Zenon DEF PhaseOf
    <3>3. Contract!RunStart(t)
      BY <1>1, <1>3, <2>1, <3>1, <3>2, Zenon
         DEF Contract!RunStart, Contract!TaskWaiting, Contract!TaskRunning, TaskWaiting,
               TaskRunning, Set
    <3> QED
      BY <3>3, Zenon DEF Contract!Next
  <2>2. CASE Fail(c, TaskErr)
    BY <1>4, <1>9, <2>2, Zenon DEF Start, At
  <2> QED
    BY <1>9, <2>1, <2>2, Zenon DEF Start
<1>10. CASE Replied(c)
  BY <1>3, <1>6, <1>10, Zenon DEF Replied, At, PCs
<1>11. CASE RunFailed(c)
  BY <1>4, <1>11, Zenon DEF RunFailed, At
<1>12. CASE SetLocation(c)
  BY <1>3, <1>6, <1>12, Zenon DEF SetLocation, At, PCs
<1>13. CASE SetOk(c)
  <2>1. /\ Others(c) /\ call'[c].task = call[c].task /\ call'[c].pc = "assign"
        /\ call[c].pc = "located" /\ Set(call[c].task, TaskOk)
    BY <1>2, <1>13, GotoEffect, Zenon DEF SetOk, At, PCs
  <2> QED
    BY <1>0, <2>1, EndsRun, Zenon
<1>14. CASE Assign(c)
  <2>1. Others(c) /\ call'[c].task = NoTask /\ call[c].pc = "assign"
    BY <1>2, <1>14, ReturnEffect, Zenon DEF Assign, At
  <2>2. \A u \in Task : {d \in Call : call'[d].task = u /\ ~(call'[d].pc = "assign")} =
                       {d \in Call : call[d].task = u /\ ~(call[d].pc = "assign")}
    BY <2>1, ExecutorAssumption, Zenon DEF Others
  <2>3. unsettled' = unsettled
    BY <2>2, Zenon DEF unsettled, At
  <2>4. CASE Set(call[c].task, TaskLost)
    BY <1>1, <1>2, <2>1, <2>3, <2>4, Losing, Zenon DEF PhaseOf
  <2>5. CASE UNCHANGED taskState
    BY <1>3, <2>3, <2>5, Zenon
  <2> QED
    BY <1>14, <2>4, <2>5, Zenon DEF Assign, AssignTask
<1> QED
  BY <1>3, <1>5, <1>7, <1>8, <1>9, <1>10, <1>11, <1>12, <1>13, <1>14, ZenonT(30) DEF Run

LEMMA StepContract ==
    ExecutorInv /\ ExecutorInv' /\ [Next]_vars => [ndiscards' > 0 \/ Contract!Next]_<<Contract!vars>>
<1> SUFFICES ASSUME ExecutorInv, ExecutorInv', [Next]_vars, ~(ndiscards' > 0)
             PROVE  Contract!Next \/ UNCHANGED <<taskState, unsettled, beingDiscarded>>
  BY Zenon DEF Contract!vars
<1>1. ndiscards' = 0 /\ Typed /\ Typed'
  BY DEF ExecutorInv, Typed, TypeOK
<1>2. discards' = {} /\ Publication'
  BY <1>1, Zenon DEF ExecutorInv, Undiscarded
<1>3. ndiscards = 0
  BY <1>1, NoneDiscarded, Zenon
<1>4. discards = {} /\ Publication
  BY <1>3, Zenon DEF ExecutorInv, Undiscarded
<1>5. ASSUME call' = call PROVE unsettled' = unsettled
  BY <1>5, Zenon DEF unsettled, At
<1>6. UNCHANGED beingDiscarded
  BY <1>2, <1>4, Zenon DEF beingDiscarded
<1>7. ASSUME NEW c \in Call, NEW t \in Task, Submit(c, t) PROVE Contract!Next
  <2>1. /\ Others(c) /\ call[c].pc = "idle" /\ call[c].task = NoTask
        /\ call'[c].pc = "offer" /\ call'[c].task = t
    BY <1>1, <1>7, TypedCalls, SubmitEffect, Zenon DEF Typed
  <2>2. taskState[t] \in {TaskInit, TaskLost}
    BY <1>7, Zenon DEF Submit, Unstarted
  <2>3. \A d \in Call : call[d].task # t
    BY <1>1, <1>4, <2>1, <2>2, States, ExecutorAssumption
       DEF Typed, TypeOK, CallsShaped, Publication, Phase, PhaseOf, PCs
  <2>4. unsettled[t] = 0
    BY <2>3, NoRun, Zenon
  <2>5. unsettled'[t] = 1
    <3>1. {d \in Call : call'[d].task = t /\ ~(call'[d].pc = "assign")} = {c}
      BY <2>1, <2>3, Zenon DEF Others
    <3>2. unsettled'[t] = Cardinality({d \in Call : call'[d].task = t /\ ~(call'[d].pc = "assign")})
      BY Zenon DEF unsettled, At
    <3> QED
      BY <3>1, <3>2, FS_Singleton, Zenon
  <2>6. \A u \in Task : u # t => unsettled'[u] = unsettled[u]
    BY <2>1, OtherRuns, ExecutorAssumption, Zenon
  <2>7. unsettled' = [unsettled EXCEPT ![t] = 1]
    BY <2>5, <2>6, SettledRun, Zenon
  <2>8. Contract!Submit(t)
    BY <1>6, <1>7, <2>2, <2>4, <2>7, Zenon
       DEF Submit, Contract!Submit, Contract!Unstarted, Contract!TaskInit, Contract!TaskLost,
           Contract!TaskWaiting, TaskInit, TaskLost, TaskWaiting
  <2> QED
    BY <2>8, Zenon DEF Contract!Next
<1>8. ASSUME NEW t \in Task, GiveUp(t) PROVE Contract!Next
  <2>1. Contract!GiveUp(t)
    BY <1>5, <1>6, <1>8, Zenon
       DEF GiveUp, Contract!GiveUp, Contract!TaskLost, Contract!TaskErr, TaskLost, TaskErr
  <2> QED
    BY <2>1, Zenon DEF Contract!Next
<1>9. ASSUME NEW m \in Machine, MarkLost(m) PROVE Contract!Next
  <2>1. Listed[m] = marking[m] /\ marking[m] # <<>> /\ marking[m] \in Seq(Task)
    BY <1>1, <1>4, <1>9, Zenon DEF Typed, TypeOK, MarkLost, Publication, Apart, Listed
  <2>2. 1 \in DOMAIN Listed[m] /\ Listed[m][1] = Head(marking[m]) /\ Head(marking[m]) \in Task
    BY <2>1
  <2>3. taskState[Head(marking[m])] = TaskOk
    BY <1>4, <2>2 DEF Publication, ListsOk
  <2> QED
    BY <1>2, <1>4, <1>5, <1>9, <2>2, <2>3, Losing, ZenonT(30) DEF MarkLost
<1>10. ASSUME NEW m \in Machine, Die(m) \/ Notice(m) PROVE UNCHANGED <<taskState, unsettled>>
  BY <1>5, <1>10, Zenon DEF Die, Notice
<1>11. ASSUME UNCHANGED vars PROVE UNCHANGED <<taskState, unsettled>>
  BY <1>5, <1>11, Zenon DEF vars
<1>12. ~(\E t \in Task : DiscardStart(t))
  BY <1>1, <1>3 DEF DiscardStart
<1> QED
  BY <1>1, <1>2, <1>4, <1>6, <1>7, <1>8, <1>9, <1>10, <1>11, <1>12, RunContract, ZenonT(30)
     DEF Next, Idle

\* Until something is discarded, the bigmachine executor implements the
\* contract that Eval relies on: each step of Run, of the evaluator and of a
\* machine's loss is a step of ExecutorContract or changes nothing of it.
THEOREM ExecutorKeepsContract == Spec => KeepsContract
<1>1. Init => Contract!Init
  <2> SUFFICES ASSUME Init PROVE Contract!Init
    BY Zenon
  <2>1. \A t \in Task : {c \in Call : call[c].task = t /\ ~(call[c].pc = "assign")} = {}
    BY FreeRecord, ExecutorAssumption, Zenon DEF Init
  <2>2. \A t \in Task : Cardinality({c \in Call : call[c].task = t /\ ~(call[c].pc = "assign")}) = 0
    BY <2>1, FS_EmptySet, Zenon
  <2>3. unsettled = [t \in Task |-> 0]
    BY <2>2, Zenon DEF unsettled, At
  <2> QED
    BY <2>3, Zenon DEF Init, Contract!Init, Contract!TaskInit, TaskInit, beingDiscarded
<1> QED
  BY <1>1, ExecutorInvariant, StepContract, PTL DEF Spec, KeepsContract

=============================================================================
