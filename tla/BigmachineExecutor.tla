------------------------- MODULE BigmachineExecutor -------------------------
(***************************************************************************)
(* The driver side of the bigmachine executor (exec/bigmachine.go), with   *)
(* the tasks assigned to each machine (exec/slicemachine.go) and the       *)
(* outputs the workers hold.                                               *)
(*                                                                         *)
(* Each call of Run is a process of its own: it is offered a machine,      *)
(* compiles its invocation there, looks up where its dependencies are,     *)
(* calls Worker.Run, and then publishes the outcome in three steps, each   *)
(* under a different lock: the location, the task's state, the machine's   *)
(* list of tasks.  Machines die at any moment; a goroutine per machine     *)
(* then marks its tasks as lost.                                           *)
(***************************************************************************)
EXTENDS TaskState, Sequences, FiniteSets

CONSTANTS
    Task, DepOf,  \* the tasks, and the tasks each one reads
    Machine,
    Call,         \* calls of Run that can be in flight at once
    MaxDeaths,    \* bound: machines that die
    MaxDiscards   \* bound: calls of Discard

VARIABLES
    taskState,  \* Task.state
    call,       \* the calls of Run
    discards,   \* the calls of Discard
    ndiscards,  \* how many there were
    locations,  \* b.locations
    assigned,   \* sliceMachine.tasks
    lost,       \* sliceMachine.lost
    marking,    \* the tasks that sliceMachine.Go has yet to mark as lost
    alive,      \* the machines that run
    held,       \* the outputs each machine's worker has
    deaths      \* how many machines died

machineVars == <<assigned, lost, marking, alive, deaths>>
discardVars == <<discards, ndiscards>>
vars == <<taskState, call, discardVars, locations, machineVars, held>>

NoTask == "no task"
NoMachine == "no machine"

ASSUME ExecutorAssumption ==
    /\ DepOf \in [Task -> SUBSET Task]
    /\ MaxDeaths \in Nat /\ MaxDiscards \in Nat
    /\ NoTask \notin Task /\ NoMachine \notin Machine

Nowhere == [t \in Task |-> NoMachine]
Free == [task |-> NoTask, pc |-> "idle", on |-> NoMachine, src |-> Nowhere]

PCs == {"idle", "offer", "compile", "locate", "start", "run", "replied", "located", "assign"}
Places == [Task -> Machine \cup {NoMachine}]

\* The types of the driver's and the workers' variables.
TypeOK ==
    /\ taskState \in [Task -> TaskStates]
    /\ call \in [Call -> [task : Task \cup {NoTask}, pc : PCs,
                          on : Machine \cup {NoMachine}, src : Places]]
    /\ discards \in SUBSET [task : Task, pc : {"locate", "call", "end"},
                            on : Machine \cup {NoMachine}, n : 1..MaxDiscards]
    /\ \A d \in discards : d.pc = "locate" \/ d.on \in Machine
    /\ ndiscards \in 0..MaxDiscards
    /\ locations \in Places
    /\ assigned \in [Machine -> Seq(Task)] /\ marking \in [Machine -> Seq(Task)]
    /\ lost \in SUBSET Machine /\ alive \in SUBSET Machine
    /\ held \in [Machine -> SUBSET Task]
    /\ deaths \in 0..MaxDeaths

Init ==
    /\ taskState = [t \in Task |-> TaskInit]
    /\ call = [c \in Call |-> Free]
    /\ discards = {} /\ ndiscards = 0
    /\ locations = Nowhere
    /\ assigned = [m \in Machine |-> <<>>] /\ marking = [m \in Machine |-> <<>>]
    /\ lost = {} /\ alive = Machine
    /\ held = [m \in Machine |-> {}]
    /\ deaths = 0

-----------------------------------------------------------------------------
(* The evaluator, which submits tasks that need to be run and whose        *)
(* dependencies are settled, and gives up on tasks lost too often.         *)

Submit(c, t) ==
    /\ call[c] = Free
    /\ taskState[t] \in Unstarted
    /\ \A d \in DepOf[t] : taskState[d] \in {TaskOk, TaskErr}
    /\ taskState' = [taskState EXCEPT ![t] = TaskWaiting]
    /\ call' = [call EXCEPT ![c] = [Free EXCEPT !.task = t, !.pc = "offer"]]
    /\ UNCHANGED <<discardVars, locations, machineVars, held>>

GiveUp(t) ==
    /\ taskState[t] = TaskLost
    /\ taskState' = [taskState EXCEPT ![t] = TaskErr]
    /\ UNCHANGED <<call, discardVars, locations, machineVars, held>>

-----------------------------------------------------------------------------
(* Run.                                                                    *)

\* task.Set: whatever the state was.
Set(t, s) == taskState' = [taskState EXCEPT ![t] = s]

At(c, pc) == call[c].pc = pc
Goto(c, pc) == call' = [call EXCEPT ![c].pc = pc]

\* Run sets the task's last state and returns.
Fail(c, s) ==
    /\ Set(call[c].task, s)
    /\ call' = [call EXCEPT ![c] = Free]

\* m = <-offerc
Offered(c, m) ==
    /\ At(c, "offer")
    /\ m \in alive
    /\ call' = [call EXCEPT ![c].pc = "compile", ![c].on = m]
    /\ UNCHANGED <<taskState, discardVars, locations, machineVars, held>>

CompileNoReturn(c) ==
    /\ At(c, "compile")
    /\ \/ call[c].on \in alive /\ Goto(c, "locate") /\ UNCHANGED taskState
       \/ Set(call[c].task, TaskLost) /\ Goto(c, "locate")
    /\ UNCHANGED <<discardVars, locations, machineVars, held>>

\* b.compile: an error of the machine loses the task, one of the invocation
\* is fatal to it.
Compile(c) ==
    /\ At(c, "compile")
    /\ \/ call[c].on \in alive /\ Goto(c, "locate") /\ UNCHANGED taskState
       \/ \E s \in {TaskErr, TaskLost} : Fail(c, s)
    /\ UNCHANGED <<discardVars, locations, machineVars, held>>

\* The locations of the dependencies go into the request, looked up one by
\* one: some may move in between.
Locate(c) ==
    LET missing == {d \in DepOf[call[c].task] : call[c].src[d] = NoMachine} IN
    /\ At(c, "locate")
    /\ \/ missing = {} /\ Goto(c, "start") /\ UNCHANGED taskState
       \/ \E d \in missing :
            \/ /\ locations[d] # NoMachine
               /\ call' = [call EXCEPT ![c].src[d] = locations[d]]
               /\ UNCHANGED taskState
            \/ locations[d] = NoMachine /\ Fail(c, TaskErr)
    /\ UNCHANGED <<discardVars, locations, machineVars, held>>

\* task.Set(TaskRunning), unless a dependency's combiner cannot be committed.
Start(c) ==
    /\ At(c, "start")
    /\ \/ Set(call[c].task, TaskRunning) /\ Goto(c, "run")
       \/ DepOf[call[c].task] # {} /\ Fail(c, TaskErr)
    /\ UNCHANGED <<discardVars, locations, machineVars, held>>

\* The worker can run the task if it has the output already, or can read the
\* outputs of all dependencies from its own store or from where the request
\* says they are.
CanRun(c) ==
    LET t == call[c].task IN
    /\ call[c].on \in alive
    /\ \/ t \in held[call[c].on]
       \/ \A d \in DepOf[t] : d \in held[call[c].on] \cup held[call[c].src[d]]

Hold(c) == held' = [held EXCEPT ![call[c].on] = @ \cup {call[c].task}]

\* Worker.Run returns nil.
Replied(c) ==
    /\ At(c, "run")
    /\ CanRun(c)
    /\ Hold(c)
    /\ Goto(c, "replied")
    /\ UNCHANGED <<taskState, discardVars, locations, machineVars>>

\* Worker.Run returns an error, fatal or not; the worker may have completed
\* the task all the same.
RunFailed(c) ==
    /\ At(c, "run")
    /\ \E s \in {TaskErr, TaskLost} : Fail(c, s)
    /\ (CanRun(c) /\ Hold(c)) \/ UNCHANGED held
    /\ UNCHANGED <<discardVars, locations, machineVars>>

SetLocation(c) ==
    /\ At(c, "replied")
    /\ locations' = [locations EXCEPT ![call[c].task] = call[c].on]
    /\ Goto(c, "located")
    /\ UNCHANGED <<taskState, discardVars, machineVars, held>>

SetOk(c) ==
    /\ At(c, "located")
    /\ Set(call[c].task, TaskOk)
    /\ Goto(c, "assign")
    /\ UNCHANGED <<discardVars, locations, machineVars, held>>

\* sliceMachine.Assign, the last thing Run does.
AssignAlways(c) ==
    LET m == call[c].on IN
    /\ assigned' = [assigned EXCEPT ![m] = Append(@, call[c].task)]
    /\ UNCHANGED taskState
AssignTask(c) ==
    LET m == call[c].on IN
    \/ m \in lost /\ Set(call[c].task, TaskLost) /\ UNCHANGED assigned
    \/ /\ m \notin lost
       /\ assigned' = [assigned EXCEPT ![m] = Append(@, call[c].task)]
       /\ UNCHANGED taskState

Assign(c) ==
    /\ At(c, "assign")
    /\ AssignTask(c)
    /\ call' = [call EXCEPT ![c] = Free]
    /\ UNCHANGED <<discardVars, locations, lost, marking, alive, deaths, held>>

-----------------------------------------------------------------------------
(* Discard.                                                                *)

DiscardStart(t) ==
    /\ ndiscards < MaxDiscards
    /\ taskState[t] = TaskOk
    /\ Set(t, TaskRunning)
    /\ ndiscards' = ndiscards + 1
    /\ discards' = discards \cup {[task |-> t, pc |-> "locate", on |-> NoMachine,
                                   n |-> ndiscards + 1]}
    /\ UNCHANGED <<call, locations, machineVars, held>>

Advance(d, e) == discards' = (discards \ {d}) \cup {e}

DiscardUnlocated(d) ==
    /\ d.pc = "locate"
    /\ Advance(d, [d EXCEPT !.pc = "call"])
    /\ UNCHANGED <<taskState, call, ndiscards, locations, machineVars, held>>

\* b.location; a completed task has one (TypeOK).
DiscardLocate(d) ==
    /\ d.pc = "locate"
    /\ Advance(d, [d EXCEPT !.pc = "call", !.on = locations[d.task]])
    /\ UNCHANGED <<taskState, call, ndiscards, locations, machineVars, held>>

\* Worker.Discard, or an error that is only logged.
DiscardCall(d) ==
    /\ d.pc = "call"
    /\ Advance(d, [d EXCEPT !.pc = "end"])
    /\ \/ held' = [held EXCEPT ![d.on] = @ \ {d.task}]
       \/ UNCHANGED held
    /\ UNCHANGED <<taskState, call, ndiscards, locations, machineVars>>

DiscardEnd(d) ==
    /\ d.pc = "end"
    /\ discards' = discards \ {d}
    /\ Set(d.task, TaskLost)
    /\ UNCHANGED <<call, ndiscards, locations, machineVars, held>>

-----------------------------------------------------------------------------
(* Machines.                                                               *)

\* The machine is gone, and with it the outputs it had.
Die(m) ==
    /\ m \in alive
    /\ deaths < MaxDeaths
    /\ deaths' = deaths + 1
    /\ alive' = alive \ {m}
    /\ held' = [held EXCEPT ![m] = {}]
    /\ UNCHANGED <<taskState, call, discardVars, locations, assigned, lost, marking>>

\* sliceMachine.Go sees that the machine has stopped, and takes its tasks.
Notice(m) ==
    /\ m \notin alive /\ m \notin lost
    /\ lost' = lost \cup {m}
    /\ marking' = [marking EXCEPT ![m] = assigned[m]]
    /\ assigned' = [assigned EXCEPT ![m] = <<>>]
    /\ UNCHANGED <<taskState, call, discardVars, locations, alive, held, deaths>>

\* It marks them as lost, one by one.
MarkLost(m) ==
    /\ marking[m] # <<>>
    /\ Set(Head(marking[m]), TaskLost)
    /\ marking' = [marking EXCEPT ![m] = Tail(@)]
    /\ UNCHANGED <<call, discardVars, locations, assigned, lost, alive, deaths, held>>

-----------------------------------------------------------------------------

Run(c) ==
    \/ \E m \in Machine : Offered(c, m)
    \/ Compile(c) \/ Locate(c) \/ Start(c) \/ Replied(c) \/ RunFailed(c)
    \/ SetLocation(c) \/ SetOk(c) \/ Assign(c)

Discard(d) == DiscardLocate(d) \/ DiscardCall(d) \/ DiscardEnd(d)

\* All tasks are settled.
Idle ==
    /\ \A t \in Task : taskState[t] \in {TaskOk, TaskErr}
    /\ \A c \in Call : call[c] = Free
    /\ UNCHANGED vars

Next ==
    \/ \E c \in Call : Run(c) \/ \E t \in Task : Submit(c, t)
    \/ \E t \in Task : GiveUp(t) \/ DiscardStart(t)
    \/ \E d \in discards : Discard(d)
    \/ \E m \in Machine : Die(m) \/ Notice(m) \/ MarkLost(m)
    \/ Idle

Spec == Init /\ [][Next]_vars

-----------------------------------------------------------------------------
(* Properties.                                                             *)

In(t, seq) == \E i \in DOMAIN seq : seq[i] = t

\* Something is under way that will set t to TaskLost.
WillBeLost(t) ==
    \/ \E m \in Machine : \/ In(t, marking[m])
                          \/ m \notin alive \cup lost /\ In(t, assigned[m])
    \/ \E c \in Call : /\ call[c].task = t /\ call[c].pc \in {"located", "assign"}
                       /\ call[c].on \notin alive
    \/ \E d \in discards : d.task = t

\* "TaskOk indicates that a task has successfully completed; the task's
\* results are available to dependent tasks": they are on the machine where
\* Run will look for them, unless a loss is being noticed.
OkMeansAvailable ==
    \A t \in Task : taskState[t] = TaskOk =>
        \/ locations[t] # NoMachine /\ t \in held[locations[t]]
        \/ WillBeLost(t)

\* The same as long as nothing has been discarded, however machines die while
\* Run publishes the location, the state and the assignment one by one.
OkMeansAvailableUntilDiscard == ndiscards = 0 => OkMeansAvailable

\* Until something is discarded, the executor keeps the contract that Eval
\* relies on: one run per task, which alone settles it, and losses of
\* completed tasks only.
unsettled == [t \in Task |-> Cardinality({c \in Call : call[c].task = t /\ ~At(c, "assign")})]
beingDiscarded == {d.task : d \in discards}
Contract == INSTANCE ExecutorContract WITH runs <- unsettled, discarding <- beingDiscarded
KeepsContract == Contract!Init /\ [][ndiscards' > 0 \/ Contract!Next]_<<Contract!vars>>
=============================================================================
