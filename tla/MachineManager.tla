--------------------------- MODULE MachineManager ---------------------------
(***************************************************************************)
(* The machine manager of exec/slicemachine.go: one goroutine, Do, that    *)
(* hands machines to scheduling requests (Offer), takes back their procs   *)
(* (Done), starts machines when it has fewer procs than it needs, puts     *)
(* machines on probation after errors, and drops the ones that stop.       *)
(*                                                                         *)
(* Do is a loop around one select.  An action here is one iteration: the   *)
(* case that was taken, then the decision to start machines at the end of  *)
(* the body, then the head of the next iteration, which sets the probation *)
(* timer.  A send on an unbuffered channel and its receipt are one step.   *)
(*                                                                         *)
(* The clients are the calls of bigmachineExecutor.Run.                    *)
(***************************************************************************)
EXTENDS Integers, Sequences, FiniteSets

CONSTANTS
    Request,          \* scheduling requests, one per call of Offer
    Priority, Demand, \* of each request: its priority, the procs its task wants
    Maxprocs,         \* procs of a machine, System().Maxprocs()
    MaxLoad,          \* the share of them tasks may use, in percent
    Parallelism,      \* the session's parallelism
    maxStartMachines, \* machines started in one batch
    MaxFailures,      \* bound: machines that stop or fail to start
    MaxMachines       \* bound: machines ever started

\* newMachineManager: at least one proc per machine; if that had to be forced,
\* the parallelism counts whole machines.
loadProcs == (Maxprocs * MaxLoad) \div 100
machprocs == IF loadProcs < 1 THEN 1 ELSE loadProcs
maxp == IF loadProcs < 1 THEN (Parallelism + Maxprocs - 1) \div Maxprocs ELSE Parallelism

\* bigmachineExecutor.Run asks for no more procs than a machine has.
procs(r) == IF Demand[r] > machprocs THEN machprocs ELSE Demand[r]

Machine == 1..MaxMachines

ASSUME ManagerAssumption ==
    /\ IsFiniteSet(Request)
    /\ Priority \in [Request -> Nat]
    /\ Demand \in [Request -> Nat \ {0}]
    /\ Maxprocs \in Nat \ {0} /\ MaxLoad \in Nat /\ Parallelism \in Nat \ {0}
    /\ maxStartMachines \in Nat \ {0} /\ MaxFailures \in Nat /\ MaxMachines \in Nat

VARIABLES
    req, on,        \* what became of each request, and the machine it got
    schedQ,         \* m.schedQ, as a set: its order is Less
    need, pending,  \* procs asked for; procs of machines being started
    starting,       \* batches of machines being started, named lo..hi
    started,        \* how many machine names are used up
    machines,       \* the list of healthy machines
    probation,      \* the heap of machines on probation, ordered by lastFailure
    index,          \* of each machine: its place in the list or in the heap, from 0
    health,         \* of each machine
    taskProcs,      \* procs of each machine that have tasks
    lastFailure,    \* of each machine: the number of the failure
    clock,          \* how many failures were reported
    probationTimer, \* the timer
    failures        \* how many machines have stopped or failed to start

clientVars == <<req, on>>
poolVars   == <<machines, probation, index, health, lastFailure, clock>>
startVars  == <<pending, starting, started>>
vars       == <<clientVars, schedQ, need, startVars, poolVars, taskProcs,
                probationTimer, failures>>

NoMachine == 0
Clear == [state |-> "clear", at |-> 0]

ReqStates == {"new", "waiting", "running", "done", "cancelled", "leaked"}
Healths   == {"none", "ok", "probation", "lost"}

\* The types of the manager's variables and of the clients.
TypeOK ==
    /\ req \in [Request -> ReqStates]
    /\ on \in [Request -> Machine \cup {NoMachine}]
    /\ schedQ \in SUBSET Request
    /\ need \in Int /\ pending \in Int
    /\ starting \in SUBSET [lo : Machine, hi : Machine]
    /\ started \in 0..MaxMachines
    /\ machines \in Seq(Machine)
    /\ probation \in SUBSET Machine
    /\ index \in [Machine -> Int]
    /\ health \in [Machine -> Healths]
    /\ taskProcs \in [Machine -> Int]
    /\ lastFailure \in [Machine -> Nat] /\ clock \in Nat
    /\ probationTimer \in [state : {"clear", "armed", "expired"}, at : Nat]
    /\ failures \in 0..MaxFailures

Init ==
    /\ req = [r \in Request |-> "new"]
    /\ on = [r \in Request |-> NoMachine]
    /\ schedQ = {}
    /\ need = 0 /\ pending = 0
    /\ starting = {} /\ started = 0
    /\ machines = <<>> /\ probation = {}
    /\ index = [m \in Machine |-> 0]
    /\ health = [m \in Machine |-> "none"]
    /\ taskProcs = [m \in Machine |-> 0]
    /\ lastFailure = [m \in Machine |-> 0] /\ clock = 0
    /\ probationTimer = Clear
    /\ failures = 0

-----------------------------------------------------------------------------
(* The parts of an iteration.                                              *)

\* scheduleRequestQ.Less: priority first, then the larger demand.
Less(r, s) == \/ Priority[r] < Priority[s]
              \/ Priority[r] = Priority[s] /\ procs(r) > procs(s)

\* m.schedQ[0]; the heap's order among equals is not modelled.
IsHead(r) == r \in schedQ /\ \A s \in schedQ : ~Less(s, r)

FitsEmpty(r, m) == procs(r) <= machprocs
Fits(r, m) == procs(r) <= machprocs - taskProcs[m]

\* schedule: the first machine of the list with enough procs to spare.
schedule(r, m) ==
    \E i \in DOMAIN machines :
        /\ machines[i] = m /\ Fits(r, m)
        /\ \A j \in 1..(i - 1) : ~Fits(r, machines[j])

\* removeMachine: the last machine takes the place i of the removed one ...
removeMachineNil(ms, i) ==
    [j \in 1..(Len(ms) - 1) |-> IF j = i + 1 THEN NoMachine ELSE ms[j]]
removeMachine(ms, i) ==
    [j \in 1..(Len(ms) - 1) |-> IF j = i + 1 THEN ms[Len(ms)] ELSE ms[j]]
\* ... and its index, and the removed one has none.
RemovedOnly(m) == [index EXCEPT ![m] = -1]
Removed(m) == [index EXCEPT ![machines[Len(machines)]] = index[m], ![m] = -1]

\* The places that the machines S can have in the probation heap: the root is one
\* that failed first; the order below it is not modelled.
Places(S, failed) ==
    {f \in [S -> 0..(Cardinality(S) - 1)] :
        /\ \A m, n \in S : f[m] = f[n] => m = n
        /\ \A m \in S : f[m] = 0 => \A n \in S : failed[m] <= failed[n]}
\* An operation on the heap gives the machines in it their index, the one field
\* they have for list and heap; that of the others is ix.
Reindex(ix) ==
    \E f \in Places(probation', lastFailure') :
        index' = [m \in Machine |-> IF m \in probation' THEN f[m] ELSE ix[m]]
\* heap.Remove(&probation, m.index)
Others(m) == {n \in probation : index[n] # index[m]}

\* The root of the probation heap.
Oldest(S, failed) == CHOOSE m \in S : \A n \in S : failed[m] <= failed[n]

\* The head of the loop: timer.Clear or timer.Set.  Set leaves a timer alone
\* that is set for the same time, expired or not, and drains one that expired.
SetTimerOnce(t, S, failed) ==
    IF S = {} THEN Clear
    ELSE IF t.state # "clear" THEN t
    ELSE [state |-> "armed", at |-> failed[Oldest(S, failed)]]
SetTimer(t, S, failed) ==
    IF S = {} THEN Clear
    ELSE IF t.state # "clear" /\ t.at = failed[Oldest(S, failed)] THEN t
    ELSE [state |-> "armed", at |-> failed[Oldest(S, failed)]]

\* Machines that together have so many procs.
machinesForFloor(n) == n \div machprocs
machinesFor(n) == (n + machprocs - 1) \div machprocs

\* The end of the loop's body, with p procs and the batches S being started:
\* start machines when fewer procs are there or on their way than are needed.
StartMachines(p, S) ==
    LET have == (Len(machines') + Cardinality(probation')) * machprocs
        wanted == (IF need' < maxp THEN need' ELSE maxp) - have - p
        n == IF wanted <= 0 THEN 0
             ELSE IF machinesFor(wanted) < maxStartMachines THEN machinesFor(wanted)
             ELSE maxStartMachines
        batch == [lo |-> started + 1, hi |-> started + n]
    IN /\ started + n <= MaxMachines
       /\ started' = started + n
       /\ pending' = p + n * machprocs
       /\ starting' = IF n = 0 THEN S ELSE S \cup {batch}

Iterate(p, S, timer) ==
    /\ StartMachines(p, S)
    /\ probationTimer' = SetTimer(timer, probation', lastFailure')

Continue == Iterate(pending, starting, probationTimer)

-----------------------------------------------------------------------------
(* The cases of the select.                                                *)

\* A client's Offer: <-m.schedc.
Offer(r) ==
    /\ req[r] = "new"
    /\ req' = [req EXCEPT ![r] = "waiting"]
    /\ schedQ' = schedQ \cup {r}
    /\ need' = need + procs(r)
    /\ UNCHANGED <<on, poolVars, taskProcs, failures>>
    /\ Continue

\* machc <- mach: the client of the first request takes the machine.
Deliver(r, m) ==
    /\ IsHead(r)
    /\ req[r] = "waiting"
    /\ schedule(r, m)
    /\ req' = [req EXCEPT ![r] = "running"]
    /\ on' = [on EXCEPT ![r] = m]
    /\ schedQ' = schedQ \ {r}
    /\ taskProcs' = [taskProcs EXCEPT ![m] = @ + procs(r)]
    /\ UNCHANGED <<need, poolVars, failures>>
    /\ Continue

\* <-m.unschedc, from a client that no longer waits.  The request in the
\* closure is a copy made before it was queued, so its index is always 0:
\* whatever is first in the queue is removed.
Cancel(r, first) ==
    /\ req[r] = "waiting"
    /\ IsHead(first)
    /\ req' = [req EXCEPT ![r] = "cancelled"]
    /\ schedQ' = schedQ \ {first}
    /\ need' = need - procs(r)
    /\ UNCHANGED <<on, poolVars, taskProcs, failures>>
    /\ Continue

\* Any error but an application's puts the machine on probation.
Errors == {"nil", "remote", "rpc"}

\* <-donec: a client returns its procs, with the error it met.  Of a machine
\* that is lost already only the procs are taken back.
ReturnNeedOne(r) == need - 1
ReturnNeed(r) == need - procs(r)
Done(r, err) ==
    LET m == on[r] IN
    /\ req[r] = "running"
    /\ req' = [req EXCEPT ![r] = "done"]
    /\ need' = ReturnNeed(r)
    /\ taskProcs' = [taskProcs EXCEPT ![m] = @ - procs(r)]
    /\ \/ /\ health[m] = "ok" /\ err = "rpc"
          /\ health' = [health EXCEPT ![m] = "probation"]
          /\ machines' = removeMachine(machines, index[m])
          /\ probation' = probation \cup {m}
          /\ clock' = clock + 1
          /\ lastFailure' = [lastFailure EXCEPT ![m] = clock + 1]
          /\ Reindex(Removed(m))
       \/ /\ health[m] = "probation" /\ err = "nil"
          /\ health' = [health EXCEPT ![m] = "ok"]
          /\ machines' = Append(machines, m)
          /\ probation' = Others(m)
          /\ UNCHANGED <<lastFailure, clock>>
          /\ Reindex([index EXCEPT ![m] = Len(machines)])
       \/ /\ health[m] = "probation" /\ err # "nil"
          /\ clock' = clock + 1
          /\ lastFailure' = [lastFailure EXCEPT ![m] = clock + 1]
          /\ UNCHANGED <<health, machines, probation>>
          /\ Reindex(index)
       \/ /\ health[m] = "lost" \/ (health[m] = "ok" /\ err # "rpc")
          /\ UNCHANGED poolVars
    /\ UNCHANGED <<on, schedQ, failures>>
    /\ Continue

\* Time passes: the timer's channel becomes ready.
TimerExpires ==
    /\ probationTimer.state = "armed"
    /\ probationTimer' = [probationTimer EXCEPT !.state = "expired"]
    /\ UNCHANGED <<clientVars, schedQ, need, startVars, poolVars, taskProcs, failures>>

\* <-probationTimer.C(): the machine that failed first is healthy again.
ProbationTimeout ==
    LET m == Oldest(probation, lastFailure) IN
    /\ probationTimer.state = "expired"
    /\ health' = [health EXCEPT ![m] = "ok"]
    /\ machines' = Append(machines, m)
    /\ probation' = probation \ {m}
    /\ UNCHANGED <<clientVars, schedQ, need, lastFailure, clock, taskProcs, failures>>
    /\ Reindex([index EXCEPT ![m] = Len(machines)])
    /\ Iterate(pending, starting, Clear)

\* <-startc: of a batch b, k machines have started.
BootedOnly(b, k) == pending - machprocs * k
Booted(b, k) == pending - machprocs * (b.hi - b.lo + 1)
StartResult(b, k) ==
    LET booted == b.lo..(b.lo + k - 1)
        failed == (b.hi - b.lo + 1) - k
    IN /\ b \in starting
       /\ booted \subseteq b.lo..b.hi
       /\ failures + failed <= MaxFailures
       /\ failures' = failures + failed
       /\ health' = [m \in Machine |-> IF m \in booted THEN "ok" ELSE health[m]]
       /\ machines' = machines \o [i \in 1..k |-> b.lo + i - 1]
       /\ index' = [m \in Machine |-> IF m \in booted THEN Len(machines) + m - b.lo ELSE index[m]]
       /\ UNCHANGED <<clientVars, schedQ, need, probation, lastFailure, clock, taskProcs>>
       /\ Iterate(Booted(b, k), starting \ {b}, probationTimer)

\* <-stoppedc: the machine is gone.
Stop(m) ==
    /\ health[m] \in {"ok", "probation"}
    /\ failures < MaxFailures
    /\ failures' = failures + 1
    /\ health' = [health EXCEPT ![m] = "lost"]
    /\ UNCHANGED <<clientVars, schedQ, need, lastFailure, clock, taskProcs>>
    /\ \/ /\ health[m] = "ok" /\ machines' = removeMachine(machines, index[m])
          /\ index' = Removed(m) /\ UNCHANGED probation
       \/ /\ health[m] = "probation" /\ probation' = Others(m)
          /\ Reindex([index EXCEPT ![m] = -1]) /\ UNCHANGED machines
    /\ Continue

\* A client that could not commit a combiner returns without calling Done.
Leak(r) ==
    /\ req[r] = "running"
    /\ req' = [req EXCEPT ![r] = "leaked"]
    /\ UNCHANGED <<on, schedQ, need, startVars, poolVars, taskProcs, probationTimer,
                   failures>>

-----------------------------------------------------------------------------

Finish(r) == \E err \in Errors : Done(r, err)
Boot == \E b \in starting : \E k \in 0..(b.hi - b.lo + 1) : StartResult(b, k)

\* Nobody asks for anything any more.
Idle ==
    /\ \A r \in Request : req[r] \in {"done", "cancelled", "leaked"}
    /\ UNCHANGED vars

Next ==
    \/ \E r \in Request : \/ Offer(r) \/ Finish(r) \/ Leak(r)
                          \/ \E m \in Machine : Deliver(r, m)
                          \/ \E first \in Request : Cancel(r, first)
    \/ TimerExpires \/ ProbationTimeout
    \/ Boot
    \/ \E m \in Machine : Stop(m)
    \/ Idle

Spec == Init /\ [][Next]_vars

\* Tasks end, time passes, machines boot or fail to, and the select of a loop
\* that is never short of other events takes every case that stays ready.
FairSpec ==
    /\ Spec
    /\ \A r \in Request : WF_vars(Finish(r)) /\ WF_vars(\E m \in Machine : Deliver(r, m))
    /\ WF_vars(TimerExpires) /\ WF_vars(ProbationTimeout) /\ WF_vars(Boot)

-----------------------------------------------------------------------------
(* Properties.                                                             *)

With(states) == {r \in Request : req[r] \in states}

\* The health of a machine is where the manager keeps it: the list that is
\* scheduled from has each healthy machine once, the heap has those on
\* probation, and a machine that is lost or not yet started is in neither.  Both
\* remove a machine by the one index field it has (removeMachine, heap.Remove).
MachinesListed ==
    /\ \A i, j \in DOMAIN machines : machines[i] = machines[j] => i = j
    /\ {m \in Machine : health[m] = "ok"} = {machines[i] : i \in DOMAIN machines}
    /\ {m \in Machine : health[m] = "probation"} = probation

\* The machines of the batches S.
Booting(S) == {m \in Machine : \E b \in S : m \in b.lo..b.hi}

\* pending counts the procs of exactly the machines whose start has not been
\* reported, however batches overlap and fail: a leak would keep the manager
\* from ever starting machines again.
PendingAccounted == pending = machprocs * Cardinality(Booting(starting))

\* The procs of the requests S, each named by its request and a number.
ProcsOf(S) == {p \in Request \X (1..machprocs) : p[1] \in S /\ p[2] <= procs(p[1])}

\* The procs in use on a machine are those of the requests that run there, or
\* that returned without giving them back, and never more than it has.
RunningOn(m) == {r \in With({"running", "leaked"}) : on[r] = m}
ProcsAccounted ==
    \A m \in Machine : /\ taskProcs[m] = Cardinality(ProcsOf(RunningOn(m)))
                       /\ taskProcs[m] <= machprocs

\* need is the procs of the requests that wait or run, or that returned without
\* giving them back, also after others were cancelled: "Do attempts to maintain
\* at least as many procs as are currently needed".
NeedAccounted == need = Cardinality(ProcsOf(With({"waiting", "running", "leaked"})))

\* A running or expired probation timer is for the machine that failed first,
\* so that no machine leaves probation before its time.
TimerForOldest ==
    /\ probationTimer.state # "clear" => probation # {}
    /\ probation # {} => /\ probationTimer.state # "clear"
                         /\ probationTimer.at = lastFailure[Oldest(probation, lastFailure)]

\* A client that waits is given a machine, unless some client leaked its
\* procs or cancelled: a cancellation may take the place of another client in the
\* queue.
Served ==
    \A r \in Request :
        (req[r] = "waiting") ~> \/ req[r] # "waiting"
                               \/ With({"leaked", "cancelled"}) # {}
=============================================================================
