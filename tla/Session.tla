------------------------------ MODULE Session ------------------------------
(***************************************************************************)
(* A session (exec/session.go) that runs Funcs, one after another or at    *)
(* the same time, on machines that come and go.                            *)
(*                                                                         *)
(* The driver compiles each invocation once; every machine compiles it     *)
(* again, when it first needs it, and runs tasks of its own graph that     *)
(* the driver names.  The two agree only if their compilations do, while   *)
(* cache files appear under both.  Machines, the evaluator and the worker  *)
(* are modelled in detail elsewhere; here a task is submitted, computed    *)
(* and answered, and a machine is lost at any moment in between.           *)
(*                                                                         *)
(* A shard's content is, for every key, the number of its rows and the sum *)
(* of their values: enough to notice a row that is lost, read twice, sent  *)
(* to the wrong partition or transformed by the wrong operation.           *)
(***************************************************************************)
EXTENDS Compile, TaskState

CONSTANTS
    Jobs,       \* [funcs: slice graphs in the order they are invoked; holds: the
                \* slice each cache prefix belongs to; files: the cache files there
                \* at first; after: the Funcs that returned before each is
                \* invoked; machineCombiners; watch: status is displayed;
                \* losses, discards: bounds on lost machines and discarded tasks]
    Machine,
    None,
    Key         \* the keys of rows, 0..n

VARIABLES
    job,        \* the job of this behaviour
    means,      \* the reference: invocation -> slice -> shard -> content
    invs,       \* the invocations made: roots, env and how Run returned
    tasks,      \* the driver's tasks, by name
    state, loc, \* their states and the machines they were given to
    wrote,      \* tasks whose current run has read all its input
    out,        \* outputs stored, by task, partition and key
    table,      \* machine -> invocation -> the tasks compiled there
    files,      \* cache files and their content
    why,        \* why a task failed
    losses, discards, \* machines that may still be lost, tasks discarded
    mon         \* the monitor of the status of slices

driver == <<means, invs, tasks>>
vars == <<job, means, invs, tasks, state, loc, wrote, out, table, files, why, losses, discards, mon>>

-----------------------------------------------------------------------------
(* What the operations compute. *)

Nothing == [k \in Key |-> <<0, 0>>]
Plus(a, b) == [k \in Key |-> <<a[k][1] + b[k][1], a[k][2] + b[k][2]>>]
Total(contents) == FoldSeq(Plus, Nothing, contents)
\* A combiner leaves one row of each key.
Combined(a) == [k \in Key |-> IF a[k][1] = 0 THEN <<0, 0>> ELSE <<1, a[k][2]>>]
\* defaultPartitioner, and a partitioner of the user's.
PartitionOf(k, num, custom) == ((IF custom THEN k + 1 ELSE k) % num) + 1
Part(a, p, num, custom) ==
    [k \in Key |-> IF PartitionOf(k, num, custom) = p THEN a[k] ELSE <<0, 0>>]

\* What the Reader of slice i returns for a shard, from its dependencies.
Rows(g, i, s, ins) ==
    LET op == g[i].op IN
    CASE op = "const" -> [k \in Key |-> <<k + 1, 10 * i + 3 * s + k>>]
      [] op = "map" -> [k \in Key |-> <<ins[1][k][1], 2 * ins[1][k][2] + ins[1][k][1]>>]
      [] op = "reduce" -> Combined(ins[1])
      [] op = "cogroup" -> Combined(Total([j \in DOMAIN ins |->
                              [k \in Key |-> <<ins[j][k][1], (2 * j + 1) * ins[j][k][2]>>]]))
      [] OTHER -> ins[1]

\* The reference: the content of shard s of slice i of invocation x, defined
\* on slices alone.
RECURSIVE Ref(_, _, _)
Ref(x, i, s) ==
    LET g == job.funcs[x]
        nd == g[i]
        from(j) == IF Shuffle(nd)
                   THEN Total([u \in 1..g[nd.dep[j]].n |->
                          Part(Ref(x, nd.dep[j], u), s, nd.n, CustomPartitioner(nd))])
                   ELSE Ref(x, nd.dep[j], s)
    IN  IF nd.op = "result" THEN Ref(nd.arg, Len(job.funcs[nd.arg]), s)
        ELSE IF nd.op = "readcache"
        THEN Ref(job.holds[nd.arg][1], job.holds[nd.arg][2], s)
        ELSE Rows(g, i, s, [j \in DOMAIN nd.dep |-> from(j)])

\* The content that a cache file ought to have.
Holds(f) == LET h == job.holds[f[1]] IN means[h[1]][h[2]][f[2]]

-----------------------------------------------------------------------------
(* The driver. *)

Roots(x) == Range(invs[x].roots)
Graph(x) == Reach(tasks, Roots(x))
DepTasks(task) == UNION {Range(d.tasks) : d \in Range(task.deps)}
\* The invocations whose Results are arguments of x.
Args(x) == {nd.arg : nd \in {d \in Range(job.funcs[x]) : d.op = "result"}}
Active == {x \in DOMAIN invs : invs[x].run = "running"}

\* The tasks an evaluation has to run: roots that are not done, and what they
\* need (eval.go).
RECURSIVE Needed(_)
Needed(from) ==
    LET more == from \cup UNION {{d \in DepTasks(tasks[t]) : state[d] # TaskOk} : t \in from}
    IN  IF more = from THEN from ELSE Needed(more)
Wanted == Needed({t \in UNION {Roots(x) : x \in Active} : state[t] # TaskOk})

Init ==
    /\ job \in Jobs
    /\ means = [x \in DOMAIN job.funcs |-> [i \in DOMAIN job.funcs[x] |->
                  [s \in 1..job.funcs[x][i].n |-> Ref(x, i, s)]]]
    /\ invs = <<>> /\ tasks = NoMemo /\ state = NoMemo /\ loc = NoMemo /\ out = NoMemo
    /\ why = NoMemo /\ wrote = {}
    /\ table = [m \in Machine |-> NoMemo]
    /\ files = [f \in job.files |-> Holds(f)]
    /\ losses = job.losses /\ discards = job.discards
    /\ mon = [pc |-> "none", inv |-> 0, subs |-> {}, todo |-> {}, reading |-> None,
              last |-> NoMemo, counts |-> NoMemo, changed |-> {}, batch |-> {}]

Compiling(x, env, results) ==
    [g |-> job.funcs[x], inv |-> x, env |-> env, present |-> DOMAIN files,
     machineCombiners |-> job.machineCombiners, results |-> results]

\* A variant that forgets the tasks of earlier invocations.
Replaced(f, names, v) == [t \in names |-> v]
Extended(f, names, v) == [t \in DOMAIN f \cup names |-> IF t \in DOMAIN f THEN f[t] ELSE v]

\* Session.run up to Eval: the Func is invoked, which looks for cache files,
\* and compiled.  The tasks hold a copy of the invocation made before Freeze;
\* they share its map of cached tasks, not the flag that Freeze clears.
Invoke ==
    LET x == Len(invs) + 1
        fresh == [writable |-> TRUE, cached |-> {}]
        results == [y \in DOMAIN invs |-> invs[y].roots]
    IN  /\ x \in DOMAIN job.funcs
        /\ \A y \in job.after[x] : y \in DOMAIN invs /\ invs[y].run = "ok"
        /\ \E r \in {CompileGraph(Compiling(x, fresh, results))} :
             LET new == DOMAIN r.st.tasks IN
             /\ invs' = Append(invs, [roots |-> r.tasks, run |-> "running", present |-> DOMAIN files,
                                      env |-> [fresh EXCEPT !.cached = r.st.cached]])
             /\ tasks' = [t \in DOMAIN tasks \cup new |->
                            IF t \in new THEN r.st.tasks[t] ELSE tasks[t]]
             /\ state' = Extended(state, new, TaskInit)
             /\ loc' = Extended(loc, new, None)
             /\ out' = Extended(out, new, <<>>)
             /\ why' = Extended(why, new, "")
             /\ mon' = IF job.watch /\ mon.pc = "none"
                       THEN [mon EXCEPT !.pc = "start", !.inv = x,
                                        !.todo = Reach(tasks', Range(r.tasks))]
                       ELSE mon
        /\ UNCHANGED <<job, means, wrote, table, files, losses, discards>>

\* Task.Set, Task.Error and Broadcast: subscribers learn of the tasks that changed.
SetState(ts, s) ==
    /\ state' = [t \in DOMAIN state |-> IF t \in ts THEN s ELSE state[t]]
    /\ mon' = [mon EXCEPT !.changed = mon.changed \cup (ts \cap mon.subs)]

\* bigmachineExecutor.Run has a machine for a task whose dependencies are done.
Start(t, m) ==
    /\ state[t] \in Unstarted
    /\ \A d \in DepTasks(tasks[t]) : state[d] = TaskOk
    /\ SetState({t}, TaskRunning)
    /\ loc' = [loc EXCEPT ![t] = m]
    /\ UNCHANGED <<job, driver, wrote, out, table, files, why, losses, discards>>

\* The invocations that must be compiled on a machine before x is.
RECURSIVE Before(_)
Before(x) == {x} \cup UNION {Before(y) : y \in Args(x)}
Uncompiled(t) == Before(t.inv) \ DOMAIN table[loc[t]]

\* The tasks reachable from the roots of an invocation; a variant has the
\* roots alone.
NamedRoots(m, x, r) == [n \in Range(r.tasks) \cap DOMAIN r.st.tasks |-> r.st.tasks[n]]
Named(m, x, r) ==
    LET earlier == UNION {DOMAIN table[m][y].named : y \in Args(x)}
        made(n) == IF n \in DOMAIN r.st.tasks THEN r.st.tasks[n]
                   ELSE table[m][CHOOSE y \in Args(x) : n \in DOMAIN table[m][y].named].named[n]
        all == [n \in DOMAIN r.st.tasks \cup earlier |-> made(n)]
    IN  [n \in Reach(all, Range(r.tasks)) |-> all[n]]

\* bigmachineExecutor.compile and worker.Compile: the next invocation, oldest
\* first, is invoked and compiled on the machine, from the environment that
\* the tasks carry.  The machine knows the tasks reachable from its roots.
Compile(t) ==
    LET m == loc[t]
        x == CHOOSE y \in Uncompiled(t) : \A z \in Uncompiled(t) : y <= z
        results == [y \in DOMAIN table[m] |-> table[m][y].roots]
    IN  /\ state[t] = TaskRunning
        /\ Uncompiled(t) # {}
        /\ \E r \in {CompileGraph(Compiling(x, invs[x].env, results))} :
             table' = [table EXCEPT ![m] = [y \in DOMAIN table[m] \cup {x} |->
                         IF y = x THEN [roots |-> r.tasks, named |-> Named(m, x, r)]
                         ELSE table[m][y]]]
        /\ UNCHANGED <<job, driver, state, loc, wrote, out, files, why, losses, discards, mon>>

-----------------------------------------------------------------------------
(* Running a task on a machine (worker.Run). *)

Ready(t) == state[t] = TaskRunning /\ Uncompiled(t) = {}
Found(t) == t \in DOMAIN table[loc[t]][t.inv].named
Its(t) == table[loc[t]][t.inv].named[t]
Hows(task) == {st.how : st \in Range(task.steps)}
Readable(task) == (\A d \in DepTasks(task) : out[d] # <<>>) /\ "invalid" \notin Hows(task)

\* The readers of the dependencies: the partition of every task, merged.
Input(task, j) ==
    LET d == task.deps[j] IN Total([u \in DOMAIN d.tasks |-> out[d.tasks[u]][d.partition]])

\* Do: the steps of the pipeline.  The result has the content after each step.
RECURSIVE Pipe(_, _, _)
Pipe(task, t, n) ==
    LET g == job.funcs[t.inv]
        st == task.steps[n]
        before == IF n = 1 THEN [j \in DOMAIN task.deps |-> Input(task, j)]
                  ELSE <<Pipe(task, t, n - 1)>>
    IN  IF st.how = "cache"
        THEN files[<<g[st.node].arg, t.shard>>]
        ELSE Rows(g, st.node, t.shard, before)

\* The partitions of the output, combined if they have a combiner; a variant
\* stores the rows as they are.
OutputUncombined(task, t) ==
    LET rows == Pipe(task, t, Len(task.steps))
    IN  [p \in 1..task.num |-> Part(rows, p, task.num, task.part.custom)]
Output(task, t) ==
    LET rows == Pipe(task, t, Len(task.steps))
        part(p) == Part(rows, p, task.num, task.part.custom)
    IN  [p \in 1..task.num |-> IF task.part.combiner THEN Combined(part(p)) ELSE part(p)]

Through(t) == {n \in DOMAIN Its(t).steps : Its(t).steps[n].how = "through"}
\* The path of a shard; a variant counts shards from the next one.
CacheFileNext(t, n) == <<job.funcs[t.inv][Its(t).steps[n].node].arg, 1 + (t.shard % 2)>>
CacheFile(t, n) == <<job.funcs[t.inv][Its(t).steps[n].node].arg, t.shard>>

\* The pipeline is read to its end: the cache files it writes are complete
\* before the task's own output is.
ReadAll(t) ==
    /\ Ready(t) /\ Found(t) /\ t \notin wrote
    /\ Readable(Its(t)) /\ Through(t) # {}
    /\ files' = [f \in DOMAIN files \cup {CacheFile(t, n) : n \in Through(t)} |->
                   IF \E n \in Through(t) : f = CacheFile(t, n)
                   THEN Pipe(Its(t), t, CHOOSE n \in Through(t) : f = CacheFile(t, n))
                   ELSE files[f]]
    /\ wrote' = wrote \cup {t}
    /\ UNCHANGED <<job, driver, state, loc, out, table, why, losses, discards, mon>>

\* The output is stored and the call answered.
Succeed(t) ==
    /\ Ready(t) /\ Found(t) /\ Readable(Its(t)) /\ "panic" \notin Hows(Its(t))
    /\ Through(t) # {} => t \in wrote
    /\ out' = [out EXCEPT ![t] = Output(Its(t), t)]
    /\ SetState({t}, TaskOk)
    /\ wrote' = wrote \ {t}
    /\ UNCHANGED <<job, driver, loc, table, files, why, losses, discards>>

\* An input is gone or a cache is not there: the task is lost and will be
\* submitted again.
FailInput(t) ==
    /\ Ready(t) /\ Found(t) /\ ~Readable(Its(t)) /\ "panic" \notin Hows(Its(t))
    /\ SetState({t}, TaskLost)
    /\ loc' = [loc EXCEPT ![t] = None] /\ wrote' = wrote \ {t}
    /\ UNCHANGED <<job, driver, out, table, files, why, losses, discards>>

\* Errors that are fatal: the machine does not know the task, or its pipeline
\* panics.
FailFatal(t) ==
    /\ Ready(t)
    /\ Found(t) => "panic" \in Hows(Its(t))
    /\ why' = [why EXCEPT ![t] = IF Found(t) THEN "panic" ELSE "not found"]
    /\ SetState({t}, TaskErr)
    /\ UNCHANGED <<job, driver, loc, wrote, out, table, files, losses, discards>>

-----------------------------------------------------------------------------

\* A machine is lost with all it stored; another one takes its place.
Lose(m) ==
    LET gone == {t \in DOMAIN loc : loc[t] = m /\ state[t] \in {TaskRunning, TaskOk}} IN
    /\ losses > 0 /\ losses' = losses - 1
    /\ gone # {}
    /\ SetState(gone, TaskLost)
    /\ loc' = [t \in DOMAIN loc |-> IF t \in gone THEN None ELSE loc[t]]
    /\ out' = [t \in DOMAIN out |-> IF t \in gone THEN <<>> ELSE out[t]]
    /\ wrote' = wrote \ gone
    /\ table' = [table EXCEPT ![m] = NoMemo]
    /\ UNCHANGED <<job, driver, files, why, discards>>

\* Result.Discard, Session.Discard and bigmachineExecutor.Discard of one task.
Discard(t) ==
    /\ discards > 0 /\ discards' = discards - 1
    /\ \E x \in DOMAIN invs : invs[x].run = "ok" /\ t \in Graph(x)
    /\ state[t] = TaskOk
    /\ ~(tasks[t].part.combiner /\ tasks[t].part.key # NoKey)
    /\ SetState({t}, TaskLost)
    /\ loc' = [loc EXCEPT ![t] = None]
    /\ out' = [out EXCEPT ![t] = <<>>]
    /\ UNCHANGED <<job, driver, wrote, table, files, why, losses>>

\* Eval is done: Run returns, and cancels the context of the monitor.
Return(x) ==
    LET bad == \E t \in Graph(x) : state[t] = TaskErr IN
    /\ invs[x].run = "running"
    /\ bad \/ \A t \in Roots(x) : state[t] = TaskOk
    /\ invs' = [invs EXCEPT ![x].run = IF bad THEN "failed" ELSE "ok"]
    /\ UNCHANGED <<job, means, tasks, state, loc, wrote, out, table, files, why, losses, discards, mon>>

-----------------------------------------------------------------------------
(* The monitor of the states of slices (slicestatus.go). *)

\* The slices computed by a task (Task.Slices).
SlicesOf(t) == Range(Pipeline(job.funcs[t.inv], tasks[t].slice))
AllSlices(ts) == UNION {{<<t.inv, i>> : i \in SlicesOf(t)} : t \in ts}
NoCounts == [s \in TaskStates |-> 0]
CountOf(i) == IF i \in DOMAIN mon.counts THEN mon.counts[i] ELSE NoCounts

\* The counts of the slices of t after a change from one state to another.
Counted(t, from, to) ==
    [i \in DOMAIN mon.counts \cup AllSlices({t}) |->
       IF i \notin AllSlices({t}) THEN mon.counts[i]
       ELSE [s \in TaskStates |-> CountOf(i)[s] - (IF s = from THEN 1 ELSE 0)
                                                + (IF s = to THEN 1 ELSE 0)]]
Recorded(t) == [u \in DOMAIN mon.last \cup {t} |-> IF u = t THEN state[t] ELSE mon.last[u]]

\* Subscribe to a task, in the order of iterTasks; then read its state.
Subscribe(t) ==
    /\ mon.pc = "start" /\ mon.reading = None
    /\ mon' = [mon EXCEPT !.subs = mon.subs \cup {t}, !.todo = mon.todo \ {t}, !.reading = t]
    /\ UNCHANGED <<job, driver, state, loc, wrote, out, table, files, why, losses, discards>>

FirstState ==
    /\ mon.reading # None
    /\ mon' = [mon EXCEPT !.last = Recorded(mon.reading),
                          !.counts = Counted(mon.reading, -1, state[mon.reading]),
                          !.reading = None,
                          !.pc = IF mon.todo = {} THEN "observe" ELSE "start"]
    /\ UNCHANGED <<job, driver, state, loc, wrote, out, table, files, why, losses, discards>>

\* sub.Tasks: take the tasks that changed since the last call.
TakeChanged ==
    /\ mon.pc = "observe" /\ mon.batch = {} /\ mon.changed # {}
    /\ mon' = [mon EXCEPT !.batch = mon.changed, !.changed = {}]
    /\ UNCHANGED <<job, driver, state, loc, wrote, out, table, files, why, losses, discards>>

\* Apply the change of a task; a variant does not record the state it counted.
UpdateKeepsLast(t) ==
    /\ mon' = [mon EXCEPT !.batch = mon.batch \ {t}, !.counts = Counted(t, mon.last[t], state[t])]
    /\ UNCHANGED <<job, driver, state, loc, wrote, out, table, files, why, losses, discards>>

Update(t) ==
    /\ mon' = [mon EXCEPT !.batch = mon.batch \ {t}, !.last = Recorded(t),
                          !.counts = Counted(t, mon.last[t], state[t])]
    /\ UNCHANGED <<job, driver, state, loc, wrote, out, table, files, why, losses, discards>>

\* The context is done: the monitor unsubscribes from every task.
StopMonitor ==
    /\ mon.pc = "observe" /\ mon.batch = {}
    /\ invs[mon.inv].run # "running"
    /\ mon' = [mon EXCEPT !.pc = "done", !.subs = {}]
    /\ UNCHANGED <<job, driver, state, loc, wrote, out, table, files, why, losses, discards>>

-----------------------------------------------------------------------------

\* The user's program is over.
Finished ==
    /\ \A x \in DOMAIN invs : invs[x].run # "running"
    /\ Len(invs) = Len(job.funcs) \/ \E x \in DOMAIN invs : invs[x].run = "failed"
    /\ mon.pc \in {"none", "done"}
    /\ UNCHANGED vars

RunTask(t) == Compile(t) \/ ReadAll(t) \/ Succeed(t) \/ FailInput(t) \/ FailFatal(t)
Monitor ==
    \/ \E t \in mon.todo : Subscribe(t)
    \/ FirstState
    \/ TakeChanged
    \/ \E t \in mon.batch : Update(t)
    \/ StopMonitor

Next ==
    \/ Invoke
    \/ \E t \in Wanted, m \in Machine : Start(t, m)
    \/ \E t \in DOMAIN tasks : RunTask(t) \/ Discard(t)
    \/ \E m \in Machine : Lose(m)
    \/ \E x \in DOMAIN invs : Return(x)
    \/ Monitor
    \/ Finished

Spec == Init /\ [][Next]_vars

-----------------------------------------------------------------------------
(* Properties. *)

\* The variables keep their types; a machine only knows tasks that the driver
\* knows by the same name (worker.Compile).
TypeOK ==
    /\ DOMAIN state = DOMAIN tasks /\ DOMAIN loc = DOMAIN tasks /\ DOMAIN out = DOMAIN tasks
    /\ \A t \in DOMAIN tasks : state[t] \in TaskStates /\ loc[t] \in Machine \cup {None}
    /\ \A m \in Machine : \A x \in DOMAIN table[m] : DOMAIN table[m][x].named \subseteq DOMAIN tasks

\* compile wires the graph so that every dependency names a partition that the
\* tasks it reads produce, a narrow one the same shard of the task it reads; a
\* shuffle names all tasks of a phase, whose combiner and combine key are its
\* own; and two phases never share a combine key.
WiredRight ==
    /\ \A t \in DOMAIN tasks : \A d \in Range(tasks[t].deps) :
         /\ \A u \in Range(d.tasks) :
              /\ u \in DOMAIN tasks
              /\ d.partition \in 1..tasks[u].num
              /\ tasks[u].part.key = d.key
         /\ Len(d.tasks) = 1 \/ {u.shard : u \in Range(d.tasks)} = 1..Len(d.tasks)
         /\ tasks[d.tasks[1]].part.num = 0 => d.tasks[1].shard = t.shard
    /\ \A t, u \in DOMAIN tasks :
         (tasks[t].part.key # NoKey /\ tasks[t].part.key = tasks[u].part.key /\ t.inv = u.inv)
            => t.op = u.op

\* Whatever was pipelined, shared, cut at a cache file, lost, discarded or
\* compiled on another machine later: the output of a task that is Ok is, by
\* partition, what the slices of the Func mean.
OutExact ==
    \A t \in DOMAIN tasks : state[t] = TaskOk =>
        LET task == tasks[t]
            all == means[t.inv][task.slice][t.shard]
            part(p) == Part(all, p, task.num, task.part.custom)
        IN  out[t] = [p \in 1..task.num |-> IF task.part.combiner THEN Combined(part(p)) ELSE part(p)]

\* Cache: "the previously computed output".  A cache file, whenever and by
\* whichever attempt it was written, holds its slice's shard.
CacheExact ==
    \A f \in DOMAIN files : files[f] = Holds(f)

\* The cache files of an invocation that appeared after the driver compiled it.
Appeared(x) == {f \in DOMAIN files \ invs[x].present :
                 \E nd \in Range(job.funcs[x]) : Cacheable(nd) /\ nd.arg = f[1]}

\* A slice of t's pipeline is computed from a cache whose file is there.
OverCache(t) ==
    LET g == job.funcs[t.inv]  slices == Pipeline(g, tasks[t].slice) IN
    \E i, j \in DOMAIN slices : i < j /\ ~Cacheable(g[slices[i]]) /\ Cacheable(g[slices[j]])
                                /\ <<g[slices[j]].arg, t.shard>> \in DOMAIN files

\* A task fails for good in two cases, both of them about caches: a machine does
\* not know the task, and then cache files of its invocation appeared after the
\* driver compiled it; or its pipeline panics, and then it has a slice computed
\* from a cache whose file is there (worker.Run; the loop of compile that makes
\* a task's Do).
FailsOnlyAfterCache ==
    \A t \in DOMAIN tasks : state[t] = TaskErr =>
        \/ why[t] = "not found" /\ Appeared(t.inv) # {}
        \/ why[t] = "panic" /\ OverCache(t)

\* session.go: "Freeze the environment to ensure that compilations are
\* consistent (e.g. across workers)".  A machine that compiled an invocation
\* knows every task that the driver may send it.
CompilationsAgree ==
    \A m \in Machine : \A x \in DOMAIN table[m] :
        /\ DOMAIN table[m][x].named = Graph(x)
        /\ \A t \in Graph(x) : table[m][x].named[t].deps = tasks[t].deps

\* When the monitor has no change left to apply, the counts that it displays
\* are those of the tasks' states, though they change while it starts and
\* while it applies a batch of changes.
CountsConverge ==
    (mon.pc = "observe" /\ mon.batch = {} /\ mon.changed = {}) =>
        \A i \in AllSlices(mon.subs) : \A s \in TaskStates :
            mon.counts[i][s] = Cardinality({t \in mon.subs : i \in AllSlices({t}) /\ state[t] = s})
=============================================================================
