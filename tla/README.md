# A TLA+ development for bigslice

bigslice computes over large datasets by compiling a *slice* (a lazily
described, sharded dataset) into a graph of *tasks*, evaluating the graph, and
running each task on a machine of a cluster. This directory models the parts
of it that are hard to get right, checks them with TLC on small instances, and
proves the central properties with TLAPS for every instance.

## 1. The system

| part | source | state | operations | how it is treated |
|---|---|---|---|---|
| evaluator | `exec/eval.go` | per call: `todo`, `pending`, `deps`, `counts`, `err`; channels `donec`, `errc` | `Eval`, `Enqueue`, `Return`, `Runnable`, waiting goroutines | **Eval** |
| tasks | `exec/task.go` | `state`, `err`, `consecutiveLost`, waiters, subscribers | `Set`, `Error`, `Wait`, `Broadcast`, `Subscribe` | **TaskState**, **Eval**; subscribers in **Session** |
| local executor | `exec/local.go`, `exec/buffer.go` | buffers, limiter | `Run`, `Reader`, `Discard` | **DataPlane**; its effect on task states in **Eval** |
| bigmachine executor | `exec/bigmachine.go` 1-500 | `locations`, `invocations`, once-maps per machine | `Run`, `compile`, `commit`, `Discard`, `Reader` | **BigmachineExecutor**; `compile` in **Session**, `commit` in **Worker** |
| machine manager | `exec/slicemachine.go` | `need`, `pending`, machines, probation heap, request heap | `Do` loop, `Offer`, cancel, `Done`, start, stop | **MachineManager** |
| worker | `exec/bigmachine.go` 500-1250 | task table, compiled invocations, combiner states | `Compile`, `Run`, `Discard`, `CommitCombiner`, `Read` | **Worker**; the rows of `Run` in **TaskIO** and **DataPlane** |
| combiners | `exec/combiner.go`, `exec/bigmachine.go` 1040-1260 | shared combiners, combining hash table | combine, commit, spill | protocol in **Worker**, table and spills in **Combiner** |
| compiler | `exec/compile.go` | memo table, namer, `CompileEnv` | `compile`, `pipeline` | **Compile**, **Session** |
| stores | `exec/store.go` | committed partitions | `Create`, `Commit`, `Open`, `Discard` | the file store, in **Worker** |
| remote readers | `exec/bigmachine.go` 1260-1533 | offset, retries | open, read, retry, re-evaluate | **Worker** |
| slice status | `exec/slicestatus.go`, `exec/task.go` 160-215 | counts per slice | subscribe, observe | **Session** |
| session | `exec/session.go` | roots, invocation index | `Run`, `Discard` | **Session**; `Result.Scanner` in **DataPlane** |
| slice operators | `slice.go`, `accum.go`, `cogroup.go`, `reduce.go`, `reshuffle.go`, `cache.go` | reader state | `Read` | **SliceOps** |
| sorting and merging | `sortio/` | frame buffers, heap | `SortReader`, merge, `Reduce` | **SortIO**, **SliceOps** |
| slice I/O | `sliceio/` | streams, spill files, scanner | readers, codec, `Scan` | **SliceIO**, **SliceOps** |
| result caches | `internal/slicecache/` | files per shard | lookup, write-through, read | **SliceOps**, **DataPlane**, **Compile**, **Session** |
| frames | `frame/frame.go` | offset, length, capacity | slice, copy, append, grow | **Frames** |
| types, funcs, codecs, metrics, tracing, commands | see section 5 | - | - | not modelled |

How they interact: `Session.Run` compiles an invocation into tasks and calls
`Eval`. `Eval` traverses the graph from the roots, submits the tasks that are
ready to `Executor.Run`, and waits for their states to change. The bigmachine
executor asks a machine manager for a machine, makes sure that the invocation
is compiled and the combiners the task reads are committed there, and calls
the worker. When a machine dies its tasks become `TaskLost`, and the evaluator
resubmits them; a discard makes a completed task lost on purpose. Several
evaluations may share tasks: a result of one run is an argument of another.

The behaviours that make this hard are listed as hazards in `PROJECT.json`,
each at its line.

## 2. Modules

### TaskState, Eval, MCEval; EvalInvariants, EvalProofs, EvalSoloProofs

`TaskState` has the six task states with the values Go gives them (the code
compares them with `<`).

`Eval` models `exec.Eval`, called by any number of *evaluators* on one graph.

* The graph is given by constants: `Head[t]` is the head of `t`'s phase (the
  group of tasks that a shuffle waits for as a whole), `Deps[t]` the heads of
  the phases `t` depends on. `GraphAssumption` says what `compile` guarantees:
  a dependency names a phase head. `AcyclicAssumption` says there are no
  cycles; TLC evaluates both on each instance.
* `Enqueue` reads task states one by one, each under its task's lock, while
  others change them. The traversal is a `Read` step per task and one
  `EnqueueDone` that applies what it wrote to the evaluator's private maps.
  `state.wait`, the memo table, is what makes each task be read at most once
  in a round: `view[e]`.
* `Submit` is one iteration of the loop over `Runnable()`. The goroutine that
  waits for the task inherits the task's lock, so its first look at the state
  is part of the same step. `Wake` is the rest of that goroutine, with the
  bookkeeping of consecutive losses.
* `RunStart`, `RunEnd`, `Lose`, `DiscardStart`, `DiscardEnd` are what an
  executor may do to a task: the contract in the comments of `Executor.Run` and
  of `TaskRunning`. They are guarded accordingly: a run ends a task in progress, and only a
  completed task is lost or discarded. The local executor does just this
  (`Lose` is its `Discard`); for the bigmachine executor see below.
* `wasOk[e]` is a history variable: the tasks that were `TaskOk` at some
  moment of the call. A completed task may be lost again before `Eval`
  returns, so this is what "evaluated" can mean.

Not in the model: the wording of errors, status groups and events, and the
capacity of `donec` (a goroutine blocked on a full channel is one that has not
sent yet).

### MachineManager, MCMachineManager; MachineManagerProofs

`MachineManager` models `machineManager.Do`: one goroutine around one
`select`. An action is one iteration of the loop: the case that was taken, then
the decision to start machines (`StartMachines`), then the head of the next
iteration, which sets the probation timer (`SetTimer`). Its clients are the
calls of `bigmachineExecutor.Run`: each makes one request (`Offer`), takes a
machine (`Deliver`), gives its procs back with the error it met (`Done`), or
stops waiting (`Cancel`), or returns without giving its procs back (`Leak`, the
path on which a combiner could not be committed).

* The request heap is a set with the order `Less`; the head is any minimal
  element. `Cancel` removes the head because the request in the closure is a
  copy whose `index` was never set.
* `machines` is the list in its order, `probation` the machines in the heap, and
  `index` the one field by which `removeMachine` and `heap.Remove` find a machine in
  either. An operation on the heap may give the machines in it any places in
  which the root is one that failed first (`Places`).
* Machines are numbers, used up as they are started; a batch in the making is an
  interval of them. Which machines of a batch boot does not matter, only how
  many.
* Failure times are numbers from a counter, and the timer is *clear*, *armed* or
  *expired* for such a time. `timer.Set` leaves a timer for the same time alone
  even when it has expired.
* Errors are `nil`, `remote` (an error of the called code) and `rpc` (any other):
  the three that the manager tells apart.
* Cancelling the manager's context, and the log message about repeated
  start failures, are left out.

### ExecutorContract, BigmachineExecutor, MCBigmachineExecutor; ExecutorCalls, ExecutorProofs

`ExecutorContract` is the abstract specification that the two sides of an
`Executor` share, on task states alone: a task is submitted when nobody runs it,
its one run settles it, only a completed task is lost or discarded, and only a
lost task is given up on. `Eval` implements it with its own abstract executor
(`FollowsContract`), and `BigmachineExecutor` implements it under the refinement
mapping `runs <- unsettled`, `discarding <- beingDiscarded`, as long as nothing
is discarded (`KeepsContract`). Both refinements are proved (section 4), so what an
evaluator may rely on and what the executor does meet in one specification.

`BigmachineExecutor` has a process per call of `Run`. The steps are the places
where others can act in between: the offer, the outcome of `compile`, the lookup
of each dependency's location, `task.Set(TaskRunning)`, the reply of
`Worker.Run`, and then `setLocation`, `task.Set(TaskOk)` and `m.Assign`, each
under its own lock. A call of `Discard` has four steps. `Die` takes a machine and
its outputs away; `Notice` and `MarkLost` are the end of `sliceMachine.Go`, which
marks the machine's tasks one by one, whatever their state.

* The evaluator is reduced to `Submit` and `GiveUp`. `Submit` asks less than
  `Eval` does: it only looks at task states.
* A worker is the set of outputs it holds. `Worker.Run` succeeds only if it has
  the output, or every input is in its own store or where the request says; it
  may fail at any time, also after it has stored the output.
* A task's partitions are not told apart, tasks with combine keys only appear as
  the failure to commit their combiners, and the program's context is not done.

### Frames, SliceIO, SortIO, SliceOps, Combiner, TaskIO, DataPlane, MCDataPlane

The rows of a job, from the sources to the client's scanner. The first six
modules are the sequential algorithms, written as operators; `DataPlane` is the
state machine that runs jobs with them.

* A *reader* is a record with a kind and its fields. `Read(r, n)` returns rows, an
  error and the reader afterwards; it dispatches on the kind, as a call through
  Go's interface does. Readers nest across packages (a sort reads any reader, a
  cogroup reads sorts), so all `Read` methods are in `SliceOps`, with `Read`
  itself, as one recursion. Go's errors are `nil`, `EOF`, `temp` (temporary or
  of the network), `fatal`, and `lost`.
* A *row* is a pair of a key and a value. `Frames` keeps a frame's window over
  memory with its offset, length and capacity, because growth, appending in
  place and the scratch rows of a combining frame depend on them.
* `SliceIO` has the batches of a stream with their checksums and the places a stream
  may be cut at. `SortIO` has the frame buffers and their heap, the sizes of
  sorted runs, and what rows of one key combine to. `Combiner` has the hash table with its quadratic probe,
  growth and compaction, and the combiner that spills it.
* `SliceOps` has the multi-reader and the scanner, the external sort with its runs,
  the merge and the reducing reader, and a reader per operator. User code is a *script* (rows, how many a
  call returns, how it ends, and whether the end comes with the last rows), or a
  function given as a constant.
* A user's writer may fail at any of its calls, with rows, without, or at the end;
  `callWrite`'s error counts unless the input failed. A cache file may fail to be
  created, written or closed: the write-through reader then returns the error,
  and discards the file only when its input failed. A file has its name once it is closed.
* `TaskIO` has the sinks: buffers of frames (local executor), encoded streams
  per partition and combined streams (worker); and how a task opens its
  dependencies.
* `DataPlane` submits a task when its dependencies are done (what `Eval`
  guarantees), runs it one `Read` at a time under the limiter's tokens, discards
  tasks, crashes and starts again with only the cache files left, and lets
  the client scan while tasks are discarded.

The reference is defined on the rows alone (`RefSource`, `RefApply`, `RefBase`): no
reads, frames, batches or partitions of work.

### Worker, MCWorker; WorkerCalls, WorkerPool, WorkerProofs

`Worker` is the service on one machine. A call of `Run`, `Discard` or
`CommitCombiner` is a goroutine with a program counter; its steps are the places
where it takes or releases a lock or does I/O. The driver has at most one
call per task or combine key outstanding; when a connection breaks (`Drop`), the
call goes on with a done context and nobody to answer to, and another one
starts: that is what `RetryCall` does.

* `key[k].state` is the integer that is a combiner's state up to `combinerIdle`
  and, above that, the number of runs inside it. `pool` has the combiners of a key
  by generation, because a run may hold the channel of a combiner that has been
  written and dropped since.
* `WriterStep` is the goroutine started by `CommitCombiner`.
* A combiner may fail to be made (`Share`), and may fail to spill while it takes a
  run's rows (`Put`): then it goes back to its channel with some of its rows
  lost and perhaps a spill file cut short, which makes writing it fail later.
* A file is created when `Commit` closes it. `Commits` also has the path on which
  the trailer cannot be written, where `Commit` reports success without closing
  the file.
* `OpenAt`, `ReadStream`, `BreakStream` are the retrying reader. `reader.opened` has
  the outputs it opened: a task that was discarded and run again in between may
  store its rows in another order, as the readers of its dependencies are
  shuffled.
* Four history variables say which runs met a race or a fault the code does
  not handle, so that the properties can say precisely what holds otherwise:
  `mixed` (a call that only waited for a run changed the task's state), `late`
  (a delayed duplicate of a discard dropped a newer output), `tainted` (a
  combiner that holds rows of a failed attempt), `unwritten` (a partition whose
  commit was reported and did not happen).

### Compile, Session, MCSession

`Compile` is the compiler as an operator from a slice graph to a task graph:
pipelines, the memo table, names, partitioners, combine keys, Results as
arguments, cache marks. A task keeps the steps of its pipeline instead of the
closure `Do`.

`Session` invokes Funcs, compiles them in the driver, and again on each machine
that is given one of the tasks (`Compile(t)`, all invocations it depends on first),
from the environment that the tasks carry. A run uses the *machine's* task of that
name. Machines are lost with what they store, tasks are discarded, cache files
appear when a pipeline was read to its end, and a monitor counts the states of
the tasks of each slice through a subscription.

* A shard's content is the number of rows and the sum of values per key. The
  reference `Ref` is defined on slices alone.
* The files of a cache are looked up in one step, the loss of a machine marks its
  tasks in one step (`BigmachineExecutor` has these steps one by one), tasks that
  share a machine's combiner store their content per task (`Worker` has the
  sharing), and the limit on consecutive losses is left to `Eval`.

## 3. Runs

| run | instance | shows |
|---|---|---|
| `eval_shuffle` | one evaluator; two tasks over a shuffled phase of two; one loss or discard of a completed task, any number of failed runs below `MaxConsecutiveLost = 2`; cancellation | `Return` never panics; no task is stranded on a waitlist; nil means the roots were computed |
| `eval_concurrent` | two evaluators with the same root over two tasks; same bounds; fair | a task has one run at a time; nothing is dispatched before its dependencies; both evaluations return; evaluators and executor follow `ExecutorContract` |
| `eval_nil_early` | two evaluators over a chain of three | **violation**, see below |
| `manager_pool` | three requests of two priorities, for 1, 3 (capped to 2) and 1 procs; machines of 2 procs, parallelism 3; up to 2 machines that stop or fail to boot; fair | procs, needs and pending starts are accounted for; machines are where their health and their index say; the timer is for the machine that failed first; every request is served |
| `executor_losses` | a task that reads two others; two machines of which one dies; two calls of `Run`; one discard | until the discard, `TaskOk` means the output is where `Run` looks for it or a loss is on its way, and the executor keeps its contract |
| `executor_discard` | one task; three machines of which two die | **violation**, see below |
| `dataplane_rows` | some 310 jobs of two shards and two partitions: sources of 0 to 5 rows with reads of 0, 1 and 2 rows, pipelines of up to two operators, four shuffles, both modes; failing and flaky sources, writers that fail at their first, second or last call; seven states of a cache's files, and caches over failing sources or files that cannot be created, written or closed; one discard, one crash | what a task stores is what its slices mean, combined streams are sorted, the scanner gets every row or an error, cache files under their names are whole, user writers see each row once, errors are neither made up nor lost |
| `dataplane_cut` | a job that reads a cache file cut off before the values of a column | **violation**, see below |
| `worker_calls` | nine workloads over tasks with and without combiners, shared or not; three calls at once; up to two broken connections, two broken streams, a failure and a discard; fair | combiner counts are right, a writer never waits for a combiner under the lock, one goroutine runs a task, nil means stored exactly, a resumed read is exact, every call returns |
| `worker_retry` | a task with its own combiner, one failed read | **violation**, see below |
| `session_graphs` | eight programs on two machines with a loss and a discard, see `MCJobs` | compiled graphs are wired right, every output and cache file has the content its slice means, a task fails for good only after cache files appeared or in an operation pipelined over a cache, the counts of slices converge |
| `session_frozen` | the same programs | **violation**, see below |

Bounds. `MaxLosses` bounds how often completed tasks are lost: each loss can
restart the graph, so without it `Eval` need not return; one loss already makes
a task be rebuilt while its dependents wait. `MaxConsecutiveLost = 2` instead of
5 keeps the same branch structure (below the limit, at the limit). A phase of
two tasks is the smallest on which a count passes through a value other than 0
and 1, two dependents the smallest on which one return decrements several
counts. A run of three-phase graphs with one evaluator (252,000 states) and with
two losses (4 million states) was made while developing the proofs and showed
nothing else.

For the manager, three requests are the fewest that have a head that does not
fit while another waits behind it and a third runs. Two failures allow a batch
to fail in part and a replacement to fail too. `MaxMachines = 5` is more than the
instance ever starts.

For the executor, two calls of `Run` are enough for a stale call to meet a new
one, and two dependencies for one of them to move while the other is looked up.
One machine stays alive, so nobody waits for a machine that cannot come. A chain
of two tasks on three machines of which two die has 530,000 states and shows
nothing else. Machines and calls are interchangeable, hence the symmetry (only safety is
checked).

For rows, chunks and batches of two and tables of two slots make three rows
enough for a buffer that is full exactly, one over and one short, for a table
that grows, for two keys in one slot (the keys 1 and 3) and for two spills. Values
are powers of four, so a sum shows which rows went in and how often.

For the worker, each workload is the smallest with a kind of race: the same call
twice and three times, a failure beside a duplicate, a reader beside a
discard, a read that goes on in an output that was made again with rows
still to come, two runs that share a combiner and a task that reads it. A
workload names its tasks, those that are read by the client, and how many
connections, streams, operations and outputs are broken, fail and are discarded
(`MCLoad`); together in one workload they exceed what can be explored. Output
has up to three rows in two partitions, which is enough for a read to be resumed
at its start, in the middle and at its end.
A combiner is made at most `MaxGen = 3` times; a run that needed another would stay
where it is, and `CallsEnd` shows that none does.
`Full = 2` rows flush a task's own table, so that both a partial and a final flush
happen.

What `ReadExact` leaves out. A reader that has read part of a task's output and
loses it has the task evaluated again and goes on at its offset ("synced to
where we have successfully read so far"). If the task reads several others,
their readers are shuffled on every run, the second output can have the rows in
another order, and the reader then gets some twice and others never.
`ReadExact` excepts exactly that: a task with more than one dependency of
which the reader opened more than one output. (Without the exception TLC
violates it.) For all other tasks the rows are read once each, in the
order of one of the outputs. The model's offset counts rows; in the code it counts
bytes, so that most such reads end in an error of the decoder or of a
batch's checksum instead.

For the session, two machines are enough for one that compiled before and one
that compiles after cache files appear, and are interchangeable.

Fairness. In `Worker`, weak fairness of each call's steps and of the writers: they
are goroutines. Nothing is asked of the driver, of breaking connections or of
failing reads. In `Eval`, `FairSpec` asks weak fairness of each evaluator's loop, of each
waiting goroutine and of each `Executor.Run`/`Discard` call: Go schedules
every runnable goroutine, and the executor's contract is that `Run` returns
with a state of at least `TaskOk`. Nothing is asked of losses, cancellation or
of the caller. In `MachineManager` it asks weak fairness of the end of every
task, of the delivery to each request, of the timer and of batches being
started: the loop's `select` picks at random among ready cases. Nothing is
asked of offers, cancellations, leaks or stops.

What `eval_nil_early` shows. When a task comes back `TaskLost`, `Return` calls
`Enqueue` on it. If another evaluator has resubmitted the task and it has
already completed, `Enqueue` finds it `TaskOk` and does nothing: the waitlists of
its dependents are not decremented, `todo` and `pending` are empty, and `Eval`
returns nil with its root never run. With one evaluator this cannot happen
(proved, below).

What `executor_discard` shows. `Discard` sets `TaskRunning`, releases the lock and
then looks up the location. When the task's machine is lost between
`task.Set(TaskOk)` and `m.Assign`, `Assign` sets `TaskLost` during the discard, and
the task is resubmitted. `Discard` finds the location of the *new* run and drops
its output; the new run then sets `TaskOk`. The task is complete, no machine has
its output, and nothing is left that would mark it as lost: a reader's request
to the worker fails, although the state says that the results are there.

What `dataplane_cut` shows. `Decoder.Decode` returns the end of the stream whenever
gob finds the end of the file before a column, also when the length of
the batch has been read. A cache file that was cut off there by whatever
stores it reads like a whole one, and the task that reads it completes with
rows missing; `StoredExact` and `ScanExact` except such files (`EndsEarly`), and hold for
files cut off elsewhere and for batches with a wrong checksum, which give errors.
The code never leaves a file like that itself (`CacheWhole`).

What `worker_retry` shows. When a run of a task with a combiner of its own fails,
it has perhaps flushed rows into the combiner; the deferred function takes back
its reference and leaves the combiner and its rows in `w.combiners`. The driver
resubmits the task, the same worker finds the combiner idle with those rows,
adds all rows again, commits, and answers nil: the stored output has rows
twice. A combiner that failed to spill goes back in the same way, with rows lost.
The comment on `worker.Run` says that a nil error means that the task's output is
deposited. Tasks with a shared combine key are in the same position
(`CommitMeansStored` excepts `tainted` combiners).

What `session_frozen` shows. `Session.run` freezes the environment after compiling
"to ensure that compilations are consistent", but the tasks hold copies of
the invocation made before. A machine that compiles after cache files appeared
finds shards cached that the driver did not, forgets their dependencies, and
does not know the tasks upstream of them. When such a task is lost or discarded
and sent to that machine, the answer is "task not found", which is fatal. With
`FailsOnlyAfterCache` the run `session_graphs` shows that a task fails for good only
in this way, or in an operation pipelined over a `Cache`, which panics on the
shards whose files exist (section 5), and with `OutExact` that a run that succeeds
is right all the same.

## 4. Proofs

| theorem | for | states |
|---|---|---|
| `EvalProofs!TypeCorrect` | all graphs, all evaluators | `Spec => []TypeOK` |
| `EvalProofs!NoPanic` | all graphs, all evaluators | `Spec => []ReturnNeverPanics` |
| `EvalProofs!OneRun` | all graphs, all evaluators | `Spec => []OneRunPerTask` |
| `EvalProofs!Dispatch` | all graphs, all evaluators | `Spec => []DispatchedAfterDeps` |
| `EvalProofs!EvalFollowsContract` | all graphs, all evaluators | `Spec => FollowsContract` (implements `ExecutorContract`) |
| `EvalSoloProofs!NilMeansEvaluatedSolo` | all graphs, one evaluator | `Spec => []NilMeansEvaluated` |
| `EvalSoloProofs!WaitlistDrainsSolo` | all graphs, one evaluator | `Spec => []WaitlistDrains` |
| `MachineManagerProofs!ManagerTypeCorrect` | all requests, sizes, loads, failures | `Spec => []TypeOK` |
| `MachineManagerProofs!ListsMachines` | the same | `Spec => []MachinesListed` |
| `MachineManagerProofs!AccountsPending` | the same | `Spec => []PendingAccounted` |
| `MachineManagerProofs!TimesOldest` | the same | `Spec => []TimerForOldest` |
| `MachineManagerProofs!AccountsProcs` | the same | `Spec => []ProcsAccounted` |
| `MachineManagerProofs!AccountsNeed` | the same | `Spec => []NeedAccounted` |
| `ExecutorCalls!ExecutorTypeCorrect` | all graphs, machines, calls of `Run`, bounds | `Spec => []TypeOK` |
| `ExecutorProofs!OkIsAvailable` | the same | `Spec => []OkMeansAvailableUntilDiscard` |
| `ExecutorProofs!ExecutorKeepsContract` | the same | `Spec => KeepsContract` (implements `ExecutorContract`) |
| `WorkerProofs!TasksRunOnce` | all workloads, calls, failures | `Spec => []OneRunner` |
| `WorkerProofs!CombinerCounts` | the same | `Spec => []CountsRuns` |
| `WorkerProofs!WriterNeverWaits` | the same | `Spec => []WriterFindsCombiners` |

Eval. The inductive invariants are in `EvalInvariants`.

* `OnePlace`: scheduled and pending are disjoint, and the batch is empty
  outside submission. Without it a task could be scheduled while it is watched.
* `RunInv`: a task in an executor's hands is in progress and not being
  discarded, so `Submit`, which takes only unstarted tasks, adds the only run.
* `SatisfiedInv`: every task that left `TaskInit`, or is scheduled, has had its
  dependencies satisfied; what an evaluator has read stays true enough
  (`SeenInv`) until the round ends.
* `SoloInv`: a task on a waitlist is *parked* (nobody runs it), a scheduled one
  is on no waitlist, every root was `TaskOk` or is outstanding, and each
  positive count is at most the number of outstanding tasks it waits for
  (`Drains`). The counting argument: a return removes one
  outstanding task and takes one off the counts of exactly the tasks that wait
  for its phase; and if nothing is scheduled or pending then a task that waits
  would have to wait for another one that waits, forever, in an acyclic graph
  (`NothingWaits`).
* The refinement of `ExecutorContract` is on the variables that `Eval` shares with
  it. A submission is the abstract one because `RunInv` says that nobody runs an
  unstarted task; the other steps of an evaluator stutter, but for the
  bookkeeping that gives a lost task up.

MachineManager. `ManagerInv` is the conjunction of the types, the pool
(`PoolOK`), the other properties and `FreshBatches`: the machines of a batch being started have not
been seen before, and no machine is in two batches. Without the last part a
batch that boots could list a machine twice, and taking its procs off `pending`
could take off another batch's. Every case of the `select` is shown to keep the
pool right (`ToProbation`, `ToOk`, `ToLost`, `StartPool`, on top of what
`removeMachine` and `append` do to a list); one lemma, `IterateStep`, then shows
that the end of the iteration keeps the rest. `MachinesListed` alone is not
inductive, as list and heap remove by `index`: `PoolOK` adds that a healthy machine's
index is its place in the list (`InPlace`) and that the indices of the machines
on probation differ (`Apart`). Then what is removed at an index is the machine
meant (`RemoveInPlace`, `RemovesOne`).

`ProcsAccounted` and `NeedAccounted` are sums of procs over sets of requests. They
are stated without a sum: `ProcsOf(S)` has a pair of a request and a number for each
proc, and its cardinality is the sum. One lemma, `ProcsAdd`, says that a request
more in the set is its procs more; each case of the `select` moves at most one
request between the sets.

BigmachineExecutor. `ExecutorInv` has two parts.

* `Typed`: the types, what a call knows at each of its steps, and `Located`: a
  task that completed once has a location from then on. Discard relies on
  that, and without it `locations` would not be known to name a machine.
* `Publication`, which holds until something is discarded. `OneCall`: a task has at
  most one call of `Run`. `Phase`: where the call is tells the task's state.
  `ListsOk` and `OkListed`: a machine lists, once each, completed tasks that are located
  there, and a completed task is listed by its machine or has its call just
  before `m.Assign`. `Apart`: a machine that was lost lists nothing but what `Go`
  has yet to mark. `Held`: what a live worker answered for is in its store.
  None of these is inductive alone. A mark of a lost machine hits a task
  whatever its state, and is harmless only because the task is complete, is
  located there and has no call.

`OkMeansAvailableUntilDiscard` follows at once. For the refinement, the number of
runs of a task is the number of its calls that have not set its state; with
`OneCall` and `Phase` that is 1 while the task is waiting or running and 0 otherwise,
and a mark by a lost machine is the abstract loss of a completed task. That the
mapping fails once discards are allowed is what `executor_discard` shows.

Worker. `WorkerInv` is about tasks and the states of combiners, for tasks that no
call which only waited has touched (`mixed`).

* `Shapes`: a call's control point fits its operation. `AfterCompile`: nothing runs
  before the tasks exist.
* `Owned`: the call that runs or discards a task is alone, and the task is
  `TaskRunning` for as long; that is what keeps a duplicate out (`OneRunner`).
* `OneWriter`: a combiner has at most one writer, started or about to be, and then
  its state is `combinerWriting`. `Settled`: the combiner of a task that is complete or
  being discarded is not being written. Without these two a writer's end or a
  discard could reset the state under a run, and `CountsRuns` would fail.

`PoolInv` follows the combiners through their channels: one that is not in its
channel is with the run that took it or with a writer that is still there
(`Held`), and combiners that are in use were made (`Generations`). A writer is started
when the count of runs is zero, so by `CountsRuns` no run is left to hold one, and by
`OneWriter` no other writer is: `WriterFindsCombiners`. It matters because `writeCombiner`
receives from the channels while it holds the worker's lock.

Only model-checked:

* `EvalReturns`, `Served`, `CallsEnd`: liveness under fairness is beyond the prover;
* nothing is proved of `NilMeansEvaluated` and `WaitlistDrains` for several evaluators:
  `eval_nil_early` refutes the first, and its trace leaves a count that nothing
  outstanding brings down;
* `TypeOK` of `Worker`, whose bounds on the states of combiners met by a race are those of
  the instance, and `OkMeansStored`, `CommitMeansStored` and `ReadExact`, which compare the rows
  in files with concatenated, partitioned and sorted sequences: they need
  inductions over the sequences;
* everything about rows and compiled graphs: `DataPlane`, `Compile` and `Session` are
  built from recursive operators, about which the prover cannot reason.

The assumptions of all proofs are the named `ASSUME`s of the modules:
`GraphAssumption` and `AcyclicAssumption` (what `compile` guarantees of a task
graph), the assumptions on bounds, and `ManagerAssumption` (finitely many
requests, sizes that are natural numbers, at least one proc per machine and per
request), `ExecutorAssumption` (dependencies are tasks, "no task" and "no machine" are
neither) and `WorkerAssumption` (tasks and shared combine keys have different
names, a task with a combine key has a combiner, finitely many calls, at
least one partition). `MaxGen` and the other bounds are arbitrary.

## 5. What is not modelled, and what else was met

Not modelled:

* types, type checking, function registration, `slicetype`, `typecheck`: reflection
  over Go types, without state that changes;
* frame operations, codecs of columns, memory layout over unsafe pointers,
  generated code;
* metrics and statistics, tracing, event logs, status display, graph output,
  HTTP handlers, configuration, commands and examples: output, or set once at
  start;
* `Reshard`, `ScanReader` and archives, which are compositions of a shuffle, a reader
  function and a map, and top-n selection for display;
* the in-memory store, which only tests use, and the record counts that the
  trailer of a stored partition holds;
* `Session.Shutdown` and the context of the whole program;
* the liveness of `DataPlane` and `Session`: their jobs terminate in all behaviours TLC
  explores (deadlock is checked), but the temporal check over reader values is out
  of reach.

Behaviour of the code that was met while modelling, that is certain from the
text whenever its case occurs, and that has therefore no run of its own:

* An operation pipelined over a `Cache` whose files exist: the mark that a shard is
  cached belongs to the task, the inner step asks `slicecache.Empty` for its
  reader, and that panics (`exec/compile.go` 331-355). `Compile` has the step
  ("panic"), two jobs of `MCSession` have this shape, and `FailsOnlyAfterCache` names it.
* The cancel function of `Offer` sends a copy of the request whose `index` is always
  0, so `heap.Remove(&m.schedQ, s.index)` takes out the first request, perhaps another
  client's (`exec/slicemachine.go` 497-504). `Cancel` in `MachineManager` does the same, and
  `Served` excepts cancellations. Its only caller cancels when the context of the
  whole program is done.
* The list of tasks of a machine never shrinks, so its loss marks tasks that were
  discarded and run again elsewhere (`exec/slicemachine.go` 205). `MarkLost` in
  `BigmachineExecutor` does the same; it costs another run.
* A shuffle of a Result: the tasks that `compile` makes for it have no number of
  partitions and no partitioner (`exec/compile.go` 232-245).
* `fileWriter.Commit` returns nil when the trailer cannot be written
  (`exec/store.go` 201): in `Worker`, excepted by `unwritten`.
* `bigmachineExecutor.compile` returns with the executor's lock held when an
  invocation cannot be encoded (`exec/bigmachine.go` 206), and the once-map of a
  machine remembers an error of a compilation (313).
* A failed commit of combiners returns without `m.Done` (371): in `MachineManager`
  (`Leak`).
* In the worker, a call that waited for a run and whose context ended marks the
  running task failed (742); a duplicate of a discard that arrives late drops
  newer output; a discard resets the state of a combiner that a run holds.
  `Worker` has these steps, and the histories `mixed` and `late` except them.
* `multiReader.Read` drops rows that come together with an EOF, and
  `FrameBuffer.Fill` takes no rows without an error for the end: none of the
  readers that the repository puts under them returns either, which
  `dataplane_rows` confirms for those modelled.
