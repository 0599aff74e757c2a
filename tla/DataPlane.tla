----------------------------- MODULE DataPlane ------------------------------
(***************************************************************************)
(* The rows of a job from its source to its reader.  A job has a first     *)
(* stage, one task per shard, which runs a source and a pipeline of        *)
(* operators and partitions its output; a second stage, one task per       *)
(* partition, which runs a shuffling operator and a pipeline over it; and  *)
(* a client that scans the result.  Tasks run as in exec/local.go; a job   *)
(* of mode "worker" moves its rows as worker.Run does.  The evaluator is   *)
(* reduced to what it guarantees: a task is submitted when its             *)
(* dependencies are computed (module Eval).                                *)
(***************************************************************************)
EXTENDS TaskIO, TaskState, FiniteSets

CONSTANTS NumShard, NumPart,
          Jobs,             \* the jobs to run
          Procs,            \* Session.p: the tokens of the limiter
          MaxDiscards, MaxCrashes

ASSUME DataPlaneAssumption ==
  /\ NumShard \in Nat \ {0} /\ NumPart \in Nat \ {0} /\ Procs \in Nat \ {0}
  /\ ChunkSize \in Nat \ {0} /\ PartSize \in Nat \ {0} /\ SpillBatchSize \in Nat \ {0}

VARIABLES
  job,        \* the job of this behaviour
  state,      \* Task.state
  out,        \* localExecutor.buffers, or the worker's store: what a task kept
  run,        \* the reader and the sink of a task that runs
  avail,      \* tokens in the limiter
  effects,    \* what a finished task's readers did besides returning rows
  disk,       \* cache files: shard -> stream
  cached,     \* shards found cached when the job was compiled
  scan,       \* the client: its scanner, the rows it got, where it is
  discards, crashes, attempts
vars == <<job, state, out, run, avail, effects, disk, cached, scan,
          discards, crashes, attempts>>

Tasks == ({1} \X (1..NumShard)) \cup ({2} \X (1..NumPart))
Deps(t) == IF t[1] = 1 THEN {} ELSE {1} \X (1..NumShard)

None == <<>>

-----------------------------------------------------------------------------
(* The compiled job *)

Sink(t) ==
  IF job.mode = "local" THEN "buffer"
  ELSE IF t[1] = 1 /\ job.base = "reduce" THEN "combine" ELSE "stream"
NumPartition(t) == IF t[1] = 1 THEN NumPart ELSE 1
NumOut(t) == IF t[1] = 2 /\ [o |-> "scan"] \in ToSet(job.top) THEN 0 ELSE 2

\* Reader of a slice over the reader of the slice it is pipelined with.
Apply(r, op) ==
  CASE op.o = "map" -> Map(r)
    [] op.o = "filter" -> Filter(r)
    [] op.o = "flatmap" -> Flatmap(r)
    [] op.o = "head" -> HeadSlice(r, op.n)
    [] op.o = "writer" -> WriterFunc(r, op.werr, op.at)
    [] op.o = "scan" -> ScanSlice(r)
    [] op.o = "cache" -> Writethrough(r, op.fault)

\* The source of shard s; a flaky one ends its first attempt too early.
Source(s) ==
  IF job.src.kind = "const" THEN ConstReader(job.src.rows, NumShard, s - 1)
  ELSE ReaderFunc([job.src.script[s] EXCEPT
         !.end = IF job.flaky /\ attempts[<<1, s>>] = 0 THEN "temp" ELSE @])

\* The operators of the first stage; cache files fail at the first attempt.
Ops(s) ==
  [i \in DOMAIN job.ops |->
    IF job.ops[i].o # "cache" THEN job.ops[i]
    ELSE [o |-> "cache", fault |-> IF attempts[<<1, s>>] = 0 THEN job.fault ELSE "none"]]

\* Task.Do.
Do(t, ins) ==
  IF t[1] = 1
  THEN IF t[2] \in cached THEN CacheReader(disk[t[2]])
       ELSE FoldLeft(Apply, Source(t[2]), Ops(t[2]))
  ELSE FoldLeft(Apply, CASE job.base = "reduce" -> ReduceSlice(ins)
                         [] job.base = "fold" -> Fold(Head(ins))
                         [] job.base = "cogroup" -> Cogroup(ins)
                         [] job.base = "reshuffle" -> Reshuffle(ins), job.top)

\* localExecutor.Reader.
Reader(t, p) == IF out[t] = None THEN ErrReader("lost") ELSE Open(Sink(t), out[t].parts, p)

\* The readers of a task's dependencies; a cogroup has the first stage as
\* both of its dependencies.
In(t) ==
  LET dep == DepReaders(Sink(<<1, 1>>),
                        [s \in 1..NumShard |-> Reader(<<1, s>>, t[2])],
                        job.base = "reduce", job.base = "reduce")
  IN IF t[1] = 1 THEN [err |-> "nil", ins |-> <<>>]
     ELSE IF job.base = "cogroup" THEN [dep EXCEPT !.ins = @ \o @] ELSE dep

\* NewFileShardCache and RequireAllCached: the shards with a file, or none
\* unless all have one.
Lookup(files) ==
  LET found == {s \in 1..NumShard : files[s] # None}
      caches == \E i \in DOMAIN job.ops : job.ops[i].o = "cache"
  IN IF ~caches \/ (~job.partial /\ found # 1..NumShard) THEN {} ELSE found

-----------------------------------------------------------------------------

Idle == [at |-> "idle", s |-> None, rows |-> <<>>]

Init ==
  /\ job \in Jobs
  /\ state = [t \in Tasks |-> TaskInit]
  /\ out = [t \in Tasks |-> None] /\ run = [t \in Tasks |-> None]
  /\ effects = [t \in Tasks |-> None]
  /\ avail = Procs
  /\ disk = [s \in 1..NumShard |-> job.disk[s]]
  /\ cached = Lookup([s \in 1..NumShard |-> job.disk[s]])
  /\ scan = Idle /\ discards = 0 /\ crashes = 0
  /\ attempts = [t \in Tasks |-> 0]

Roots == {2} \X (1..NumPart)

\* The evaluator hands the task to the executor, as long as it evaluates.
Submit(t) ==
  /\ scan.at = "idle"
  /\ state[t] \in {TaskInit, TaskLost}
  /\ \E r \in Roots : state[r] # TaskOk
  /\ \A d \in Deps(t) : state[d] = TaskOk
  /\ \A u \in Tasks : state[u] # TaskErr
  /\ state' = [state EXCEPT ![t] = TaskWaiting]
  /\ UNCHANGED <<job, out, run, avail, effects, disk, cached, scan, discards, crashes, attempts>>

\* Mutant: an exclusive task takes one token.
TokensOne(t) == 1

Tokens(t) == IF job.exclusive /\ t[1] = 1 THEN Procs ELSE 1

\* localExecutor.Run up to its first read of output: tokens, dependencies,
\* TaskRunning.  Dependencies that cannot be read lose the task.
Start(t) ==
  /\ state[t] = TaskWaiting /\ avail >= Tokens(t)
  /\ \E in \in {In(t)} : LET ok == in.err = "nil" IN
     /\ avail' = IF ok THEN avail - Tokens(t) ELSE avail
     /\ state' = [state EXCEPT ![t] = IF ok THEN TaskRunning ELSE TaskLost]
     /\ run' = [run EXCEPT ![t] =
          IF ok THEN [rd |-> Do(t, in.ins), parts |-> NewSink(Sink(t), NumPartition(t))]
          ELSE None]
  /\ UNCHANGED <<job, out, effects, disk, cached, scan, discards, crashes, attempts>>

\* The reader of kind k in the pipeline of r, if there is one.
RECURSIVE Pipelined(_, _)
Pipelined(r, k) ==
  CASE r.k = k -> <<r>>
    [] r.k # k /\ r.k \in {"map", "filter", "flatmap", "head", "writer", "scan", "through"} ->
         Pipelined(r.in, k)
    [] OTHER -> None

Effects(r) == Pipelined(r, "writer") \o Pipelined(r, "scan")

\* The file a write-through reader has just closed.
DiskAfter(t, r) ==
  LET w == Pipelined(r, "through")
  IN IF w # None /\ w[1].file = "closed" THEN [disk EXCEPT ![t[2]] = w[1].stream] ELSE disk

\* One turn of the loop of bufferOutput, or of worker.Run, and at the end
\* the rest of Run: the output is kept, or the error decides the state.
Step(t) == state[t] = TaskRunning /\ \E x \in {Read(run[t].rd, ChunkSize)} :
  LET parts == Put(Sink(t), run[t].parts, x.rows)
      over  == x.err # "nil" \/ NumOut(t) = 0
      kept  == IF NumOut(t) = 0 THEN <<>> ELSE Finish(Sink(t), parts)
      end   == IF x.err \in {"nil", "EOF"} THEN TaskOk
               ELSE IF x.err = "fatal" THEN TaskErr ELSE TaskLost
  IN /\ disk' = DiskAfter(t, x.rd)
     /\ IF ~over
        THEN /\ run' = [run EXCEPT ![t] = [rd |-> x.rd, parts |-> parts]]
             /\ UNCHANGED <<state, out, effects, avail, attempts>>
        ELSE /\ run' = [run EXCEPT ![t] = None]
             /\ state' = [state EXCEPT ![t] = end]
             /\ out' = IF end = TaskOk THEN [out EXCEPT ![t] = [parts |-> kept]] ELSE out
             /\ effects' = [effects EXCEPT ![t] = Effects(x.rd)]
             /\ avail' = avail + Tokens(t)
             /\ attempts' = [attempts EXCEPT ![t] = Min({@ + 1, 1})]
     /\ UNCHANGED <<job, cached, scan, discards, crashes>>

\* localExecutor.Discard.
Discard(t) ==
  /\ job.mode = "local" /\ job.faults /\ discards < MaxDiscards
  /\ state[t] = TaskOk
  /\ out' = [out EXCEPT ![t] = None]
  /\ state' = [state EXCEPT ![t] = TaskLost]
  /\ discards' = discards + 1
  /\ UNCHANGED <<job, run, avail, effects, disk, cached, scan, crashes, attempts>>

\* The process ends and the job is run again: only cache files remain.
Crash ==
  /\ job.faults /\ crashes < MaxCrashes /\ scan.at = "idle"
  /\ crashes' = crashes + 1
  /\ state' = [t \in Tasks |-> TaskInit]
  /\ out' = [t \in Tasks |-> None] /\ run' = [t \in Tasks |-> None]
  /\ effects' = [t \in Tasks |-> None]
  /\ avail' = Procs
  /\ cached' = Lookup(disk)
  /\ scan' = Idle
  /\ UNCHANGED <<job, disk, discards, attempts>>

\* Eval and Run return.
RunReturns ==
  /\ scan.at = "idle" /\ \A r \in Roots : state[r] = TaskOk
  /\ scan' = [scan EXCEPT !.at = "ready"]
  /\ UNCHANGED <<job, state, out, run, avail, effects, disk, cached, discards, crashes, attempts>>

\* Result.Scanner: all readers are opened at once, and read one after the
\* other.
OpenScan ==
  /\ scan.at = "ready"
  /\ scan' = [scan EXCEPT !.at = "scanning",
       !.s = NewScanner(MultiReader([p \in 1..NumPart |-> Reader(<<2, p>>, 1)]))]
  /\ UNCHANGED <<job, state, out, run, avail, effects, disk, cached, discards, crashes, attempts>>

\* Scanner.Scanv of n rows.
Scanned(n) ==
  /\ scan.at = "scanning"
  /\ \E x \in {Scanv(scan.s, n, ChunkSize)} :
       scan' = [at |-> IF x.ok THEN "scanning" ELSE "done",
                s |-> x.s, rows |-> scan.rows \o x.rows]
  /\ UNCHANGED <<job, state, out, run, avail, effects, disk, cached, discards, crashes, attempts>>

\* The evaluation failed, or the client is done.
Finished ==
  /\ scan.at = "done" \/ \E t \in Tasks : state[t] = TaskErr
  /\ UNCHANGED vars

Next ==
  \/ \E t \in Tasks : Submit(t) \/ Start(t) \/ Step(t) \/ Discard(t)
  \/ Crash \/ RunReturns \/ OpenScan \/ Finished
  \/ \E n \in 1..2 : Scanned(n)

Spec == Init /\ [][Next]_vars
-----------------------------------------------------------------------------
(* What the rows should be *)

RefSource(s) ==
  IF job.src.kind = "user" THEN job.src.script[s].rows
  ELSE IF s = 1 THEN job.src.rows ELSE <<>>
RefApply(rows, op) ==
  CASE op.o = "map" -> [i \in DOMAIN rows |-> MapFn(rows[i])]
    [] op.o = "filter" -> SelectSeq(rows, Pred)
    [] op.o = "flatmap" -> FlattenSeq([i \in DOMAIN rows |-> FlatFn(rows[i])])
    [] op.o = "head" -> First(rows, op.n)
    [] OTHER -> rows
RefOps(rows, ops) == FoldLeft(RefApply, rows, ops)

RefShard(s) == RefOps(RefSource(s), job.ops)
RefRows == FlattenSeq([s \in 1..NumShard |-> RefShard(s)])

\* One row per key, with its values combined.
Values(rows, k) ==
  LET of == SelectSeq(rows, LAMBDA row : row[1] = k)
  IN [i \in DOMAIN of |-> of[i][2]]
GroupBy(rows, Of(_)) ==
  LET keys == SetToSortSeq({rows[i][1] : i \in DOMAIN rows}, <)
  IN [i \in DOMAIN keys |-> <<keys[i], Of(Values(rows, keys[i]))>>]
Summed(vs) == FoldLeft(Combiner, Head(vs), Tail(vs))
Folded(vs) == FoldLeft(FoldFn, 0, vs)
Twice(vs)  == <<vs, vs>>

RefBase(p) ==
  LET rows == RowsFor(RefRows, p, NumPart)
  IN CASE job.base = "reduce" -> GroupBy(rows, Summed)
       [] job.base = "fold" -> GroupBy(rows, Folded)
       [] job.base = "cogroup" -> GroupBy(rows, Twice)
       [] job.base = "reshuffle" -> rows

\* The rows task t should leave in its partition p.
RefOut(t, p) ==
  IF t[1] = 2 THEN RefOps(RefBase(t[2]), job.top)
  ELSE LET rows == RowsFor(RefShard(t[2]), p, NumPart)
       IN IF Sink(t) = "combine" THEN GroupBy(rows, Summed) ELSE rows

\* Rows as a bag; the values of a cogroup's row are in no order.
Grouped(t) == t[1] = 2 /\ job.base = "cogroup"
Unordered(t, rows) ==
  ToBag([i \in DOMAIN rows |->
    IF ~Grouped(t) THEN rows[i]
    ELSE <<rows[i][1], [j \in DOMAIN rows[i][2] |-> ToBag(rows[i][2][j])]>>])

Stored(t, p) ==
  LET part == out[t].parts[p]
  IN FlattenSeq([i \in DOMAIN part |->
       IF Sink(t) = "buffer" THEN Rows(part[i]) ELSE part[i].rows])

OpsOf(t) == IF t[1] = 1 THEN job.ops ELSE job.top
Cut(ops, i) == \E j \in DOMAIN ops : j > i /\ ops[j].o = "head"

-----------------------------------------------------------------------------
(* Properties *)

\* Types; a task has a reader and a sink exactly while it runs, and the tokens
\* missing from the limiter are those of the running tasks (localExecutor.Run).
TypeOK ==
  /\ state \in [Tasks -> TaskStates]
  /\ avail \in 0..Procs /\ cached \subseteq 1..NumShard
  /\ scan.at \in {"idle", "ready", "scanning", "done"}
  /\ \A t \in Tasks : run[t] # None <=> state[t] = TaskRunning
  /\ LET running == {t \in Tasks : state[t] = TaskRunning}
     IN avail = Procs - IF job.exclusive /\ \E t \in running : t[1] = 1
                        THEN Procs ELSE Cardinality(running)

\* A task reads a cache file that was cut off before the values of a column:
\* decodingReader takes that for the end of the stream (EOFIsGraceful).
EndsEarly == \E s \in cached : \E i \in DOMAIN disk[s] : disk[s][i].cut = "column"

\* What sliceio says of EOF: "it signals a graceful end of output. If output
\* terminates unexpectedly, a different error should be returned."  A task that
\* reads a cache file cut off inside a batch does not end as if it were whole.
EOFIsGraceful ==
  \A t \in {1} \X cached : state[t] = TaskOk =>
    \A i \in DOMAIN disk[t[2]] : disk[t[2]][i].cut = "none"

\* What a task leaves in its executor is, in each partition, what its slices
\* say of the rows they were given, whatever the sizes of the reads: through
\* buffers and encoded streams, combining tables, spills and merges
\* (bufferOutput; worker.Run; runCombine; reduce, fold, cogroup readers), and
\* from cache files, damaged ones included, but for the cut of EndsEarly.
StoredExact ==
  \A t \in Tasks : out[t] # None /\ (t[1] = 2 \/ job.src.kind = "user") /\ ~EndsEarly =>
    \A p \in DOMAIN out[t].parts : Unordered(t, Stored(t, p)) = Unordered(t, RefOut(t, p))

\* The streams of combined tasks hold each key once, in order: the merge of
\* sortio.Reduce takes that for granted.
CombinedSorted ==
  \A t \in Tasks : Sink(t) = "combine" /\ out[t] # None =>
    \A p \in DOMAIN out[t].parts :
      LET rows == Stored(t, p)
      IN \A i \in 2..Len(rows) : rows[i - 1][1] < rows[i][1]

\* The client never gets a row the job does not have, and when it sees the
\* end without an error it got all of them (Result.Scanner over all shards);
\* but for the cut of EndsEarly.
ScanExact ==
  LET Rows2(rows) == Unordered(<<2, 1>>, rows)
      want == Rows2(FlattenSeq([p \in 1..NumPart |-> RefOut(<<2, p>>, 1)]))
  IN NumOut(<<2, 1>>) # 0 /\ ~EndsEarly =>
       /\ Rows2(scan.rows) \sqsubseteq want
       /\ scan.at = "done" /\ ScanErr(scan.s) = "nil" => Rows2(scan.rows) = want


\* A cache file that has its name holds its whole shard: whether the process
\* crashed while it was written, the source failed, for good or for a time, or
\* the file could not be created, written or closed (writethroughReader.Read).
\* Damage to files that were there before is the environment's.
Damaged == \E s \in 1..NumShard : \E i \in DOMAIN job.disk[s] :
             DecodeErr(job.disk[s][i]) # "nil"
CacheWhole ==
  ~Damaged => \A s \in 1..NumShard : disk[s] # None =>
    FlattenSeq([i \in DOMAIN disk[s] |-> disk[s][i].rows]) = RefShard(s)

\* The user's writer of a task that is done saw each row once and, unless a
\* Head above it stopped reading, the end once and last; a scan function saw
\* its whole shard.
EffectsExact ==
  \A t \in Tasks : state[t] = TaskOk /\ t \notin {1} \X cached =>
    \A i \in DOMAIN OpsOf(t) : LET op == OpsOf(t)[i] IN op.o \in {"writer", "scan"} =>
      LET want == RefOps(IF t[1] = 1 THEN RefSource(t[2]) ELSE RefBase(t[2]),
                         SubSeq(OpsOf(t), 1, i - 1))
          r    == SelectSeq(effects[t], LAMBDA e : e.k = op.o)[1]
          log  == r.log
          rows == IF op.o = "scan" THEN r.seen
                  ELSE FlattenSeq([j \in DOMAIN log |-> log[j].rows])
      IN IF Cut(OpsOf(t), i) THEN Unordered(t, rows) \sqsubseteq Unordered(t, want)
         ELSE /\ Unordered(t, rows) = Unordered(t, want)
              /\ op.o = "writer" => \A j \in DOMAIN log : log[j].err = "EOF" <=> j = Len(log)

\* A task fails for good exactly when the user's code does, in the middle of
\* the rows or at their end: its error is neither made up nor lost on the way
\* through the readers (the readers of slice.go; Run of both executors).
Answered(w) ==
  IF w.at = 0 THEN \E j \in DOMAIN w.log : w.log[j].err = "EOF" ELSE w.at \in DOMAIN w.log
Fatal(t) ==
  \/ t[1] = 1 /\ job.src.kind = "user" /\ job.src.script[t[2]].end = "fatal"
  \/ \E i \in DOMAIN effects[t] :
       effects[t][i].k = "writer" /\ effects[t][i].werr = "fatal" /\ Answered(effects[t][i])
ErrorsExact ==
  \A t \in Tasks :
    /\ state[t] = TaskErr => Fatal(t)
    /\ state[t] = TaskOk /\ ~Cut(OpsOf(t), 0) /\ t \notin {1} \X cached => ~Fatal(t)

=============================================================================
