------------------------------ MODULE Compile ------------------------------
(***************************************************************************)
(* The compiler of exec/compile.go: a graph of slices becomes a graph of   *)
(* tasks.                                                                  *)
(*                                                                         *)
(* A slice graph is a sequence of nodes, each naming its operation, the    *)
(* nodes it depends on (of smaller index), its number of shards and an     *)
(* argument: the prefix of a cache's files, or the invocation whose Result *)
(* the slice is.  The last node is the slice that the Func returns.  A     *)
(* task keeps, in place of the closure Do, the steps of its pipeline from  *)
(* the inside out.                                                         *)
(***************************************************************************)
EXTENDS Integers, Sequences, SequencesExt, FiniteSets

NoKey == <<>>

-----------------------------------------------------------------------------
(* The slices (slice.go, reduce.go, cogroup.go, reshuffle.go, cache.go). *)

Slice(op, dep, n, arg) == [op |-> op, dep |-> dep, n |-> n, arg |-> arg]

\* Dep.Shuffle, Dep.Partitioner, Dep.Expand and Combiner of a slice.
Shuffle(nd) == nd.op \in {"reshuffle", "repartition", "reduce", "cogroup"}
CustomPartitioner(nd) == nd.op = "repartition"
Expand(nd) == nd.op = "reduce"
HasCombiner(nd) == nd.op = "reduce"
\* The pragma ExperimentalMaterialize.
Materialize(nd) == nd.op = "materialize"
Cacheable(nd) == nd.op \in {"cache", "cachepartial"}

\* NewFileShardCache with RequireAllCached: the shards of a cache that may be
\* read.  Cache and ReadCache want all of them, CachePartial takes what is there.
ShardIsCached(nd, present) ==
    LET there == {s \in 1..nd.n : <<nd.arg, s>> \in present} IN
    IF nd.op = "cachepartial" \/ there = 1..nd.n THEN there ELSE {}

-----------------------------------------------------------------------------
(* The compiler. *)

\* pipeline: the slices that are computed together, up to a shuffle, a
\* materialized slice, several dependencies or the result of another run.
RECURSIVE Pipeline(_, _)
Pipeline(g, i) ==
    LET nd == g[i] IN
    IF nd.op = "result" THEN <<>>
    ELSE IF Len(nd.dep) # 1 \/ Shuffle(nd) \/ Materialize(g[nd.dep[1]]) THEN <<i>>
    ELSE <<i>> \o Pipeline(g, nd.dep[1])

NoPartitioner == [num |-> 0, custom |-> FALSE, combiner |-> FALSE, key |-> NoKey]
IsShuffle(part) == part.num # 0
NumPartition(part) == IF part.num = 0 THEN 1 ELSE part.num

\* taskNamer.New: the name is numbered from its second use on.
Used(names, base) == IF base \in DOMAIN names THEN names[base] ELSE 0
NewName(names, base) == <<base, Used(names, base)>>
Minted(names, base) ==
    [b \in DOMAIN names \cup {base} |-> IF b = base THEN Used(names, base) + 1 ELSE names[b]]

With(f, names, task(_)) == [x \in DOMAIN f \cup names |-> IF x \in names THEN task(x) ELSE f[x]]

\* CompileEnv: the cached shards found by this compilation are marked while
\* the environment is writable.
MarkCached(c, cached, nd, names) ==
    IF c.env.writable /\ Cacheable(nd)
    THEN cached \cup {names[s] : s \in ShardIsCached(nd, c.present)} ELSE cached

\* How a slice of the pipeline is read.  The cached mark belongs to the task:
\* once a slice set it, the slices around it read "their" cache too.
How(c, nd, s, marked) ==
    LET file == IF s \in ShardIsCached(nd, c.present) THEN "cache" ELSE "invalid" IN
    CASE Cacheable(nd) -> IF marked THEN file ELSE "through"
      [] marked -> "panic"
      [] nd.op = "readcache" -> file
      [] OTHER -> "read"

\* One slice of the loop that builds Do.
BuildStep(c, i, names, do, marks) ==
    [cached |-> marks,
     do |-> [s \in DOMAIN names |->
               LET marked == names[s] \in marks
                   step == [node |-> i, how |-> How(c, c.g[i], s, marked)]
               IN  IF marked THEN <<step>> ELSE Append(do[s], step)]]

\* The loop, from the last slice of the pipeline to the first.
Build(c, slices, names, cached) ==
    FoldRight(LAMBDA i, acc : BuildStep(c, i, names, acc.do, MarkCached(c, acc.cached, c.g[i], names)),
              slices, [cached |-> cached, do |-> [s \in DOMAIN names |-> <<>>]])

\* The tasks that reshuffle the result of a previous run.  They get neither a
\* number of partitions nor a partitioner.
CompileResult(c, i, part, st) ==
    LET old == c.results[c.g[i].arg]
        base == <<"shuffle", old[1].op>>
        names == [s \in DOMAIN old |-> [inv |-> c.inv, op |-> NewName(st.names, base), shard |-> s]]
        task(x) == [slice |-> i, num |-> 0, part |-> part, steps |-> <<[node |-> i, how |-> "first"]>>,
                    deps |-> <<[tasks |-> <<old[x.shard]>>, partition |-> 1, expand |-> FALSE, key |-> NoKey]>>]
    IN  IF ~IsShuffle(part) THEN [tasks |-> old, st |-> st]
        ELSE [tasks |-> names,
              st |-> [st EXCEPT !.names = Minted(st.names, base),
                                !.tasks = With(st.tasks, Range(names), task)]]

\* The partitioning that a slice asks of its dependencies.
DepPartitioner(c, nd, n, op) ==
    IF ~Shuffle(nd) THEN NoPartitioner
    ELSE [num |-> n, custom |-> CustomPartitioner(nd), combiner |-> HasCombiner(nd),
          key |-> IF HasCombiner(nd) /\ c.machineCombiners THEN op ELSE NoKey]

\* A narrow dependency gives each shard its counterpart, a shuffle gives shard
\* s partition s of all tasks.
AddDep(nd, deps, key, sub) ==
    LET dep(s) == [tasks |-> IF Shuffle(nd) THEN sub.tasks ELSE <<sub.tasks[s]>>,
                   partition |-> IF Shuffle(nd) THEN s ELSE 1, expand |-> Expand(nd), key |-> key]
    IN  [deps |-> [s \in DOMAIN deps |-> Append(deps[s], dep(s))], st |-> sub.st]

\* The tasks of a pipeline, dependencies and Do included.  A cached shard
\* forgets its dependencies.
MakeTasks(i, part, names, subs, built) ==
    LET task(x) == [slice |-> i, num |-> NumPartition(part), part |-> part,
                    steps |-> built.do[x.shard],
                    deps |-> IF x \in built.cached THEN <<>> ELSE subs.deps[x.shard]]
    IN  [tasks |-> names,
         st |-> [subs.st EXCEPT !.cached = built.cached,
                                !.tasks = With(subs.st.tasks, Range(names), task)]]

BuildTasks(c, i, part, slices, names, subs) ==
    MakeTasks(i, part, names, subs, Build(c, slices, names, subs.st.cached))

Memoized(key, r) ==
    [r EXCEPT !.st.memo = [k \in DOMAIN r.st.memo \cup {key} |->
                             IF k = key THEN r.tasks ELSE r.st.memo[k]]]

RECURSIVE CompileSlice(_, _, _, _)

\* The tasks that the last slice of a pipeline depends on.
CompileDeps(c, nd, n, op, deps, st) ==
    LET part == DepPartitioner(c, nd, n, op) IN
    FoldLeft(LAMBDA acc, d : AddDep(nd, acc.deps, part.key, CompileSlice(c, d, part, acc.st)),
             [deps |-> deps, st |-> st], nd.dep)

CompilePipeline(c, i, part, st, slices, base, op) ==
    LET names == [s \in 1..c.g[i].n |-> [inv |-> c.inv, op |-> op, shard |-> s]]
    IN  BuildTasks(c, i, part, slices, names,
          CompileDeps(c, c.g[Last(slices)], c.g[i].n, op, [s \in DOMAIN names |-> <<>>],
                      [st EXCEPT !.names = Minted(st.names, base)]))

CompileNew(c, i, part, st) ==
    LET slices == Pipeline(c.g, i)
        base == [j \in DOMAIN slices |-> c.g[slices[j]].op]
    IN  IF c.g[i].op = "result" THEN CompileResult(c, i, part, st)
        ELSE CompilePipeline(c, i, part, st, slices, base, NewName(st.names, base))

\* compiler.compile.  Tasks with a combiner or a partitioner of their own are
\* never shared; others are made once for a slice and a number of partitions.
\* A variant shares them whatever their number of partitions.
CompileSliceOnce(c, i, part, st) ==
    LET key == <<i, 0>> IN
    IF part.combiner \/ part.custom THEN CompileNew(c, i, part, st)
    ELSE IF key \in DOMAIN st.memo THEN [tasks |-> st.memo[key], st |-> st]
    ELSE Memoized(key, CompileNew(c, i, part, st))

CompileSlice(c, i, part, st) ==
    LET key == <<i, part.num>> IN
    IF part.combiner \/ part.custom THEN CompileNew(c, i, part, st)
    ELSE IF key \in DOMAIN st.memo THEN [tasks |-> st.memo[key], st |-> st]
    ELSE Memoized(key, CompileNew(c, i, part, st))

\* compile: the tasks of the root slice, and all that were made.
NoMemo == [x \in {} |-> <<>>]
CompileGraph(c) ==
    CompileSlice(c, Len(c.g), NoPartitioner,
                 [tasks |-> NoMemo, memo |-> NoMemo, names |-> NoMemo, cached |-> c.env.cached])

\* task.all: the tasks reachable from the roots through dependencies.
RECURSIVE Reach(_, _)
Reach(tasks, from) ==
    LET next == from \cup UNION {Range(d.tasks) : d \in
                   UNION {Range(tasks[x].deps) : x \in from \cap DOMAIN tasks}}
    IN  IF next = from THEN from ELSE Reach(tasks, next)
=============================================================================
