----------------------------- MODULE MCSession -----------------------------
(***************************************************************************)
(* Small instances of Session.  Each job is there for a kind of graph: a   *)
(* slice used twice, shuffles with one's own partitioner and with          *)
(* combiners, caches that are whole, partial or absent, an operation       *)
(* pipelined over a cache, a Result that is an argument.  No job shuffles  *)
(* a Result: what reads it fails there (see README.md).                    *)
(***************************************************************************)
EXTENDS Session

CONSTANTS m1, m2
MCMachine == {m1, m2}
Sym == Permutations(MCMachine)
MCKey == 0..1

Plain(op, dep, n) == Slice(op, dep, n, 0)
Job(funcs, after, there, l, d) ==
    [funcs |-> funcs, after |-> after, holds |-> <<<<1, 3>>>>, files |-> there,
     machineCombiners |-> TRUE, watch |-> FALSE, losses |-> l, discards |-> d]

\* The mapped constant is used by a cogroup twice, with the same partitions,
\* and once by a reshuffle with others.
SharedFunc == <<Plain("const", <<>>, 2), Plain("map", <<1>>, 2), Plain("reshuffle", <<2>>, 2),
                Plain("cogroup", <<2, 2, 3>>, 1)>>
\* Two reductions of the same slice, whose tasks are not shared.
ReduceFunc == <<Plain("const", <<>>, 2), Plain("reduce", <<1>>, 1), Plain("reduce", <<1>>, 1),
                Plain("cogroup", <<2, 3>>, 1)>>
\* The cache of a slice whose rows were shuffled.
CacheFunc(op, sh, n) == <<Plain("const", <<>>, n), Plain(sh, <<1>>, 2), Slice(op, <<2>>, 2, 1)>>
\* An operation in one pipeline with a cache.
OverCacheFunc == Append(CacheFunc("cachepartial", "reshuffle", 1), Plain("map", <<3>>, 2))
\* The Result is mapped, pipelined up to it.
ResultFunc == <<Slice("result", <<>>, 2, 1), Plain("map", <<1>>, 2), Plain("materialize", <<2>>, 2),
                Plain("map", <<3>>, 2)>>
ReadFunc == <<Slice("readcache", <<>>, 2, 1), Plain("map", <<1>>, 2)>>
WatchFunc == <<Plain("const", <<>>, 1), Plain("map", <<1>>, 1), Plain("reshuffle", <<2>>, 1)>>

MCJobs ==
    {Job(<<SharedFunc>>, <<{}>>, {}, 1, 0),
     Job(<<ReduceFunc>>, <<{}>>, {}, 1, 0),
     [Job(<<WatchFunc>>, <<{}>>, {}, 1, 1) EXCEPT !.watch = TRUE],
     Job(<<CacheFunc("cache", "reshuffle", 1), CacheFunc("cache", "reshuffle", 1)>>, <<{}, {}>>, {}, 0, 0),
     Job(<<CacheFunc("cache", "reshuffle", 2), ReadFunc>>, <<{}, {1}>>, {<<1, 1>>}, 1, 1),
     Job(<<OverCacheFunc>>, <<{}>>, {<<1, 2>>}, 1, 0),
     Job(<<OverCacheFunc>>, <<{}>>, {}, 1, 0),
     Job(<<CacheFunc("cachepartial", "repartition", 1), ResultFunc>>, <<{}, {1}>>, {<<1, 2>>}, 1, 0)}
=============================================================================
