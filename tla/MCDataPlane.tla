---------------------------- MODULE MCDataPlane -----------------------------
(***************************************************************************)
(* Instances of DataPlane: the user's functions, the jobs, and what the    *)
(* rows should be.                                                         *)
(***************************************************************************)
EXTENDS DataPlane

\* The user's functions.  Values are powers of 4, so that a sum shows which
\* rows went into it and how often.
MCCombiner(a, b) == a + b
MCMapFn(row) == <<row[1] + 1, row[2]>>
MCPred(row) == row[1] # 2
MCFlatFn(row) ==
  [i \in 1..(CASE row[1] = 1 -> 0 [] row[1] = 2 -> 3 [] OTHER -> 1) |-> <<i, row[2]>>]
MCFoldFn(acc, v) == acc + v
MCHash(k) == k
\* Keys 1 and 3 collide in tables of two and of four slots.
MCHashWithSeed(k) == IF k = 3 THEN 1 ELSE k

-----------------------------------------------------------------------------
(* Jobs *)

Op(o) == [o |-> o]
HeadOp(n) == [o |-> "head", n |-> n]
WriterOp(err, at) == [o |-> "writer", werr |-> err, at |-> at]

SomeRows == <<<<1, 1>>, <<2, 4>>, <<3, 16>>, <<1, 64>>, <<2, 256>>>>

Script(rows, plan, end, eager) ==
  [rows |-> rows, plan |-> plan, end |-> end, eager |-> eager]

\* Scripts of a user's reader: short reads, empty reads, ends with and
\* without rows, errors.
Scripts(rows) ==
  {Script(rows, plan, "EOF", eager) : plan \in {<<>>, <<1, 0>>, <<0, 1>>}, eager \in BOOLEAN}

User(a, b) == [kind |-> "user", script |-> <<a, b>>]
Const(rows) == [kind |-> "const", rows |-> rows]

Job == [mode |-> "local", src |-> Const(SomeRows), ops |-> <<>>, base |-> "reshuffle",
        top |-> <<>>, flaky |-> FALSE, exclusive |-> FALSE, partial |-> FALSE,
        faults |-> FALSE, disk |-> <<None, None>>, fault |-> "none"]

Sources ==
  {Const(SubSeq(SomeRows, 1, n)) : n \in {0, 1, 2, 4, 5}}
  \cup {User(a, Script(<<<<2, 64>>>>, <<>>, "EOF", TRUE)) : a \in Scripts(SubSeq(SomeRows, 1, 3))}
AUser == User(Script(SubSeq(SomeRows, 1, 3), <<1, 0>>, "EOF", TRUE),
              Script(<<<<2, 64>>, <<3, 256>>>>, <<>>, "EOF", FALSE))

Unary == {Op("map"), Op("filter"), Op("flatmap"), HeadOp(1), HeadOp(2), WriterOp("nil", 0)}
Pipelines == {<<>>} \cup {<<a>> : a \in Unary}
             \cup {<<a, b>> : a \in Unary, b \in {Op("filter"), Op("flatmap"), HeadOp(2)}}
Bases == {"reduce", "fold", "cogroup", "reshuffle"}
Modes == {"local", "worker"}

Tops == {<<Op("map")>>, <<Op("filter")>>, <<Op("flatmap")>>, <<HeadOp(1)>>,
         <<WriterOp("nil", 0)>>, <<Op("scan")>>, <<Op("flatmap"), HeadOp(2)>>}

\* Sources that fail, after rows or together with the last of them.
Failing == {User(Script(SubSeq(SomeRows, 1, n), <<1>>, "fatal", eager),
                 Script(<<<<2, 64>>>>, <<>>, "EOF", TRUE)) : n \in {1, 3}, eager \in BOOLEAN}

\* Files a cache may hold before the job runs: none, a shard in one batch or
\* two, and damaged ones.
CacheOps == <<Op("map"), Op("cache")>>
Whole(s) == [i \in DOMAIN AUser.script[s].rows |-> MCMapFn(AUser.script[s].rows[i])]
File(s) == Encode(Encode(<<>>, First(Whole(s), 1)), Rest(Whole(s), 1))
Damage(s, cut) == [File(s) EXCEPT ![2].cut = cut]
Flipped(s) == [File(s) EXCEPT ![1].sum = <<>>]
Disks == {<<None, None>>, <<File(1), None>>, <<File(1), File(2)>>,
          <<Damage(1, "flag"), File(2)>>, <<Damage(1, "sum"), File(2)>>,
          <<Damage(1, "column"), File(2)>>, <<File(1), Flipped(2)>>}

MCJobs ==
  {[Job EXCEPT !.src = s, !.base = b, !.mode = m] : s \in Sources, b \in Bases, m \in Modes}
  \cup {[Job EXCEPT !.src = AUser, !.ops = p] : p \in Pipelines}
  \cup {[Job EXCEPT !.src = AUser, !.ops = p, !.mode = "worker", !.base = "reduce"] :
          p \in Pipelines}
  \cup {[Job EXCEPT !.src = AUser, !.top = p, !.base = b, !.mode = m] :
          p \in Tops, b \in {"reduce", "cogroup"}, m \in Modes}
  \cup {[Job EXCEPT !.src = s, !.ops = p, !.mode = m] :
          s \in Failing, p \in {<<>>} \cup {<<a>> : a \in Unary}, m \in Modes}
  \cup {[Job EXCEPT !.src = s, !.ops = <<WriterOp(e, at)>>, !.mode = m] :
          s \in {AUser} \cup Failing, e \in {"fatal", "temp"}, at \in 0..2, m \in Modes}
  \cup {[Job EXCEPT !.src = AUser, !.flaky = TRUE, !.faults = TRUE, !.exclusive = x, !.base = b] :
          x \in BOOLEAN, b \in {"reduce", "reshuffle"}}
  \cup {[Job EXCEPT !.src = AUser, !.ops = CacheOps, !.partial = x, !.disk = d, !.faults = TRUE] :
          x \in BOOLEAN, d \in Disks}
  \cup {[Job EXCEPT !.src = s, !.ops = CacheOps, !.partial = TRUE] : s \in Failing}
  \cup {[Job EXCEPT !.src = AUser, !.ops = CacheOps, !.partial = TRUE, !.faults = TRUE,
           !.flaky = fl, !.fault = f] : fl \in BOOLEAN, f \in {"none", "create", "write", "close"}}

\* A job whose cache holds a file cut off before the values of a column.
CutJobs ==
  {[Job EXCEPT !.src = AUser, !.ops = CacheOps, !.partial = TRUE,
     !.disk = <<Damage(1, "column"), None>>]}

=============================================================================
