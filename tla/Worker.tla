------------------------------- MODULE Worker -------------------------------
(***************************************************************************)
(* The worker service of exec/bigmachine.go on one machine: the calls      *)
(* Worker.Compile, Run, Discard, CommitCombiner and Read, each served by a *)
(* goroutine of its own, the combiners that tasks share, the goroutine     *)
(* that writes a combiner out, and the file store (exec/store.go).         *)
(*                                                                         *)
(* The driver keeps at most one call per task or combine key outstanding.  *)
(* When the connection breaks, the call goes on at the worker with a done  *)
(* context and nobody to answer to, and bigmachine's RetryCall issues it   *)
(* again.  A call that fails is resubmitted.                               *)
(*                                                                         *)
(* Rows are numbers; what an operator computes from them is the subject of *)
(* DataPlane.  A stored partition is the sequence of rows its file holds.  *)
(***************************************************************************)
EXTENDS TaskState, Sequences, FiniteSets

CONSTANTS
    Task,        \* the tasks of the invocation
    Combines,    \* those with a Combiner
    CombineKey,  \* Task.CombineKey: the shared combiner of a task, or NoKey
    NoKey,
    None,        \* no file
    DepOf,       \* the tasks and combine keys a task reads, their partition 1
    Rows,        \* the rows a task without dependencies computes
    PartOf,      \* Task.Partitioner: the partition of a row in a task's output
    NumPartition,
    Load,        \* the workloads: the tasks the driver runs and reads, and bounds on the
                 \* connections and the streams that break, the reads, writes and
                 \* calls of user code that fail, and the calls of Discard
    Call,        \* the calls that can be at the worker at once
    Half, Full,  \* the lengths at which a task's combining frame may, and has to, be flushed
    MaxGen,      \* bound: times the combiners of a key are made
    MaxTries     \* retryPolicy: attempts to reopen a stream

VARIABLES
    load,     \* the tasks the driver runs
    compiled, \* w.tasks has the invocation
    ts,       \* the state of each task at the worker
    key,      \* w.combinerStates, w.combiners, and the writers yet to start
    pool,     \* the combiners ever made, by key, generation and partition
    writers,  \* the calls of writeCombiner that are writing
    files,    \* the file store
    call,     \* the calls at the worker
    client,   \* the driver's outstanding call per task or key
    replied,  \* the last answer the driver got
    reader,   \* a retryReader over evalOpenerAt, at the driver, of one of the tasks it
              \* reads; the files it opened; what is left of the bound on broken streams
    drops, faults, discards, \* what is left of the bounds
    mixed,    \* history: tasks whose state was overwritten by a call that only waited
    late,     \* history: tasks discarded when the driver no longer wanted it
    tainted,  \* history: keys in whose combiner a failed attempt left or lost rows
    unwritten \* history: partitions committed although their file was never closed

driverVars == <<load, client, replied>>
bounds == <<drops, faults, discards>>
history == <<mixed, late, tainted, unwritten>>
vars == <<driverVars, compiled, ts, key, pool, writers, files, call, reader, bounds, history>>

NoCall == 0
Writer == -1
combinerNone == 0
combinerWriting == 1
combinerCommitted == 2
combinerError == 3
combinerIdle == 4

Key == {CombineKey[t] : t \in Task} \ {NoKey}

\* The tasks that combine are those with a Combiner and all that share one, as
\* compile makes them; the names of tasks and of combine keys are distinct.
ASSUME WorkerAssumption ==
    /\ Combines \subseteq Task /\ Key \cap Task = {}
    /\ \A t \in Task : CombineKey[t] # NoKey => t \in Combines
    /\ \A l \in Load : l.tasks \subseteq Task /\ l.reads \subseteq l.tasks
    /\ IsFiniteSet(Call) /\ Call \subseteq Nat \ {NoCall}
    /\ NumPartition \in Nat \ {0} /\ MaxGen \in Nat

Name == Task \cup Key
\* The key of a task's combiner: the task's own name unless it is shared.
KeyOf(t) == IF CombineKey[t] # NoKey THEN CombineKey[t] ELSE t
Combined == {KeyOf(t) : t \in Combines}
Part == 1..NumPartition
Gen == 1..MaxGen
RowsOf(s) == {s[i] : i \in DOMAIN s}

\* Every row can be told from every other one, and a task computes its rows in
\* their order.  What a task reads is stored under its own name or that of its
\* combine key, and is the output of tasks that read nothing themselves.  Tasks
\* that share a combiner read different inputs.
ASSUME RowsAssumption ==
    /\ None \notin Seq(Nat)
    /\ \A t \in Task : /\ Rows[t] \in Seq(Nat)
                       /\ \A i, j \in DOMAIN Rows[t] : i < j => Rows[t][i] < Rows[t][j]
                       /\ DepOf[t] \subseteq Name /\ IsFiniteSet(DepOf[t])
    /\ \A t, u \in Task : /\ \A r \in RowsOf(Rows[u]) : PartOf[t][r] \in Part
                          /\ u \in DepOf[t] => CombineKey[u] = NoKey
                          /\ u \in DepOf[t] \/ CombineKey[u] \in DepOf[t] => DepOf[u] = {}
    /\ \A t, u \in Task : t # u =>
         /\ RowsOf(Rows[t]) \cap RowsOf(Rows[u]) = {}
         /\ KeyOf(t) = KeyOf(u) => DepOf[t] \cap DepOf[u] = {}

\* A combiner's rows, who has it, and whether a file it spilled was cut short.
Fresh == [p \in Part |-> [rows |-> <<>>, by |-> NoCall, cut |-> FALSE]]
Unused == [pc |-> "idle", op |-> "none", name |-> NoKey, dead |-> FALSE, in |-> <<>>,
           buf |-> [p \in Part |-> <<>>], part |-> 1, gen |-> 0, gave |-> FALSE, waited |-> FALSE]

Init ==
    /\ \E l \in Load : /\ load = l.tasks
                       /\ drops = l.drops /\ faults = l.faults /\ discards = l.discards
                       /\ reader = [pc |-> "new", name |-> NoKey, src |-> None, got |-> <<>>,
                                    of |-> l.reads, tries |-> 0, opened |-> {}, breaks |-> l.breaks]
    /\ compiled = FALSE
    /\ ts = [t \in Task |-> TaskInit]
    /\ key = [k \in Combined |-> [state |-> combinerNone, gen |-> 0, made |-> 0, spawned |-> 0]]
    /\ pool = [k \in Combined |-> [g \in Gen |-> Fresh]]
    /\ writers = {}
    /\ files = [n \in Name |-> [p \in Part |-> None]]
    /\ call = [c \in Call |-> Unused]
    /\ client = [n \in Name |-> NoCall]
    /\ replied = [n \in Name |-> "none"]
    /\ mixed = {} /\ late = {} /\ tainted = {} /\ unwritten = {}

-----------------------------------------------------------------------------
(* The driver. *)

\* Worker.Compile.  The invocation is compiled at most once, however often
\* the call is delivered.
Compile ==
    /\ \/ ~compiled /\ compiled' = TRUE /\ ts' = [t \in Task |-> TaskInit]
       \/ compiled /\ UNCHANGED <<compiled, ts>>
    /\ UNCHANGED <<driverVars, key, pool, writers, files, call, reader, bounds, history>>

\* Goroutines have no names: a new call gets the first free number.
NextFree(c) == call[c].pc = "idle" /\ \A d \in Call : d < c => call[d].pc # "idle"

Issue(c, n, op, pc) ==
    /\ client[n] = NoCall /\ NextFree(c)
    /\ call' = [call EXCEPT ![c] = [Unused EXCEPT !.op = op, !.name = n, !.pc = pc]]
    /\ client' = [client EXCEPT ![n] = c]
    /\ UNCHANGED <<load, compiled, ts, key, pool, writers, files, reader, drops, faults, history>>

\* bigmachineExecutor.Run, once its invocation is compiled there and its
\* dependencies are available: RetryCall of Worker.Run.
IssueRun(c, t) ==
    /\ compiled /\ t \in load /\ replied[t] # "ok"
    /\ \A d \in DepOf[t] : replied[d] = "ok"
    /\ Issue(c, t, "run", "enter")
    /\ UNCHANGED <<replied, discards>>

\* bigmachineExecutor.commit, before a task that reads key k is run.
IssueCommit(c, k) ==
    /\ replied[k] = "none"
    /\ {t \in Task : CombineKey[t] = k} \cap load # {}
    /\ \A t \in load : CombineKey[t] = k => replied[t] = "ok"
    /\ Issue(c, k, "commit", "commit")
    /\ UNCHANGED <<replied, discards>>

\* bigmachineExecutor.Discard of a task that is Ok.  Tasks with shared
\* combiners are not discarded.
IssueDiscard(c, t) ==
    /\ discards > 0 /\ discards' = discards - 1
    /\ t \in load /\ replied[t] = "ok" /\ CombineKey[t] = NoKey
    /\ Issue(c, t, "discard", "discard")
    /\ replied' = [replied EXCEPT ![t] = "none"]

\* The connection of an outstanding call breaks: its context ends, its answer
\* will not be seen, and RetryCall issues it again.
Drop(c, d) ==
    /\ drops > 0 /\ drops' = drops - 1
    /\ client[call[c].name] = c /\ NextFree(d)
    /\ LET start == [run |-> "enter", commit |-> "commit", discard |-> "discard"] IN
       call' = [call EXCEPT ![c].dead = TRUE,
                            ![d] = [Unused EXCEPT !.op = call[c].op, !.name = call[c].name,
                                                  !.pc = start[call[c].op]]]
    /\ client' = [client EXCEPT ![call[c].name] = d]
    /\ UNCHANGED <<load, replied, compiled, ts, key, pool, writers, files, reader,
                   faults, discards, history>>

-----------------------------------------------------------------------------
(* The steps of a call. *)

Goto(c, pc) == call' = [call EXCEPT ![c].pc = pc]
Fault == faults > 0 /\ faults' = faults - 1
\* A call of user code or a read of input fails; a done context is an error too.
Fails(c) == IF call[c].dead THEN UNCHANGED faults ELSE Fault
Quiet == UNCHANGED <<driverVars, compiled, reader, drops, discards>>

\* (mutant of Reply: the driver's call stays outstanding)
ReplyForgets(c, answer) ==
    /\ call' = [call EXCEPT ![c] = Unused]
    /\ LET n == call[c].name IN
       IF client[n] = c
       THEN /\ UNCHANGED client
            /\ replied' = [replied EXCEPT ![n] = answer]
       ELSE UNCHANGED <<client, replied>>
    /\ mixed' = IF call[c].waited /\ ts' # ts THEN mixed \cup {call[c].name} ELSE mixed
    /\ UNCHANGED <<load, compiled, key, pool, writers, files, reader, bounds, late, tainted, unwritten>>

\* The call ends with an answer, which reaches the driver if it still waits.
Reply(c, answer) ==
    /\ call' = [call EXCEPT ![c] = Unused]
    /\ LET n == call[c].name IN
       IF client[n] = c
       THEN /\ client' = [client EXCEPT ![n] = NoCall]
            /\ replied' = [replied EXCEPT ![n] = answer]
       ELSE UNCHANGED <<client, replied>>
    /\ mixed' = IF call[c].waited /\ ts' # ts THEN mixed \cup {call[c].name} ELSE mixed
    /\ UNCHANGED <<load, compiled, key, pool, writers, files, reader, bounds, late, tainted, unwritten>>

\* (mutant of Enter: a run under way is not noticed)
EnterAlways(c) ==
    /\ call[c].pc = "enter"
    /\ Goto(c, "inputs") /\ ts' = [ts EXCEPT ![call[c].name] = TaskRunning]
    /\ UNCHANGED <<key, pool, writers, files, faults, history>> /\ Quiet

\* Worker.Run up to the point where the task is its own: it revives a task
\* that is lost or failed, and waits for a run under way.
Enter(c) ==
    /\ call[c].pc = "enter"
    /\ IF ts[call[c].name] \in {TaskLost, TaskErr, TaskInit}
       THEN Goto(c, "inputs") /\ ts' = [ts EXCEPT ![call[c].name] = TaskRunning]
       ELSE call' = [call EXCEPT ![c].pc = "wait", ![c].waited = TRUE] /\ UNCHANGED ts
    /\ UNCHANGED <<key, pool, writers, files, faults, history>> /\ Quiet

\* The waiting loop of Run ends when the task's state is past TaskRunning ...
Wait(c) ==
    /\ call[c].pc = "wait" /\ ts[call[c].name] > TaskRunning
    /\ Goto(c, "check")
    /\ UNCHANGED <<ts, key, pool, writers, files, faults, history>> /\ Quiet

\* ... or with the context.  The deferred function then marks the task failed.
WaitCut(c) ==
    /\ call[c].pc = "wait" /\ call[c].dead
    /\ Goto(c, "fail")
    /\ UNCHANGED <<ts, key, pool, writers, files, faults, history>> /\ Quiet

\* task.Err(), after the task's lock was released.
Check(c) ==
    /\ call[c].pc = "check"
    /\ Goto(c, IF ts[call[c].name] >= TaskErr THEN "fail" ELSE "ok")
    /\ UNCHANGED <<ts, key, pool, writers, files, faults, history>> /\ Quiet

\* The stored rows of partition 1 of these tasks and keys, one after another.
Concatenated(order) ==
    LET upTo[i \in 0..Len(order)] ==
          IF i = 0 THEN <<>> ELSE upTo[i - 1] \o files[order[i]][1]
    IN  upTo[Len(order)]
\* The orders in which S can be read.
Orders(S) == {o \in [1..Cardinality(S) -> S] : \A d \in S : \E i \in DOMAIN o : o[i] = d}

\* The inputs of the task: each dependency's partition from the store, in an
\* order that the shuffle of readers chooses.  One that is not stored is asked
\* of its location, which is this worker, and does not exist.
Inputs(c) ==
    LET t == call[c].name
        deps == DepOf[t]
        missing == \E d \in deps : files[d][1] = None
    IN  /\ call[c].pc = "inputs"
        /\ IF missing THEN Goto(c, "fail")
           ELSE \E order \in Orders(deps) :
                  call' = [call EXCEPT ![c].pc = IF t \in Combines THEN "share" ELSE "read",
                             ![c].in = IF deps = {} THEN Rows[t] ELSE Concatenated(order)]
        /\ UNCHANGED <<ts, key, pool, writers, files, faults, history>> /\ Quiet

\* One read of the task's output, and its row written to its partition.
ReadRow(c) ==
    LET t == call[c].name  in == call[c].in  p == PartOf[t][Head(in)] IN
    /\ call[c].pc = "read"
    /\ IF in = <<>> THEN call' = [call EXCEPT ![c].pc = "store"]
       ELSE call' = [call EXCEPT ![c].in = Tail(in), ![c].buf[p] = Append(@, Head(in))]
    /\ UNCHANGED <<ts, key, pool, writers, files, faults, history>> /\ Quiet

ReadFails(c) ==
    /\ call[c].pc \in {"read", "combine"} /\ Fails(c)
    /\ Goto(c, IF call[c].pc = "read" THEN "fail" ELSE "leaveErr")
    /\ UNCHANGED <<ts, key, pool, writers, files, history>> /\ Quiet

\* fileWriter.Commit of partition p of n, with these rows.  It closes the file,
\* which gives it its name; or fails to; or fails to write the trailer, and then
\* reports success without closing the file.
Commits(n, p, rows) ==
    \/ /\ files' = [files EXCEPT ![n][p] = rows]
       /\ unwritten' = unwritten \ {<<n, p>>} /\ UNCHANGED faults
    \/ Fault /\ unwritten' = unwritten \cup {<<n, p>>} /\ UNCHANGED files
CommitFails == Fault /\ UNCHANGED <<files, unwritten>>

\* (mutant of StorePart: the last partition is not committed)
StoreButLast(c) ==
    LET t == call[c].name  p == call[c].part IN
    /\ call[c].pc = "store"
    /\ \/ /\ Commits(t, p, call[c].buf[p])
          /\ call' = [call EXCEPT ![c].pc = IF p >= NumPartition - 1 THEN "ok" ELSE "store",
                                  ![c].part = p + 1]
       \/ CommitFails /\ Goto(c, "fail")
    /\ UNCHANGED <<ts, key, pool, writers, mixed, late, tainted>> /\ Quiet

\* The partitions are committed one after another.  A failure fails the task,
\* and the partitions stored before it stay.
StorePart(c) ==
    LET t == call[c].name  p == call[c].part IN
    /\ call[c].pc = "store"
    /\ \/ /\ Commits(t, p, call[c].buf[p])
          /\ call' = [call EXCEPT ![c].pc = IF p = NumPartition THEN "ok" ELSE "store",
                                  ![c].part = p + 1]
       \/ CommitFails /\ Goto(c, "fail")
    /\ UNCHANGED <<ts, key, pool, writers, mixed, late, tainted>> /\ Quiet

\* The deferred function of Run: Set(TaskOk), or Error.  A call of
\* CommitCombiner answers in the same way and has no task to set.
EndOk(c) ==
    /\ call[c].pc = "ok"
    /\ ts' = IF call[c].op = "run" THEN [ts EXCEPT ![call[c].name] = TaskOk] ELSE ts
    /\ Reply(c, "ok")

EndErr(c) ==
    /\ call[c].pc = "fail"
    /\ ts' = IF call[c].op = "run" THEN [ts EXCEPT ![call[c].name] = TaskErr] ELSE ts
    /\ Reply(c, "err")

-----------------------------------------------------------------------------
(* The combiners. *)

\* The combiner that call c uses for its current partition.
Combiner(c) == pool[KeyOf(call[c].name)][call[c].gen][call[c].part]

\* runCombine: the state of the key admits the task or not; the first task of
\* a key makes the combiners, and fails if it cannot.
Share(c) ==
    LET k == KeyOf(call[c].name)  st == key[k].state
        new == key[k].made + 1
        enter(g) == call' = [call EXCEPT ![c].pc = "combine", ![c].gen = g]
    IN  /\ call[c].pc = "share"
        /\ \/ /\ st \in {combinerWriting, combinerCommitted, combinerError}
              /\ Goto(c, "fail") /\ UNCHANGED <<key, faults>>
           \/ st = combinerNone /\ Fault /\ Goto(c, "fail") /\ UNCHANGED key
           \/ /\ st = combinerNone /\ UNCHANGED faults /\ new \in Gen /\ enter(new)
              /\ key' = [key EXCEPT ![k].state = combinerIdle + 1, ![k].gen = new, ![k].made = new]
           \/ /\ st \notin combinerNone..combinerError /\ UNCHANGED faults /\ enter(key[k].gen)
              /\ key' = [key EXCEPT ![k].state = st + 1]
        /\ UNCHANGED <<ts, pool, writers, files, history>> /\ Quiet

\* One row into the task's combining frame.  When the frame is more than half
\* full the shared combiner is taken if it is free, and waited for only when
\* the frame is full.  A task that finds no combiners at all panics, which Run
\* recovers from.
CombineRow(c) ==
    LET t == call[c].name  k == KeyOf(t)  g == call[c].gen
        in == call[c].in   p == PartOf[t][Head(in)]
        buf == Append(call[c].buf[p], Head(in))
        busy == pool[k][g][p].by # NoCall
        next == IF Len(buf) <= Half THEN "combine"
                ELSE IF g = 0 THEN "leaveErr"
                ELSE IF ~busy THEN "put"
                ELSE IF Len(buf) >= Full THEN "take" ELSE "combine"
    IN  /\ call[c].pc = "combine"
        /\ IF in = <<>>
           THEN call' = [call EXCEPT ![c].pc = "rest", ![c].part = 1] /\ UNCHANGED pool
           ELSE /\ call' = [call EXCEPT ![c].in = Tail(in), ![c].buf[p] = buf,
                                        ![c].pc = next, ![c].part = p]
                /\ pool' = IF next = "put" THEN [pool EXCEPT ![k][g][p].by = c] ELSE pool
        /\ UNCHANGED <<ts, key, writers, files, faults, history>> /\ Quiet

\* <-combiners[p], for a full frame and for the remainder of each partition.
Take(c) ==
    LET k == KeyOf(call[c].name)  g == call[c].gen  p == call[c].part IN
    /\ call[c].pc \in {"take", "rest"}
    /\ IF g = 0 THEN Goto(c, "leaveErr") /\ UNCHANGED pool
       ELSE /\ Combiner(c).by = NoCall
            /\ pool' = [pool EXCEPT ![k][g][p].by = c]
            /\ Goto(c, IF call[c].pc = "take" THEN "put" ELSE "putRest")
    /\ UNCHANGED <<ts, key, writers, files, faults, history>> /\ Quiet

\* combiner.Combine of the compacted frame, and the combiner back into its
\* channel.  Combine fails when it cannot spill.  The combiner's table is empty
\* by then, and what is left are the rows that reached the disk: those of earlier
\* spills and a first part of this one, in a file that can be read or cannot.
Put(c) ==
    LET k == KeyOf(call[c].name)  g == call[c].gen  p == call[c].part
        last == p = NumPartition
        next == IF call[c].pc = "put" THEN "combine" ELSE IF last THEN "leaveOk" ELSE "rest"
        rows == Combiner(c).rows \o call[c].buf[p]
    IN  /\ call[c].pc \in {"put", "putRest"}
        /\ \/ /\ pool' = [pool EXCEPT ![k][g][p] = [rows |-> rows, by |-> NoCall, cut |-> @.cut]]
              /\ call' = [call EXCEPT ![c].pc = next, ![c].buf[p] = <<>>,
                    ![c].gave = @ \/ call[c].buf[p] # <<>>,
                    ![c].part = IF next = "rest" THEN p + 1 ELSE p]
              /\ UNCHANGED faults
           \/ /\ Fault /\ call' = [call EXCEPT ![c].pc = "leaveErr", ![c].gave = TRUE]
              /\ \E n \in 0..Len(rows), cut \in BOOLEAN :
                   pool' = [pool EXCEPT ![k][g][p] =
                              [rows |-> SubSeq(rows, 1, n), by |-> NoCall, cut |-> @.cut \/ cut]]
        /\ UNCHANGED <<ts, key, writers, files, history>> /\ Quiet

\* (mutant of Leave: a run that fails keeps its reference)
LeaveOnlyOk(c) ==
    LET t == call[c].name  k == KeyOf(t)  ok == call[c].pc = "leaveOk" IN
    /\ call[c].pc \in {"leaveOk", "leaveErr"}
    /\ key' = IF ok THEN [key EXCEPT ![k].state = @ - 1] ELSE key
    /\ Goto(c, IF ~ok THEN "fail" ELSE IF CombineKey[t] = NoKey THEN "commit" ELSE "ok")
    /\ tainted' = IF ~ok /\ call[c].gave THEN tainted \cup {<<k, call[c].gen>>} ELSE tainted
    /\ UNCHANGED <<ts, pool, writers, files, faults, mixed, late, unwritten>> /\ Quiet

\* (mutant of Leave: the error of a task with a shared combiner is dropped)
LeaveSharedOk(c) ==
    LET t == call[c].name  k == KeyOf(t)  ok == call[c].pc = "leaveOk" IN
    /\ call[c].pc \in {"leaveOk", "leaveErr"}
    /\ key' = [key EXCEPT ![k].state = @ - 1]
    /\ Goto(c, IF CombineKey[t] # NoKey THEN "ok" ELSE IF ok THEN "commit" ELSE "fail")
    /\ tainted' = IF ~ok /\ call[c].gave THEN tainted \cup {<<k, call[c].gen>>} ELSE tainted
    /\ UNCHANGED <<ts, pool, writers, files, faults, mixed, late, unwritten>> /\ Quiet

\* The deferred function of runCombine: one reference less, and the commit of
\* a combiner that belongs to the task alone.
Leave(c) ==
    LET t == call[c].name  k == KeyOf(t)  ok == call[c].pc = "leaveOk" IN
    /\ call[c].pc \in {"leaveOk", "leaveErr"}
    /\ key' = [key EXCEPT ![k].state = @ - 1]
    /\ Goto(c, IF ~ok THEN "fail" ELSE IF CombineKey[t] = NoKey THEN "commit" ELSE "ok")
    /\ tainted' = IF ~ok /\ call[c].gave THEN tainted \cup {<<k, call[c].gen>>} ELSE tainted
    /\ UNCHANGED <<ts, pool, writers, files, faults, mixed, late, unwritten>> /\ Quiet

\* (mutant of CommitCombiner: the state is not set to combinerWriting)
CommitUnmarked(c) ==
    LET k == IF call[c].op = "run" THEN KeyOf(call[c].name) ELSE call[c].name
        st == key[k].state
    IN  /\ call[c].pc = "commit"
        /\ \/ /\ st = combinerIdle /\ UNCHANGED call
              /\ key' = [key EXCEPT ![k].spawned = @ + 1]
           \/ st = combinerCommitted /\ Goto(c, "ok") /\ UNCHANGED key
           \/ st = combinerWriting /\ call[c].dead /\ Goto(c, "fail") /\ UNCHANGED key
           \/ /\ st \notin {combinerIdle, combinerCommitted, combinerWriting}
              /\ Goto(c, "fail") /\ UNCHANGED key
        /\ UNCHANGED <<ts, pool, writers, files, faults, history>> /\ Quiet

\* CommitCombiner, called by runCombine or by the driver.  It waits while the
\* combiner is being written, until its context ends.
CommitCombiner(c) ==
    LET k == IF call[c].op = "run" THEN KeyOf(call[c].name) ELSE call[c].name
        st == key[k].state
    IN  /\ call[c].pc = "commit"
        /\ \/ /\ st = combinerIdle /\ UNCHANGED call
              /\ key' = [key EXCEPT ![k].state = combinerWriting, ![k].spawned = @ + 1]
           \/ st = combinerCommitted /\ Goto(c, "ok") /\ UNCHANGED key
           \/ st = combinerWriting /\ call[c].dead /\ Goto(c, "fail") /\ UNCHANGED key
           \/ /\ st \notin {combinerIdle, combinerCommitted, combinerWriting}
              /\ Goto(c, "fail") /\ UNCHANGED key
        /\ UNCHANGED <<ts, pool, writers, files, faults, history>> /\ Quiet

\* writeCombiner receives every combiner of the key, under w.mu.
WriteStart(k) ==
    LET g == key[k].gen IN
    /\ key[k].spawned > 0
    /\ g # 0 => \A p \in Part : pool[k][g][p].by = NoCall
    /\ key' = [key EXCEPT ![k].spawned = @ - 1]
    /\ writers' = writers \cup {[key |-> k, gen |-> g, failed |-> FALSE,
                                 left |-> IF g = 0 THEN {} ELSE Part]}
    /\ pool' = IF g = 0 THEN pool
               ELSE [pool EXCEPT ![k][g] = [p \in Part |-> [pool[k][g][p] EXCEPT !.by = Writer]]]
    /\ UNCHANGED <<ts, files, call, faults, history>> /\ Quiet

\* combiner.WriteTo gives the rows in order of their keys: the row at place n is
\* the one with n rows up to it.
Place(rows, i) ==
    Cardinality({j \in DOMAIN rows : rows[j] < rows[i] \/ (rows[j] = rows[i] /\ j <= i)})
InOrder(rows) ==
    [n \in DOMAIN rows |-> rows[CHOOSE i \in DOMAIN rows : Place(rows, i) = n]]

\* One of the partitions is written and committed, or fails, as it does when what
\* the combiner spilled cannot be read.
WritePart(w, p) ==
    LET cut == pool[w.key][w.gen][p].cut IN
    /\ p \in w.left
    /\ \/ /\ ~cut /\ Commits(w.key, p, InOrder(pool[w.key][w.gen][p].rows))
          /\ writers' = (writers \ {w}) \cup {[w EXCEPT !.left = @ \ {p}]}
       \/ /\ CommitFails \/ (cut /\ UNCHANGED <<files, unwritten, faults>>)
          /\ writers' = (writers \ {w}) \cup {[w EXCEPT !.left = @ \ {p}, !.failed = TRUE]}
    /\ UNCHANGED <<ts, key, pool, call, mixed, late, tainted>> /\ Quiet

\* (mutant of WriteEnd: the state stays combinerWriting)
WriteEndSilent(w) ==
    /\ w.left = {} /\ writers' = writers \ {w}
    /\ key' = [key EXCEPT ![w.key].gen = 0]
    /\ UNCHANGED <<ts, pool, files, call, faults, history>> /\ Quiet

\* All partitions are done: the combiners are dropped and the waiting calls of
\* CommitCombiner woken.
WriteEnd(w) ==
    /\ w.left = {} /\ writers' = writers \ {w}
    /\ key' = [key EXCEPT ![w.key].gen = 0,
                 ![w.key].state = IF w.failed THEN combinerError ELSE combinerCommitted]
    /\ UNCHANGED <<ts, pool, files, call, faults, history>> /\ Quiet

-----------------------------------------------------------------------------
(* Discard and Read. *)

Discarding(t) == client[t] # NoCall /\ call[client[t]].op = "discard"

\* Worker.Discard has nothing to do unless the task is Ok.
DiscardStart(c) ==
    LET t == call[c].name IN
    /\ call[c].pc = "discard"
    /\ IF ts[t] = TaskOk
       THEN /\ ts' = [ts EXCEPT ![t] = TaskRunning] /\ Goto(c, "remove")
            /\ late' = IF Discarding(t) THEN late ELSE late \cup {t}
            /\ UNCHANGED <<key, pool, writers, files, faults, mixed, tainted, unwritten>> /\ Quiet
       ELSE UNCHANGED ts /\ Reply(c, "none")

\* fileStore.Discard, partition after partition; its errors are only logged.
RemovePart(c) ==
    LET t == call[c].name  p == call[c].part IN
    /\ call[c].pc = "remove"
    /\ files' = [files EXCEPT ![t][p] = None]
    /\ call' = [call EXCEPT ![c].pc = IF p = NumPartition THEN "reset" ELSE "remove",
                            ![c].part = p + 1]
    /\ UNCHANGED <<ts, key, pool, writers, faults, history>> /\ Quiet

ResetCombiner(c) ==
    LET t == call[c].name IN
    /\ call[c].pc = "reset" /\ Goto(c, "lost")
    /\ key' = IF t \in Combines THEN [key EXCEPT ![t].state = combinerNone] ELSE key
    /\ UNCHANGED <<ts, pool, writers, files, faults, history>> /\ Quiet

SetLost(c) ==
    /\ call[c].pc = "lost" /\ ts' = [ts EXCEPT ![call[c].name] = TaskLost]
    /\ Reply(c, "none")

\* (mutant of OpenAt: the stream is reopened at its start)
OpenAtStart ==
    \E n \in reader.of :
      LET stored == files[n][1]
          try == reader.tries + 1
      IN  /\ reader.pc = "new" \/ (reader.pc = "reopen" /\ n = reader.name)
          /\ CombineKey[n] = NoKey /\ replied[n] = "ok"
          /\ reader' =
               IF stored = None
               THEN [reader EXCEPT !.name = n, !.tries = try,
                                   !.pc = IF try >= MaxTries THEN "failed" ELSE "reopen"]
               ELSE [reader EXCEPT !.name = n, !.pc = "reading", !.opened = @ \cup {stored},
                       !.src = stored]
          /\ UNCHANGED <<driverVars, compiled, ts, key, pool, writers, files, call, bounds, history>>

\* evalOpenerAt.OpenAt: the task is evaluated first, then Worker.Read opens
\* its file at the offset read so far; past its end there is nothing to read.
OpenAt ==
    \E n \in reader.of :
      LET stored == files[n][1]
          try == reader.tries + 1
      IN  /\ reader.pc = "new" \/ (reader.pc = "reopen" /\ n = reader.name)
          /\ CombineKey[n] = NoKey /\ replied[n] = "ok"
          /\ reader' =
               IF stored = None
               THEN [reader EXCEPT !.name = n, !.tries = try,
                                   !.pc = IF try >= MaxTries THEN "failed" ELSE "reopen"]
               ELSE [reader EXCEPT !.name = n, !.pc = "reading", !.opened = @ \cup {stored},
                       !.src = SubSeq(stored, Len(reader.got) + 1, Len(stored))]
          /\ UNCHANGED <<driverVars, compiled, ts, key, pool, writers, files, call, bounds, history>>

\* retryReader.Read: a row, or the end of the file.
ReadStream ==
    /\ reader.pc = "reading"
    /\ reader' = IF reader.src = <<>> THEN [reader EXCEPT !.pc = "done"]
                 ELSE [reader EXCEPT !.src = Tail(@), !.got = Append(@, Head(reader.src)), !.tries = 0]
    /\ UNCHANGED <<driverVars, compiled, ts, key, pool, writers, files, call, bounds, history>>

\* The stream breaks; it is reopened, up to the limit of retryPolicy.
BreakStream ==
    LET try == reader.tries + 1 IN
    /\ reader.pc = "reading" /\ reader.breaks > 0
    /\ reader' = [reader EXCEPT !.tries = try, !.src = None, !.breaks = @ - 1,
                                !.pc = IF try >= MaxTries THEN "failed" ELSE "reopen"]
    /\ UNCHANGED <<driverVars, compiled, ts, key, pool, writers, files, call, bounds, history>>

-----------------------------------------------------------------------------
Step(c) ==
    \/ Enter(c) \/ Wait(c) \/ WaitCut(c) \/ Check(c) \/ Inputs(c)
    \/ ReadRow(c) \/ StorePart(c) \/ EndOk(c) \/ EndErr(c)
    \/ Share(c) \/ CombineRow(c) \/ Take(c) \/ Put(c) \/ Leave(c) \/ CommitCombiner(c)
    \/ DiscardStart(c) \/ RemovePart(c) \/ ResetCombiner(c) \/ SetLost(c)

WriterStep ==
    \/ \E k \in Combined : WriteStart(k)
    \/ \E w \in writers : WriteEnd(w) \/ \E p \in w.left : WritePart(w, p)

Next ==
    \/ Compile
    \/ \E c \in Call, n \in Name :
         \/ n \in Task /\ (IssueRun(c, n) \/ IssueDiscard(c, n))
         \/ n \in Key /\ IssueCommit(c, n)
    \/ \E c, d \in Call : call[c].pc # "idle" /\ Drop(c, d)
    \/ \E c \in Call : Step(c) \/ ReadFails(c)
    \/ WriterStep
    \/ OpenAt \/ ReadStream \/ BreakStream

\* Goroutines run: a call or a writer that can step does.  Nothing obliges the
\* driver to issue calls, connections to break or reads to fail.
Fairness == WF_vars(WriterStep) /\ \A c \in Call : WF_vars(Step(c))
Spec == Init /\ [][Next]_vars /\ Fairness
-----------------------------------------------------------------------------
(* Properties. *)

Running(c) == call[c].op = "run" /\ call[c].pc \notin {"enter", "wait", "check", "ok", "fail"}
Inside(c) == call[c].pc \in {"combine", "take", "put", "rest", "putRest", "leaveOk", "leaveErr"}
InsideOf(k) == {c \in Call : Inside(c) /\ KeyOf(call[c].name) = k}
\* A call that only waited for one of the key's tasks has changed its state.
MixedKey(k) == \E t \in mixed : KeyOf(t) = k

\* The types of the worker's, the store's and the driver's variables.
TypeOK ==
    /\ load \subseteq Task /\ compiled \in BOOLEAN
    /\ ts \in [Task -> TaskStates]
    /\ \A k \in Combined : /\ key[k].state \in -1..combinerIdle + Cardinality(Call)
                       /\ key[k].gen \in Gen \cup {0} /\ key[k].made \in Gen \cup {0}
                       /\ key[k].spawned \in 0..MaxGen
    /\ \A c \in Call : /\ call[c].op \in {"none", "run", "commit", "discard"}
                       /\ call[c].pc = "idle" <=> call[c].op = "none"
                       /\ call[c].gen \in Gen \cup {0}
    /\ \A n \in Name : client[n] # NoCall => call[client[n]].name = n /\ ~call[client[n]].dead
    /\ \A n \in Name, p \in Part : files[n][p] # None => files[n][p] \in Seq(Nat)

\* A combiner's state counts exactly the runs that are inside runCombine while
\* it is above combinerIdle, and nobody is inside it in any other state: the
\* counter and the state share one integer (runCombine, CommitCombiner,
\* writeCombiner and Discard all write it).
CountsRuns ==
    \A k \in Combined : ~MixedKey(k) =>
      LET n == Cardinality(InsideOf(k))  st == key[k].state IN
      IF n > 0 THEN st = combinerIdle + n ELSE st \in combinerNone..combinerIdle

\* writeCombiner receives the combiners while it holds the worker's lock.  It
\* never has to wait for one there, so the lock is never held for long.
WriterFindsCombiners ==
    \A k \in Combined : key[k].spawned > 0 /\ ~MixedKey(k) =>
      \A p \in Part : key[k].gen # 0 /\ pool[k][key[k].gen][p].by = NoCall

\* However often a call is delivered, a task is run by one goroutine at a time,
\* unless a call that waited for a run under way was given up: it then marks
\* the task failed although the run goes on.
OneRunner ==
    \A c, d \in Call :
      c # d /\ Running(c) /\ Running(d) /\ call[c].name = call[d].name => call[c].name \in mixed

\* The rows that a task or key has to store in partition p: what its tasks
\* compute, or what their dependencies store in partition 1.
TasksOf(n) == IF n \in Task THEN {n} ELSE {t \in load : CombineKey[t] = n}
Base(t, p) == {r \in RowsOf(Rows[t]) : PartOf[t][r] = p}
Input(t) == IF DepOf[t] = {} THEN RowsOf(Rows[t])
            ELSE UNION {Base(d, 1) : d \in UNION {TasksOf(n) : n \in DepOf[t]}}
Expected(n, p) == UNION {{r \in Input(t) : PartOf[t][r] = p} : t \in TasksOf(n)}
Exact(n, p) ==
    /\ files[n][p] # None
    /\ RowsOf(files[n][p]) = Expected(n, p) /\ Len(files[n][p]) = Cardinality(Expected(n, p))
\* The combiner that n was last written from holds rows of a failed attempt, or
\* one that something n reads was written from does; n or something it reads
\* met one of the races above, or was not written.
Spoiled(n) == n \in Combined /\ <<n, key[n].made>> \in tainted
Doubtful(n) ==
    LET deps == UNION {DepOf[t] : t \in TasksOf(n)} IN
    \/ Spoiled(n) \/ \E x \in tainted : x[1] \in deps
    \/ \E d \in {n} \cup deps : \/ d \in late \/ TasksOf(d) \cap mixed # {}
                                \/ \E p \in Part : <<d, p>> \in unwritten

\* While the driver holds a nil answer for a task it has not discarded since,
\* every partition of the task's output is stored, with each row exactly once:
\* through duplicated calls, runs revived after failures, and partitions left
\* by runs that failed half way through.
OkMeansStored ==
    \A t \in load : replied[t] = "ok" /\ CombineKey[t] = NoKey =>
      Doubtful(t) \/ \A p \in Part : Exact(t, p)

\* What the comment on worker.Run says: "Run returns a nil error when the task
\* was successfully run and its output deposited in a local buffer", for every
\* task the driver holds a nil answer for, retried after a failure or not; but
\* for partitions whose commit was reported and did not happen.
RunDeposits ==
    \A t \in load : replied[t] = "ok" /\ CombineKey[t] = NoKey =>
      \A p \in Part : <<t, p>> \in unwritten \/ Exact(t, p)

\* A nil answer to CommitCombiner means that the rows of all the tasks that
\* share the combiner are in its files, each exactly once.
CommitMeansStored ==
    \A k \in Key : replied[k] = "ok" =>
      Doubtful(k) \/ \A p \in Part : Exact(k, p)

\* A stream that reached its end gave every row of the partition once, in the
\* order of a file it opened, however often it was reopened at an offset and even
\* if the output was discarded and computed again in between.  The one exception
\* is a stream over the output of a task with several inputs that met two files:
\* worker.Run reads the inputs in an order drawn at random, so the output that is
\* computed again has other rows at an offset than the output already read.
ReadExact ==
    LET n == reader.name  rows == Expected(n, 1) IN
    reader.pc = "done" =>
      \/ Doubtful(n) \/ \E x \in tainted : x[1] = n
      \/ Cardinality(DepOf[n]) > 1 /\ Cardinality(reader.opened) > 1
      \/ /\ RowsOf(reader.got) = rows /\ Len(reader.got) = Cardinality(rows)
         /\ reader.got \in reader.opened

\* Every call returns: no run, commit or discard waits forever for a task, a
\* combiner or a writer.
CallsEnd ==
    \A c \in Call : call[c].pc # "idle" ~> call[c].pc = "idle" \/ mixed # {}
=============================================================================
