----------------------------- MODULE WorkerCalls -----------------------------
(***************************************************************************)
(* The inductive invariant behind the theorems about Worker, and the steps *)
(* of a call that leave the combiners as they are: waiting for another     *)
(* run, reading, storing, moving rows, ending, discarding, and being       *)
(* issued or issued again.  Used by WorkerProofs.                          *)
(***************************************************************************)
EXTENDS Worker, TLAPS

-----------------------------------------------------------------------------
(* The inductive invariant.                                                *)

Fields == {"pc", "op", "name", "dead", "in", "buf", "part", "gen", "gave", "waited"}
InsidePCs == {"combine", "take", "put", "rest", "putRest", "leaveOk", "leaveErr"}
RunPCs == {"enter", "wait", "check", "inputs", "read", "store", "share", "commit", "ok", "fail"}
          \cup InsidePCs

\* The control points of a call, by what it is a call of.
Shaped(r) ==
    /\ DOMAIN r = Fields
    /\ r.op \in {"none", "run", "commit", "discard"} /\ r.waited \in BOOLEAN
    /\ r.op = "none" => r.pc = "idle"
    /\ r.op = "run" => r.pc \in RunPCs /\ r.name \in Task
    /\ r.op = "commit" => r.pc \in {"commit", "ok", "fail"} /\ r.name \in Key
    /\ r.op = "discard" => /\ r.pc \in {"discard", "remove", "reset", "lost"}
                           /\ r.name \in Task /\ CombineKey[r.name] = NoKey
    /\ r.pc \in {"wait", "check"} => r.waited
    /\ r.waited => r.op = "run" /\ r.pc \in {"wait", "check", "ok", "fail"}
    /\ r.pc \in {"share"} \cup InsidePCs => r.name \in Combines
    /\ r.pc \in {"read", "store"} => r.name \notin Combines
    /\ r.op = "run" /\ r.pc = "commit" => r.name \in Combines /\ CombineKey[r.name] = NoKey

KeyRecord == [state : Int, gen : Nat, made : Nat, spawned : Nat]
WriterRecord == [key : Combined, gen : Nat, failed : BOOLEAN, left : SUBSET Part]

Shapes ==
    /\ DOMAIN call = Call /\ \A c \in Call : Shaped(call[c])
    /\ DOMAIN ts = Task
    /\ key \in [Combined -> KeyRecord] /\ writers \subseteq WriterRecord
    /\ load \subseteq Task /\ mixed \subseteq Task
    /\ DOMAIN replied = Name

\* Nothing runs and nothing is answered before the invocation is compiled.
AfterCompile ==
    /\ compiled \in BOOLEAN
    /\ ~compiled => /\ \A c \in Call : call[c].pc = "idle"
                    /\ \A n \in Name : replied[n] # "ok"

\* The calls that own their task: the run that did not wait for another, and
\* the discard that found it Ok.  The task is TaskRunning for as long, which
\* keeps every other call out.
Owns(r) == (r.op = "run" /\ ~r.waited /\ r.pc # "enter") \/ r.pc \in {"remove", "reset", "lost"}
Owned ==
    \A c \in Call : Owns(call[c]) /\ call[c].name \notin mixed =>
      /\ ts[call[c].name] = TaskRunning
      /\ \A d \in Call : Owns(call[d]) /\ call[d].name = call[c].name => c = d

\* The combiner of a task that is Ok, about to be, or being discarded is not
\* being written, so that Discard may reset it.
Settles(r) == (r.op = "run" /\ ~r.waited /\ r.pc = "ok") \/ r.pc \in {"remove", "reset"}
Settled ==
    \A t \in Combines : CombineKey[t] = NoKey /\ t \notin mixed =>
      /\ ts[t] = TaskOk => key[t].state # combinerWriting
      /\ \A c \in Call : call[c].name = t /\ Settles(call[c]) => key[t].state # combinerWriting

\* A combiner has at most one writer, started or about to start, and its
\* state says so.
OneWriter ==
    \A k \in Combined : ~MixedKey(k) =>
      /\ key[k].spawned > 0 => key[k].spawned = 1 /\ key[k].state = combinerWriting
      /\ \A w \in writers : w.key = k => key[k].spawned = 0 /\ key[k].state = combinerWriting
      /\ \A v, w \in writers : v.key = k /\ w.key = k => v = w

WorkerInv == Shapes /\ AfterCompile /\ Owned /\ Settled /\ OneWriter /\ CountsRuns

-----------------------------------------------------------------------------
(* What a step does to the calls.                                          *)

Others(c) == \A d \in Call : d # c => call'[d] = call[d]
Moves(c, pc) ==
    /\ DOMAIN call' = Call /\ Others(c) /\ DOMAIN call'[c] = Fields
    /\ call'[c].op = call[c].op /\ call'[c].name = call[c].name
    /\ call'[c].pc = pc /\ call'[c].waited = call[c].waited
Becomes(c, r) == DOMAIN call' = Call /\ Others(c) /\ call'[c] = r

LEMMA GotoMoves ==
    ASSUME Shapes, NEW c \in Call, NEW pc, Goto(c, pc)
    PROVE  Moves(c, pc)
BY Zenon DEF Shapes, Shaped, Goto, Moves, Others, Fields

LEMMA UnusedShaped == Shaped(Unused) /\ Unused.pc = "idle" /\ Unused.op = "none"
                      /\ ~Owns(Unused) /\ ~Settles(Unused) /\ Unused.pc \notin InsidePCs
BY Zenon DEF Shaped, Unused, Fields, InsidePCs, Owns, Settles

LEMMA ReplyBecomes ==
    ASSUME Shapes, NEW c \in Call, NEW answer, Reply(c, answer)
    PROVE  Becomes(c, Unused)
BY Zenon DEF Shapes, Reply, Becomes, Others

\* The steps that keep the call inside or outside of runCombine.
LEMMA SameInside ==
    ASSUME \A d \in Call : Inside(d)' <=> Inside(d),
           \A d \in Call : Inside(d) => call'[d].name = call[d].name,
           NEW k
    PROVE  InsideOf(k)' = InsideOf(k)
BY Zenon DEF InsideOf, KeyOf

\* A key without a task whose state was overwritten stays one only if no such
\* task was added.
LEMMA UnmixedBefore ==
    ASSUME NEW k, mixed \subseteq mixed', ~MixedKey(k)'
    PROVE  ~MixedKey(k)
BY Zenon DEF MixedKey, KeyOf

LEMMA OwnKey ==
    ASSUME NEW t \in Combines, CombineKey[t] = NoKey
    PROVE  KeyOf(t) = t /\ t \in Combined
BY Zenon DEF KeyOf, Combined

\* The key of a task with a combiner of its own is that task's alone.
LEMMA OwnAlone ==
    ASSUME NEW t \in Combines, CombineKey[t] = NoKey, NEW u \in Task, KeyOf(u) = t
    PROVE  u = t
BY WorkerAssumption, Zenon DEF KeyOf, Key

LEMMA OwnMixed ==
    ASSUME NEW t \in Combines, CombineKey[t] = NoKey, mixed \subseteq Task
    PROVE  MixedKey(t) <=> t \in mixed
BY OwnKey, OwnAlone, Zenon DEF MixedKey

-----------------------------------------------------------------------------
(* The steps of a call that leave its task, its combiner and its ownership *)
(* as they are.                                                            *)

Kept == UNCHANGED <<ts, key, writers, mixed, load, replied, compiled>>

LEMMA ShapesKept ==
    ASSUME Shapes, DOMAIN call' = Call, \A d \in Call : Shaped(call'[d]),
           DOMAIN ts' = Task, UNCHANGED <<key, writers>>, load' \subseteq Task,
           mixed' \subseteq Task, DOMAIN replied' = Name
    PROVE  Shapes'
BY Zenon DEF Shapes

LEMMA ShapesMove ==
    ASSUME Shapes, NEW c \in Call, NEW pc, Moves(c, pc), Shaped(call'[c]), Kept
    PROVE  Shapes'
BY ShapesKept, Zenon DEF Shapes, Moves, Others, Kept

\* A call may advance freely as long as it owns its task, is inside runCombine
\* and holds its combiner settled as before.
LEMMA MoveKeeps ==
    ASSUME WorkerInv, NEW c \in Call, NEW pc, Moves(c, pc), Shaped(call'[c]), Kept,
           call[c].pc # "idle",
           Owns(call'[c]) <=> Owns(call[c]),
           call'[c].pc \in InsidePCs <=> call[c].pc \in InsidePCs,
           Settles(call'[c]) =>
             \/ Settles(call[c]) \/ call[c].name \notin Combines
             \/ key[call[c].name].state # combinerWriting
    PROVE  WorkerInv'
<1>1. Shapes'
  BY ShapesMove, Zenon DEF WorkerInv
<1>2. AfterCompile'
  BY Zenon DEF WorkerInv, AfterCompile, Kept, Moves, Others
<1>3. Owned'
  BY DEF WorkerInv, Owned, Kept, Moves, Others
<1>4. Settled'
  BY DEF WorkerInv, Settled, Kept, Moves, Others
<1>5. \A k : MixedKey(k)' <=> MixedKey(k)
  BY Zenon DEF MixedKey, KeyOf, Kept
<1>6. OneWriter'
  BY <1>5, Zenon DEF WorkerInv, OneWriter, Kept, Combined, KeyOf
<1>7. \A d \in Call : (Inside(d)' <=> Inside(d)) /\ call'[d].name = call[d].name
  BY Zenon DEF Inside, InsidePCs, Moves, Others
<1>8. \A k : InsideOf(k)' = InsideOf(k)
  BY <1>7, SameInside, Zenon
<1>9. CountsRuns'
  BY <1>5, <1>8, Zenon DEF WorkerInv, CountsRuns, Kept, Combined, KeyOf
<1> QED
  BY <1>1, <1>2, <1>3, <1>4, <1>6, <1>9, Zenon DEF WorkerInv

LEMMA WaitSteps ==
    ASSUME WorkerInv, NEW c \in Call, Wait(c) \/ WaitCut(c) \/ Check(c)
    PROVE  WorkerInv'
<1>1. PICK pc : Moves(c, pc) /\ pc \in {"check", "fail", "ok"} /\ call[c].pc \in {"wait", "check"}
  BY GotoMoves, Zenon DEF WorkerInv, Wait, WaitCut, Check
<1>2. Kept
  BY Zenon DEF Wait, WaitCut, Check, Kept, Quiet, driverVars, history
<1>3. Shaped(call[c]) /\ call[c].waited /\ call[c].op = "run"
  BY <1>1, Zenon DEF WorkerInv, Shapes, Shaped
<1>4. Shaped(call'[c])
  BY <1>1, <1>3, Zenon DEF Shaped, Moves, RunPCs, InsidePCs
<1> QED
  BY <1>1, <1>2, <1>3, <1>4, MoveKeeps, Zenon DEF Moves, Owns, Settles, InsidePCs

\* Reading the inputs, and storing rows in the task's own files.
RunTo(c, pc) ==
    \/ call[c].pc = "inputs" /\ pc = "fail"
    \/ call[c].pc = "inputs" /\ pc = IF call[c].name \in Combines THEN "share" ELSE "read"
    \/ call[c].pc = "read" /\ pc \in {"read", "store"}
    \/ call[c].pc = "store" /\ pc \in {"ok", "store", "fail"}
LEMMA RunMoves ==
    ASSUME Shapes, NEW c \in Call, Inputs(c) \/ ReadRow(c) \/ StorePart(c)
    PROVE  \E pc : Moves(c, pc) /\ RunTo(c, pc)
<1> USE DEF RunTo
<1> DEFINE t == call[c].name
<1>1. CASE Inputs(c)
  <2>1. CASE Goto(c, "fail")
    BY <1>1, <2>1, GotoMoves, Zenon DEF Inputs
  <2>2. CASE ~Goto(c, "fail")
    <3>1. PICK in : call' = [call EXCEPT ![c].pc = IF t \in Combines THEN "share" ELSE "read",
                                         ![c].in = in]
      BY <1>1, <2>2, Zenon DEF Inputs
    <3>2. Moves(c, IF t \in Combines THEN "share" ELSE "read")
      BY <3>1 DEF Shapes, Shaped, Moves, Others, Fields
    <3> QED BY <1>1, <3>2, Zenon DEF Inputs
  <2> QED BY <2>1, <2>2, Zenon
<1>2. CASE ReadRow(c)
  <2>1. CASE call[c].in = <<>>
    <3>1. Goto(c, "store") /\ call[c].pc = "read"
      BY <1>2, <2>1, Zenon DEF ReadRow, Goto
    <3> QED BY <3>1, GotoMoves, Zenon
  <2>2. CASE call[c].in # <<>>
    <3> DEFINE in == call[c].in
               p == PartOf[call[c].name][Head(in)]
               buf == Append(call[c].buf[p], Head(in))
               rest == Tail(in)
    <3>1. call' = [call EXCEPT ![c].in = rest, ![c].buf[p] = buf] /\ call[c].pc = "read"
      BY <1>2, <2>2, Zenon DEF ReadRow
    <3> HIDE DEF in, p, buf, rest
    <3>2. Moves(c, "read")
      BY <3>1 DEF Shapes, Shaped, Moves, Others, Fields
    <3> QED BY <3>1, <3>2, Zenon
  <2> QED BY <2>1, <2>2, Zenon
<1>3. CASE StorePart(c)
  <2>1. CASE Goto(c, "fail")
    BY <1>3, <2>1, GotoMoves, Zenon DEF StorePart
  <2>2. CASE ~Goto(c, "fail")
    <3>1. PICK pc, p : pc \in {"ok", "store"} /\ call' = [call EXCEPT ![c].pc = pc, ![c].part = p]
      BY <1>3, <2>2 DEF StorePart
    <3>2. Moves(c, pc)
      BY <3>1, Zenon DEF Shapes, Shaped, Moves, Others, Fields
    <3> QED BY <1>3, <3>1, <3>2, Zenon DEF StorePart
  <2> QED BY <2>1, <2>2, Zenon
<1> QED BY <1>1, <1>2, <1>3, Zenon

LEMMA RunSteps ==
    ASSUME WorkerInv, NEW c \in Call, Inputs(c) \/ ReadRow(c) \/ StorePart(c)
    PROVE  WorkerInv'
<1> DEFINE t == call[c].name
<1>1. PICK pc : Moves(c, pc) /\ RunTo(c, pc)
  BY RunMoves, Zenon DEF WorkerInv
<1>2. Kept
  BY Zenon DEF Inputs, ReadRow, StorePart, Kept, Quiet, driverVars, history
<1>3. Shaped(call[c]) /\ call[c].op = "run" /\ ~call[c].waited
  BY <1>1, Zenon DEF WorkerInv, Shapes, Shaped, RunTo
<1>4. Shaped(call'[c])
  BY <1>1, <1>3, Zenon DEF Shaped, Moves, RunPCs, InsidePCs, RunTo
<1>5. Settles(call'[c]) => t \notin Combines
  BY <1>1, <1>3, Zenon DEF Moves, Settles, Shaped, RunTo
<1> QED
  BY <1>1, <1>2, <1>3, <1>4, <1>5, MoveKeeps, Zenon DEF Moves, Owns, InsidePCs, RunTo

LEMMA ReadFailsStep ==
    ASSUME WorkerInv, NEW c \in Call, ReadFails(c)
    PROVE  WorkerInv'
<1>1. PICK pc : /\ Moves(c, pc)
                /\ \/ call[c].pc = "read" /\ pc = "fail"
                   \/ call[c].pc = "combine" /\ pc = "leaveErr"
  BY GotoMoves, Zenon DEF WorkerInv, ReadFails
<1>2. Kept
  BY Zenon DEF ReadFails, Kept, Quiet, driverVars, history
<1>3. Shaped(call[c]) /\ call[c].op = "run" /\ ~call[c].waited
  BY <1>1, Zenon DEF WorkerInv, Shapes, Shaped, InsidePCs
<1>4. Shaped(call'[c])
  BY <1>1, <1>3, Zenon DEF Shaped, Moves, RunPCs, InsidePCs
<1> QED
  BY <1>1, <1>2, <1>3, <1>4, MoveKeeps, Zenon DEF Moves, Owns, Settles, InsidePCs

\* Filling frames and flushing them stays inside runCombine.  The effect of
\* each step on the call and on the combiner it takes or gives back.
LEMMA CombineRowMoves ==
    ASSUME Shapes, NEW c \in Call, CombineRow(c)
    PROVE  \E pc, p : /\ call[c].pc = "combine" /\ Moves(c, pc)
                      /\ pc \in {"rest", "combine", "leaveErr", "put", "take"}
                      /\ call'[c].gen = call[c].gen /\ call'[c].part = p
                      /\ pool' = IF pc = "put"
                                 THEN [pool EXCEPT ![KeyOf(call[c].name)][call[c].gen][p].by = c]
                                 ELSE pool
<1>1. CASE call[c].in = <<>>
  <2>1. /\ call' = [call EXCEPT ![c].pc = "rest", ![c].part = 1] /\ pool' = pool
        /\ call[c].pc = "combine"
    BY <1>1, Zenon DEF CombineRow
  <2>2. Moves(c, "rest") /\ call'[c].gen = call[c].gen /\ call'[c].part = 1
    BY <2>1, SMTT(30) DEF Shapes, Shaped, Moves, Others, Fields
  <2> WITNESS "rest", 1
  <2> QED BY <2>1, <2>2, Zenon
<1>2. CASE call[c].in # <<>>
  <2> DEFINE k == KeyOf(call[c].name)
             g == call[c].gen
             in == call[c].in
             p == PartOf[call[c].name][Head(in)]
             buf == Append(call[c].buf[p], Head(in))
             next == IF Len(buf) <= Half THEN "combine"
                     ELSE IF g = 0 THEN "leaveErr"
                     ELSE IF ~(pool[k][g][p].by # NoCall) THEN "put"
                     ELSE IF Len(buf) >= Full THEN "take" ELSE "combine"
             rest == Tail(in)
  <2>1. /\ call' = [call EXCEPT ![c].in = rest, ![c].buf[p] = buf, ![c].pc = next, ![c].part = p]
        /\ pool' = IF next = "put" THEN [pool EXCEPT ![k][g][p].by = c] ELSE pool
        /\ call[c].pc = "combine"
    BY <1>2, Zenon DEF CombineRow
  <2>2. next \in {"combine", "leaveErr", "put", "take"}
    BY Zenon
  <2> HIDE DEF in, p, buf, next, rest
  <2>3. Moves(c, next) /\ call'[c].gen = call[c].gen /\ call'[c].part = p
    BY <2>1, SMTT(30) DEF Shapes, Shaped, Moves, Others, Fields
  <2> QED BY <2>1, <2>2, <2>3, Zenon
<1> QED BY <1>1, <1>2, Zenon

LEMMA TakeMoves ==
    ASSUME Shapes, NEW c \in Call, Take(c)
    PROVE  \E pc : /\ call[c].pc \in {"take", "rest"} /\ Moves(c, pc)
                   /\ pc \in {"leaveErr", "put", "putRest"}
                   /\ call'[c].gen = call[c].gen /\ call'[c].part = call[c].part
                   /\ pool' = IF pc = "leaveErr" THEN pool
                              ELSE [pool EXCEPT ![KeyOf(call[c].name)][call[c].gen][call[c].part].by = c]
<1> DEFINE taken == [pool EXCEPT ![KeyOf(call[c].name)][call[c].gen][call[c].part].by = c]
           next == IF call[c].pc = "take" THEN "put" ELSE "putRest"
<1>0. /\ call[c].pc \in {"take", "rest"}
      /\ \/ Goto(c, "leaveErr") /\ pool' = pool
         \/ Goto(c, next) /\ pool' = taken
  BY Zenon DEF Take
<1> HIDE DEF taken
<1>1. PICK pc : /\ Goto(c, pc) /\ pc \in {"leaveErr", "put", "putRest"} /\ call[c].pc \in {"take", "rest"}
                /\ pool' = IF pc = "leaveErr" THEN pool ELSE taken
  BY <1>0
<1>2. Moves(c, pc)
  BY <1>1, GotoMoves, Zenon
<1>3. call'[c].gen = call[c].gen /\ call'[c].part = call[c].part
  BY <1>1, Zenon DEF Goto, Shapes, Shaped, Fields
<1> QED BY <1>1, <1>2, <1>3, Zenon DEF taken

LEMMA PutMoves ==
    ASSUME Shapes, NEW c \in Call, Put(c)
    PROVE  /\ call[c].pc \in {"put", "putRest"} /\ call'[c].gen = call[c].gen
           /\ \E pc \in {"combine", "leaveOk", "rest", "leaveErr"} : Moves(c, pc)
<1>0. call[c].pc \in {"put", "putRest"}
  BY Zenon DEF Put
<1> PICK failed : failed = [call EXCEPT ![c].pc = "leaveErr", ![c].gave = TRUE]
  BY Zenon
<1>1. CASE call' = failed
  <2>1. Moves(c, "leaveErr") /\ call'[c].gen = call[c].gen
    BY <1>1 DEF Shapes, Shaped, Moves, Others, Fields
  <2> QED BY <1>0, <2>1, Zenon
<1>2. CASE call' # failed
  <2> DEFINE p == call[c].part
             next == IF call[c].pc = "put" THEN "combine"
                     ELSE IF p = NumPartition THEN "leaveOk" ELSE "rest"
             gave == call[c].gave \/ call[c].buf[p] # <<>>
             part == IF next = "rest" THEN p + 1 ELSE p
  <2>1. call' = [call EXCEPT ![c].pc = next, ![c].buf[p] = <<>>, ![c].gave = gave, ![c].part = part]
    BY <1>2, Zenon DEF Put
  <2>2. next \in {"combine", "leaveOk", "rest"}
    BY Zenon
  <2> HIDE DEF next, gave, part
  <2>3. Moves(c, next) /\ call'[c].gen = call[c].gen
    BY <2>1 DEF Shapes, Shaped, Moves, Others, Fields
  <2> QED BY <1>0, <2>2, <2>3, Zenon
<1> QED BY <1>1, <1>2, Zenon

LEMMA InsideSteps ==
    ASSUME WorkerInv, NEW c \in Call, CombineRow(c) \/ Take(c) \/ Put(c)
    PROVE  WorkerInv'
<1>1. call[c].pc \in InsidePCs /\ \E pc \in InsidePCs : Moves(c, pc)
  <2>1. Shapes
    BY Zenon DEF WorkerInv
  <2>2. CASE CombineRow(c)
    BY <2>1, <2>2, CombineRowMoves, Zenon DEF InsidePCs
  <2>3. CASE Take(c)
    BY <2>1, <2>3, TakeMoves, Zenon DEF InsidePCs
  <2>4. CASE Put(c)
    BY <2>1, <2>4, PutMoves, Zenon DEF InsidePCs
  <2> QED BY <2>2, <2>3, <2>4, Zenon
<1>2. PICK pc \in InsidePCs : Moves(c, pc)
  BY <1>1, Zenon
<1>3. Kept
  BY Zenon DEF CombineRow, Take, Put, Kept, Quiet, driverVars, history
<1>4. Shaped(call[c]) /\ call[c].op = "run" /\ ~call[c].waited
  BY <1>1, Zenon DEF WorkerInv, Shapes, Shaped, InsidePCs
<1>5. Shaped(call'[c])
  BY <1>1, <1>2, <1>4, Zenon DEF Shaped, Moves, RunPCs, InsidePCs
<1> QED
  BY <1>1, <1>2, <1>3, <1>4, <1>5, MoveKeeps, Zenon DEF Moves, Owns, Settles, InsidePCs

LEMMA RemoveStep ==
    ASSUME WorkerInv, NEW c \in Call, RemovePart(c)
    PROVE  WorkerInv'
<1>1. PICK pc \in {"remove", "reset"} : Moves(c, pc)
  BY DEF RemovePart, WorkerInv, Shapes, Shaped, Moves, Others, Fields
<1>2. call[c].pc = "remove" /\ Kept
  BY Zenon DEF RemovePart, Kept, Quiet, driverVars, history
<1>3. Shaped(call[c]) /\ call[c].op = "discard"
  BY <1>2, Zenon DEF WorkerInv, Shapes, Shaped, RunPCs, InsidePCs
<1>4. Shaped(call'[c])
  BY <1>1, <1>2, <1>3, Zenon DEF Shaped, Moves, InsidePCs
<1> QED
  BY <1>1, <1>2, <1>3, <1>4, MoveKeeps, Zenon DEF Moves, Owns, Settles, InsidePCs

-----------------------------------------------------------------------------
(* Calls that take a task and calls that end.                              *)

LEMMA CountsKept ==
    ASSUME OneWriter, CountsRuns, mixed \subseteq mixed', UNCHANGED <<key, writers>>,
           \A d \in Call : Inside(d)' <=> Inside(d),
           \A d \in Call : Inside(d) => call'[d].name = call[d].name
    PROVE  OneWriter' /\ CountsRuns'
<1>1. \A k : ~MixedKey(k)' => ~MixedKey(k)
  BY UnmixedBefore, Zenon
<1>2. \A k : InsideOf(k)' = InsideOf(k)
  BY SameInside, Zenon
<1> QED
  BY <1>1, <1>2, Zenon DEF OneWriter, CountsRuns, Combined, KeyOf

LEMMA OwnsTask ==
    ASSUME NEW r, Shaped(r), Owns(r)
    PROVE  r.name \in Task
BY Zenon DEF Shaped, Owns, RunPCs, InsidePCs

\* A task that is not running gets an owner and is TaskRunning.
LEMMA Acquires ==
    ASSUME WorkerInv, NEW c \in Call, NEW pc, Moves(c, pc), Shaped(call'[c]),
           call[c].pc \notin {"idle"} \cup InsidePCs, pc \notin InsidePCs, call[c].name \in Task,
           ts[call[c].name] # TaskRunning,
           ts' = [ts EXCEPT ![call[c].name] = TaskRunning],
           UNCHANGED <<key, writers, mixed, load, replied, compiled>>,
           Settles(call'[c]) => ts[call[c].name] = TaskOk
    PROVE  WorkerInv'
<1>1. Shapes'
  BY ShapesKept, Zenon DEF WorkerInv, Shapes, Moves, Others
<1>2. AfterCompile'
  BY Zenon DEF WorkerInv, AfterCompile, Moves, Others
<1>3. \A d \in Call : /\ d # c => call'[d] = call[d]
                      /\ call'[d].name = call[d].name
  BY Zenon DEF Moves, Others
<1>4. Owned'
  <2>1. \A d \in Call : Owns(call[d]) /\ call[d].name \notin mixed => call[d].name # call[c].name
    BY Zenon DEF WorkerInv, Owned
  <2> QED
    BY <1>3, <2>1, OwnsTask DEF WorkerInv, Owned, Shapes
<1>5. Settled'
  BY <1>3 DEF WorkerInv, Settled, Shapes, TaskOk, TaskRunning
<1>6. OneWriter' /\ CountsRuns'
  <2>1. \A d \in Call : Inside(d)' <=> Inside(d)
    BY <1>3, Zenon DEF Inside, InsidePCs, Moves
  <2> QED BY <1>3, <2>1, CountsKept, Zenon DEF WorkerInv
<1> QED
  BY <1>1, <1>2, <1>4, <1>5, <1>6, Zenon DEF WorkerInv

\* A call that ends gives its task another state only if it owned the task, or
\* the task counts as mixed from then on.
LEMMA Ends ==
    ASSUME WorkerInv, NEW c \in Call, Becomes(c, Unused),
           call[c].pc \notin {"idle"} \cup InsidePCs,
           UNCHANGED <<key, writers, load, compiled>>,
           DOMAIN replied' = Name, mixed \subseteq mixed', mixed' \subseteq Task,
           \/ ts' = ts
           \/ /\ call[c].name \in Task
              /\ call[c].waited => call[c].name \in mixed'
              /\ ~call[c].waited => Owns(call[c])
              /\ \E s : /\ ts' = [ts EXCEPT ![call[c].name] = s]
                        /\ s = TaskOk /\ ~call[c].waited => Settles(call[c])
    PROVE  WorkerInv'
<1>1. Shapes'
  BY ShapesKept, UnusedShaped, Zenon DEF WorkerInv, Shapes, Becomes, Others
<1>2. AfterCompile'
  BY Zenon DEF WorkerInv, AfterCompile
<1>3. \A d \in Call : d # c => call'[d] = call[d]
  BY Zenon DEF Becomes, Others
<1>4. ~Owns(call'[c]) /\ ~Settles(call'[c])
  BY UnusedShaped, Zenon DEF Becomes
<1>5. Owned'
  <2> SUFFICES ASSUME NEW d \in Call, Owns(call'[d]), call'[d].name \notin mixed'
               PROVE  /\ ts'[call'[d].name] = TaskRunning
                      /\ \A e \in Call : Owns(call'[e]) /\ call'[e].name = call'[d].name => d = e
    BY Zenon DEF Owned
  <2>1. d # c /\ call'[d] = call[d]
    BY <1>3, <1>4, Zenon
  <2>2. /\ ts[call[d].name] = TaskRunning
        /\ \A e \in Call : Owns(call[e]) /\ call[e].name = call[d].name => d = e
    BY <2>1, Zenon DEF WorkerInv, Owned
  <2>3. ts' = ts \/ call[c].name # call[d].name
    BY <2>1, <2>2, Zenon
  <2>4. ts'[call[d].name] = ts[call[d].name]
    BY <2>1, <2>3, OwnsTask, Zenon DEF WorkerInv, Shapes
  <2> QED
    BY <1>3, <1>4, <2>1, <2>2, <2>4, Zenon
<1>6. Settled'
  <2> SUFFICES ASSUME NEW t \in Combines, CombineKey[t] = NoKey, t \notin mixed'
               PROVE  /\ ts'[t] = TaskOk => key[t].state # combinerWriting
                      /\ \A d \in Call : call'[d].name = t /\ Settles(call'[d]) =>
                           key[t].state # combinerWriting
    BY Zenon DEF Settled
  <2>1. /\ ts[t] = TaskOk => key[t].state # combinerWriting
        /\ \A d \in Call : call[d].name = t /\ Settles(call[d]) => key[t].state # combinerWriting
    BY Zenon DEF WorkerInv, Settled
  <2>2. ts'[t] = TaskOk => key[t].state # combinerWriting
    BY <2>1, WorkerAssumption, Zenon DEF WorkerInv, Shapes
  <2> QED
    BY <1>3, <1>4, <2>1, <2>2, Zenon
<1>7. OneWriter' /\ CountsRuns'
  <2>1. \A d \in Call : Inside(d)' <=> Inside(d)
    BY <1>3, UnusedShaped, Zenon DEF Inside, InsidePCs, Becomes
  <2>2. \A d \in Call : Inside(d) => call'[d].name = call[d].name
    BY <1>3, UnusedShaped, Zenon DEF Inside, InsidePCs, Becomes
  <2> QED BY <2>1, <2>2, CountsKept, Zenon DEF WorkerInv
<1> QED
  BY <1>1, <1>2, <1>5, <1>6, <1>7, Zenon DEF WorkerInv

LEMMA EnterStep ==
    ASSUME WorkerInv, NEW c \in Call, Enter(c)
    PROVE  WorkerInv'
<1>1. call[c].pc = "enter" /\ Shaped(call[c]) /\ call[c].op = "run" /\ ~call[c].waited /\ call[c].name \in Task
  BY Zenon DEF Enter, WorkerInv, Shapes, Shaped, InsidePCs
<1>2. UNCHANGED <<key, writers, mixed, load, replied, compiled>>
  BY Zenon DEF Enter, Quiet, driverVars, history
<1>3. CASE ts[call[c].name] \in {TaskLost, TaskErr, TaskInit}
  <2>1. Moves(c, "inputs") /\ ts' = [ts EXCEPT ![call[c].name] = TaskRunning]
    BY <1>3, GotoMoves, Zenon DEF Enter, WorkerInv
  <2>2. Shaped(call'[c]) /\ ~Settles(call'[c])
    BY <1>1, <2>1, Zenon DEF Shaped, Moves, RunPCs, InsidePCs, Settles
  <2>3. ts[call[c].name] # TaskRunning
    BY <1>3 DEF TaskLost, TaskErr, TaskInit, TaskRunning
  <2> QED
    BY <1>1, <1>2, <2>1, <2>2, <2>3, Acquires, Zenon DEF InsidePCs
<1>4. CASE ts[call[c].name] \notin {TaskLost, TaskErr, TaskInit}
  <2>1. /\ call' = [call EXCEPT ![c].pc = "wait", ![c].waited = TRUE]
        /\ UNCHANGED ts
    BY <1>4, Zenon DEF Enter
  <2>2. /\ DOMAIN call' = Call /\ Others(c) /\ DOMAIN call'[c] = Fields
        /\ call'[c].op = "run" /\ call'[c].name = call[c].name
        /\ call'[c].pc = "wait" /\ call'[c].waited = TRUE
    BY <1>1, <2>1, Zenon DEF WorkerInv, Shapes, Shaped, Others, Fields
  <2>3. /\ Shaped(call'[c]) /\ ~Settles(call'[c]) /\ ~Owns(call'[c])
        /\ ~Settles(call[c]) /\ ~Owns(call[c])
    BY <1>1, <2>2, Zenon DEF Shaped, RunPCs, InsidePCs, Settles, Owns
  <2>4. Shapes'
    BY <1>2, <2>1, <2>2, <2>3, ShapesKept, Zenon DEF WorkerInv, Shapes, Others
  <2>5. AfterCompile'
    BY <1>1, <1>2, Zenon DEF WorkerInv, AfterCompile
  <2>6. Owned'
    BY <1>2, <2>1, <2>2, <2>3 DEF WorkerInv, Owned, Others
  <2>7. Settled'
    BY <1>2, <2>1, <2>2, <2>3, Zenon DEF WorkerInv, Settled, Others
  <2>8. \A d \in Call : (Inside(d)' <=> Inside(d)) /\ call'[d].name = call[d].name
    BY <1>1, <2>2, Zenon DEF Inside, Others
  <2>9. OneWriter' /\ CountsRuns'
    BY <1>2, <2>8, CountsKept, Zenon DEF WorkerInv
  <2> QED
    BY <2>4, <2>5, <2>6, <2>7, <2>9, Zenon DEF WorkerInv
<1> QED
  BY <1>3, <1>4, Zenon

LEMMA ReplyFacts ==
    ASSUME WorkerInv, NEW c \in Call, NEW answer, Reply(c, answer),
           call[c].waited => call[c].name \in Task
    PROVE  /\ Becomes(c, Unused) /\ UNCHANGED <<key, writers, load, compiled>>
           /\ DOMAIN replied' = Name /\ mixed \subseteq mixed' /\ mixed' \subseteq Task
           /\ call[c].waited /\ ts' # ts => call[c].name \in mixed'
<1>1. Becomes(c, Unused)
  BY ReplyBecomes, Zenon DEF WorkerInv
<1>2. UNCHANGED <<key, writers, load, compiled>> /\ DOMAIN replied' = Name
  BY Zenon DEF Reply, WorkerInv, Shapes
<1>3. mixed' = IF call[c].waited /\ ts' # ts THEN mixed \cup {call[c].name} ELSE mixed
  BY Zenon DEF Reply
<1>4. mixed \subseteq Task
  BY Zenon DEF WorkerInv, Shapes
<1> QED
  BY <1>1, <1>2, <1>3, <1>4, Zenon

LEMMA EndSteps ==
    ASSUME WorkerInv, NEW c \in Call, EndOk(c) \/ EndErr(c)
    PROVE  WorkerInv'
<1>1. call[c].pc \in {"ok", "fail"} /\ Shaped(call[c])
  BY Zenon DEF EndOk, EndErr, WorkerInv, Shapes
<1>2. call[c].waited => call[c].name \in Task
  BY <1>1, Zenon DEF Shaped
<1>3. PICK answer : Reply(c, answer)
  BY Zenon DEF EndOk, EndErr
<1>4. /\ Becomes(c, Unused) /\ UNCHANGED <<key, writers, load, compiled>>
      /\ DOMAIN replied' = Name /\ mixed \subseteq mixed' /\ mixed' \subseteq Task
      /\ call[c].waited /\ ts' # ts => call[c].name \in mixed'
  BY <1>2, <1>3, ReplyFacts, Zenon
<1>5. call[c].pc \notin {"idle"} \cup InsidePCs
  BY <1>1, Zenon DEF InsidePCs
<1>6. CASE ts' = ts
  BY <1>4, <1>5, <1>6, Ends, Zenon
<1>7. CASE ts' # ts
  <2>1. /\ call[c].op = "run" /\ call[c].name \in Task
        /\ \E s : /\ ts' = [ts EXCEPT ![call[c].name] = s]
                  /\ s = TaskOk => call[c].pc = "ok"
    BY <1>1, <1>7, SMTT(30) DEF EndOk, EndErr, TaskErr, TaskOk, Shaped
  <2>2. /\ ~call[c].waited => Owns(call[c])
        /\ ~call[c].waited /\ call[c].pc = "ok" => Settles(call[c])
    BY <1>1, <2>1, Zenon DEF Owns, Settles
  <2> QED
    BY <1>4, <1>5, <1>7, <2>1, <2>2, Ends, Zenon
<1> QED
  BY <1>6, <1>7, Zenon

LEMMA DiscardSteps ==
    ASSUME WorkerInv, NEW c \in Call, DiscardStart(c) \/ SetLost(c)
    PROVE  WorkerInv'
<1>1. call[c].pc \in {"discard", "lost"} /\ Shaped(call[c])
  BY Zenon DEF DiscardStart, SetLost, WorkerInv, Shapes
<1>2. /\ call[c].op = "discard" /\ call[c].name \in Task /\ ~call[c].waited
      /\ call[c].pc \notin {"idle"} \cup InsidePCs
  BY <1>1, Zenon DEF Shaped, RunPCs, InsidePCs
<1>3. CASE DiscardStart(c) /\ ts[call[c].name] = TaskOk
  <2>1. /\ Moves(c, "remove") /\ ts' = [ts EXCEPT ![call[c].name] = TaskRunning]
        /\ UNCHANGED <<key, writers, mixed, load, replied, compiled>>
    BY <1>3, GotoMoves, Zenon DEF DiscardStart, WorkerInv, Quiet, driverVars
  <2>2. Shaped(call'[c]) /\ ts[call[c].name] # TaskRunning
    BY <1>1, <1>2, <1>3, <2>1, SMTT(30) DEF Shaped, Moves, InsidePCs, TaskOk, TaskRunning
  <2> QED
    BY <1>2, <1>3, <2>1, <2>2, Acquires, Zenon DEF InsidePCs
<1>4. CASE DiscardStart(c) /\ ts[call[c].name] # TaskOk
  <2>1. ts' = ts /\ Reply(c, "none")
    BY <1>4, Zenon DEF DiscardStart
  <2> QED
    BY <1>2, <2>1, ReplyFacts, Ends, Zenon
<1>5. CASE SetLost(c)
  <2>1. /\ Reply(c, "none") /\ Owns(call[c])
        /\ ts' = [ts EXCEPT ![call[c].name] = TaskLost] /\ TaskLost # TaskOk
    BY <1>5, SMTT(30) DEF SetLost, Owns, TaskLost, TaskOk
  <2>2. /\ Becomes(c, Unused) /\ UNCHANGED <<key, writers, load, compiled>>
        /\ DOMAIN replied' = Name /\ mixed \subseteq mixed' /\ mixed' \subseteq Task
    BY <1>2, <2>1, ReplyFacts, Zenon
  <2> QED
    BY <1>2, <2>1, <2>2, Ends, Zenon
<1> QED
  BY <1>3, <1>4, <1>5, Zenon

-----------------------------------------------------------------------------
(* New calls, the compilation, and steps that concern none of this.        *)

\* Call d begins with record r; the others keep what the invariant looks at.
Begins(d, r) ==
    /\ DOMAIN call' = Call /\ call'[d] = r
    /\ \A e \in Call : e # d => /\ Shaped(call'[e])
                                /\ call'[e].op = call[e].op /\ call'[e].name = call[e].name
                                /\ call'[e].pc = call[e].pc /\ call'[e].waited = call[e].waited

LEMMA BeginKeeps ==
    ASSUME WorkerInv, NEW d \in Call, NEW r, call[d].pc = "idle", Begins(d, r), Shaped(r),
           ~Owns(r), ~Settles(r), r.pc \notin InsidePCs, compiled,
           UNCHANGED <<ts, key, writers, mixed, load, compiled>>, DOMAIN replied' = Name
    PROVE  WorkerInv'
<1>1. Shapes'
  BY ShapesKept, Zenon DEF WorkerInv, Shapes, Begins
<1>2. AfterCompile'
  BY Zenon DEF WorkerInv, AfterCompile
<1>3. \A e \in Call : /\ Owns(call'[e]) => Owns(call[e]) /\ call'[e].name = call[e].name
                      /\ Settles(call'[e]) => Settles(call[e]) /\ call'[e].name = call[e].name
  BY Zenon DEF Begins, Owns, Settles
<1>4. Owned'
  BY <1>3, Zenon DEF WorkerInv, Owned
<1>5. Settled'
  BY <1>3, Zenon DEF WorkerInv, Settled
<1>6. \A k : MixedKey(k)' <=> MixedKey(k)
  BY Zenon DEF MixedKey
<1>7. OneWriter'
  BY <1>6, Zenon DEF WorkerInv, OneWriter
<1>8. \A e \in Call : (Inside(e)' <=> Inside(e)) /\ (Inside(e) => call'[e].name = call[e].name)
  BY Zenon DEF Inside, InsidePCs, Begins
<1>9. \A k : InsideOf(k)' = InsideOf(k)
  BY <1>8, SameInside, Zenon
<1>10. CountsRuns'
  BY <1>6, <1>9, Zenon DEF WorkerInv, CountsRuns
<1> QED
  BY <1>1, <1>2, <1>4, <1>5, <1>7, <1>10, Zenon DEF WorkerInv

\* The record of a new call.
NewCall(op, n, pc) == [Unused EXCEPT !.op = op, !.name = n, !.pc = pc]

LEMMA NewCallIsNew ==
    ASSUME NEW op, NEW n, NEW pc,
           \/ op = "run" /\ pc = "enter" /\ n \in Task
           \/ op = "commit" /\ pc = "commit" /\ n \in Key
           \/ op = "discard" /\ pc = "discard" /\ n \in Task /\ CombineKey[n] = NoKey
    PROVE  /\ Shaped(NewCall(op, n, pc)) /\ ~Owns(NewCall(op, n, pc))
           /\ ~Settles(NewCall(op, n, pc)) /\ NewCall(op, n, pc).pc \notin InsidePCs
<1> PICK r : r = NewCall(op, n, pc)
  BY Zenon
<1>1. /\ DOMAIN r = Fields /\ r.op = op /\ r.name = n /\ r.pc = pc /\ r.waited = FALSE
  BY Zenon DEF NewCall, Unused, Fields
<1> QED
  BY <1>1, Zenon DEF Shaped, Owns, Settles, RunPCs, InsidePCs

LEMMA IssueStep ==
    ASSUME WorkerInv, NEW c \in Call, NEW n, NEW op, NEW pc, Issue(c, n, op, pc), compiled,
           DOMAIN replied' = Name,
           \/ op = "run" /\ pc = "enter" /\ n \in Task
           \/ op = "commit" /\ pc = "commit" /\ n \in Key
           \/ op = "discard" /\ pc = "discard" /\ n \in Task /\ CombineKey[n] = NoKey
    PROVE  WorkerInv'
<1>1. /\ call[c].pc = "idle" /\ call' = [call EXCEPT ![c] = NewCall(op, n, pc)]
      /\ UNCHANGED <<ts, key, writers, mixed, load, compiled>>
  BY Zenon DEF Issue, NextFree, NewCall, history
<1>2. Begins(c, NewCall(op, n, pc))
  BY <1>1, Zenon DEF Begins, WorkerInv, Shapes
<1> QED
  BY <1>1, <1>2, NewCallIsNew, BeginKeeps, Zenon

LEMMA IssueSteps ==
    ASSUME WorkerInv, NEW c \in Call, NEW n \in Name,
           \/ n \in Task /\ (IssueRun(c, n) \/ IssueDiscard(c, n))
           \/ n \in Key /\ IssueCommit(c, n)
    PROVE  WorkerInv'
<1>1. CASE n \in Task /\ IssueRun(c, n)
  <2>1. Issue(c, n, "run", "enter") /\ compiled /\ DOMAIN replied' = Name
    BY <1>1, Zenon DEF IssueRun, WorkerInv, Shapes
  <2> QED BY <1>1, <2>1, IssueStep, Zenon
<1>2. CASE n \in Task /\ IssueDiscard(c, n)
  <2>1. /\ Issue(c, n, "discard", "discard") /\ replied[n] = "ok" /\ CombineKey[n] = NoKey
        /\ replied' = [replied EXCEPT ![n] = "none"]
    BY <1>2, Zenon DEF IssueDiscard
  <2>2. compiled /\ DOMAIN replied' = Name
    BY <2>1, Zenon DEF WorkerInv, Shapes, AfterCompile
  <2> QED BY <1>2, <2>1, <2>2, IssueStep, Zenon
<1>3. CASE n \in Key /\ IssueCommit(c, n)
  <2>1. /\ Issue(c, n, "commit", "commit") /\ replied' = replied
        /\ \E t \in Task : replied[t] = "ok"
    BY <1>3, Zenon DEF IssueCommit
  <2>2. compiled /\ DOMAIN replied' = Name
    BY <2>1, Zenon DEF WorkerInv, Shapes, AfterCompile, Name
  <2> QED BY <1>3, <2>1, <2>2, IssueStep, Zenon
<1> QED
  BY <1>1, <1>2, <1>3, Zenon

LEMMA DropStep ==
    ASSUME WorkerInv, NEW c \in Call, NEW d \in Call, call[c].pc # "idle", Drop(c, d)
    PROVE  WorkerInv'
<1> PICK op, n : op = call[c].op /\ n = call[c].name
  BY Zenon
<1> DEFINE start == [run |-> "enter", commit |-> "commit", discard |-> "discard"]
<1> PICK pc : pc = start[op]
  BY Zenon
<1>1. Shaped(call[c]) /\ DOMAIN call = Call
  BY Zenon DEF WorkerInv, Shapes
<1>2. \/ op = "run" /\ pc = "enter" /\ n \in Task
      \/ op = "commit" /\ pc = "commit" /\ n \in Key
      \/ op = "discard" /\ pc = "discard" /\ n \in Task /\ CombineKey[n] = NoKey
  BY <1>1, SMTT(30) DEF Shaped
<1>3. /\ call[d].pc = "idle" /\ call' = [call EXCEPT ![c].dead = TRUE, ![d] = NewCall(op, n, pc)]
      /\ UNCHANGED <<ts, key, writers, mixed, load, replied, compiled>>
  BY Zenon DEF Drop, NextFree, NewCall, history
<1>4. c # d
  BY <1>3, Zenon
<1>5. /\ DOMAIN call' = Call /\ call'[d] = NewCall(op, n, pc)
      /\ \A e \in Call : e \notin {c, d} => call'[e] = call[e]
      /\ call'[c] = [call[c] EXCEPT !.dead = TRUE]
  BY <1>1, <1>3, <1>4, Zenon
<1>6. /\ DOMAIN call'[c] = Fields /\ call'[c].op = op /\ call'[c].name = n
      /\ call'[c].pc = call[c].pc /\ call'[c].waited = call[c].waited
  BY <1>1, <1>5, Zenon DEF Shaped, Fields
<1>7. Shaped(call'[c])
  BY <1>1, <1>6, Zenon DEF Shaped
<1>8. Begins(d, NewCall(op, n, pc))
  BY <1>5, <1>6, <1>7, Zenon DEF Begins, WorkerInv, Shapes
<1>9. compiled /\ DOMAIN replied' = Name
  BY <1>3, Zenon DEF WorkerInv, Shapes, AfterCompile
<1> QED
  BY <1>2, <1>3, <1>8, <1>9, NewCallIsNew, BeginKeeps, Zenon

\* The invocation is compiled for the first time before there are calls.
LEMMA CompileStep ==
    ASSUME WorkerInv, Compile
    PROVE  WorkerInv'
<1>1. /\ UNCHANGED <<key, writers, mixed, load, replied, call>> /\ compiled'
      /\ ts' = ts \/ (~compiled /\ ts' = [t \in Task |-> TaskInit])
  BY Zenon DEF Compile, driverVars, history, WorkerInv, AfterCompile
<1>2. Shapes' /\ AfterCompile'
  BY <1>1, Zenon DEF WorkerInv, Shapes, AfterCompile
<1>3. ~compiled => \A c \in Call : ~Owns(call[c]) /\ ~Settles(call[c])
  <2>1. ~compiled => \A c \in Call : call[c].pc = "idle" /\ Shaped(call[c])
    BY Zenon DEF WorkerInv, AfterCompile, Shapes
  <2> QED BY <2>1, Zenon DEF Shaped, Owns, Settles, RunPCs, InsidePCs
<1>4. Owned' /\ Settled'
  <2>1. CASE ts' = ts
    BY <1>1, <2>1, Zenon DEF WorkerInv, Owned, Settled
  <2>2. CASE ~compiled /\ ts' = [t \in Task |-> TaskInit]
    BY <1>1, <1>3, <2>2, WorkerAssumption, SMTT(30) DEF Owned, Settled, TaskInit, TaskOk
  <2> QED BY <1>1, <2>1, <2>2, Zenon
<1>5. OneWriter' /\ CountsRuns'
  BY <1>1, Zenon DEF WorkerInv, OneWriter, CountsRuns, MixedKey, InsideOf, Inside
<1> QED
  BY <1>2, <1>4, <1>5, Zenon DEF WorkerInv

LEMMA OtherSteps ==
    ASSUME WorkerInv, UNCHANGED <<call, ts, key, writers, mixed, load, replied, compiled>>
    PROVE  WorkerInv'
BY SMTT(30)
   DEF WorkerInv, Shapes, AfterCompile, Owned, Settled, OneWriter, CountsRuns, MixedKey,
       InsideOf, Inside

-----------------------------------------------------------------------------
(* Calls that change the state of a combiner, and its writers.           *)

\* What the invariant asks of a combiner's record, given the number of runs
\* inside and the writers.
Counted(n, r) == IF n > 0 THEN r.state = combinerIdle + n ELSE r.state \in combinerNone..combinerIdle
Written(r, ws) ==
    /\ r.spawned > 0 => r.spawned = 1 /\ r.state = combinerWriting
    /\ ws # {} => r.spawned = 0 /\ r.state = combinerWriting
    /\ \A v, w \in ws : v = w
WritersOf(k) == {w \in writers : w.key = k}

LEMMA Unmixed ==
    ASSUME WorkerInv, NEW k \in Combined, ~MixedKey(k)
    PROVE  Counted(Cardinality(InsideOf(k)), key[k]) /\ Written(key[k], WritersOf(k))
BY Zenon DEF WorkerInv, CountsRuns, OneWriter, Counted, Written, WritersOf

LEMMA CombinerStep ==
    ASSUME WorkerInv, NEW c \in Call, NEW pc, Moves(c, pc), Shaped(call'[c]), call[c].pc # "idle",
           UNCHANGED <<ts, writers, mixed, load, replied, compiled>>,
           Owns(call'[c]) <=> Owns(call[c]),
           NEW k \in Combined, key' \in [Combined -> KeyRecord],
           \A j \in Combined : j # k => key'[j] = key[j],
           ~MixedKey(k) => Counted(Cardinality(InsideOf(k)'), key'[k]) /\ Written(key'[k], WritersOf(k)),
           \A j \in Combined : j # k => InsideOf(j)' = InsideOf(j),
           Settles(call'[c]) => \/ Settles(call[c]) \/ CombineKey[call[c].name] # NoKey
                                \/ call[c].name \notin Combines,
           \/ key'[k].state # combinerWriting
           \/ k \notin Combines \/ CombineKey[k] # NoKey \/ k \in mixed
           \/ ts[k] # TaskOk /\ \A d \in Call : call[d].name = k => ~Settles(call[d])
    PROVE  WorkerInv'
<1>1. \A d \in Call : /\ d # c => call'[d] = call[d]
                      /\ call'[d].name = call[d].name
  BY Zenon DEF Moves, Others
<1>2. Shapes'
  BY <1>1, Zenon DEF WorkerInv, Shapes, Moves
<1>3. AfterCompile'
  BY Zenon DEF WorkerInv, AfterCompile
<1>4. Owned'
  BY <1>1, Zenon DEF WorkerInv, Owned
<1>5. Settled'
  <2> SUFFICES ASSUME NEW t \in Combines, CombineKey[t] = NoKey, t \notin mixed
               PROVE  /\ ts[t] = TaskOk => key'[t].state # combinerWriting
                      /\ \A d \in Call : call'[d].name = t /\ Settles(call'[d]) =>
                           key'[t].state # combinerWriting
    BY Zenon DEF Settled
  <2>1. /\ ts[t] = TaskOk => key[t].state # combinerWriting
        /\ \A d \in Call : call[d].name = t /\ Settles(call[d]) => key[t].state # combinerWriting
    BY Zenon DEF WorkerInv, Settled
  <2>2. t \in Combined
    BY OwnKey, Zenon
  <2>3. \A d \in Call : call'[d].name = t /\ Settles(call'[d]) => call[d].name = t /\ Settles(call[d])
    BY <1>1, Zenon
  <2> QED
    BY <2>1, <2>2, <2>3, Zenon
<1>6. \A j : MixedKey(j)' <=> MixedKey(j)
  BY Zenon DEF MixedKey
<1>7. \A j \in Combined : ~MixedKey(j) =>
        Counted(Cardinality(InsideOf(j)'), key'[j]) /\ Written(key'[j], WritersOf(j))
  BY Unmixed, Zenon
<1>8. OneWriter'
  BY <1>6, <1>7 DEF OneWriter, Written, WritersOf
<1>9. CountsRuns'
  BY <1>6, <1>7, Zenon DEF CountsRuns, Counted
<1> QED
  BY <1>2, <1>3, <1>4, <1>5, <1>8, <1>9, Zenon DEF WorkerInv

LEMMA KeyOfCombined ==
    ASSUME NEW t \in Combines
    PROVE  KeyOf(t) \in Combined
BY Zenon DEF Combined

LEMMA KeyCombined ==
    ASSUME NEW k \in Key
    PROVE  k \in Combined
BY WorkerAssumption DEF Key, Combined, KeyOf

\* A step of a writer changes one combiner's record and writers, and never
\* makes it combinerWriting.
LEMMA WriterKeeps ==
    ASSUME WorkerInv, UNCHANGED <<call, ts, mixed, load, replied, compiled>>,
           NEW k \in Combined, key' \in [Combined -> KeyRecord],
           writers' \subseteq WriterRecord,
           \A j \in Combined : j # k => key'[j] = key[j] /\ WritersOf(j)' = WritersOf(j),
           key'[k].state = combinerWriting => key[k].state = combinerWriting,
           ~MixedKey(k) => /\ Counted(Cardinality(InsideOf(k)), key'[k])
                           /\ Written(key'[k], WritersOf(k)')
    PROVE  WorkerInv'
<1>1. Shapes' /\ AfterCompile' /\ Owned'
  BY Zenon DEF WorkerInv, Shapes, AfterCompile, Owned
<1>2. Settled'
  <2>1. \A t \in Combines : CombineKey[t] = NoKey => t \in Combined
    BY OwnKey, Zenon
  <2> QED BY <2>1, Zenon DEF WorkerInv, Settled
<1>3. \A j : (MixedKey(j)' <=> MixedKey(j)) /\ InsideOf(j)' = InsideOf(j)
  BY Zenon DEF MixedKey, InsideOf, Inside
<1>4. \A j \in Combined : ~MixedKey(j) =>
        Counted(Cardinality(InsideOf(j)), key'[j]) /\ Written(key'[j], WritersOf(j)')
  BY Unmixed, Zenon
<1>5. OneWriter'
  BY <1>3, <1>4 DEF OneWriter, Written, WritersOf
<1>6. CountsRuns'
  BY <1>3, <1>4, Zenon DEF CountsRuns, Counted
<1> QED
  BY <1>1, <1>2, <1>5, <1>6, Zenon DEF WorkerInv

LEMMA WriteStartStep ==
    ASSUME WorkerInv, NEW k \in Combined, WriteStart(k)
    PROVE  WorkerInv'
<1> PICK w : w = [key |-> k, gen |-> key[k].gen, failed |-> FALSE,
                  left |-> IF key[k].gen = 0 THEN {} ELSE Part]
  BY Zenon
<1>1. /\ UNCHANGED <<call, ts, mixed, load, replied, compiled>> /\ key[k].spawned > 0
      /\ key' = [key EXCEPT ![k].spawned = @ - 1] /\ writers' = writers \cup {w}
  BY Zenon DEF WriteStart, Quiet, driverVars, history
<1>2. key[k] \in KeyRecord /\ key \in [Combined -> KeyRecord] /\ writers \subseteq WriterRecord
  BY Zenon DEF WorkerInv, Shapes
<1>3. /\ key' \in [Combined -> KeyRecord] /\ key'[k].spawned = key[k].spawned - 1
      /\ key'[k].state = key[k].state /\ \A j \in Combined : j # k => key'[j] = key[j]
  BY <1>1, <1>2 DEF KeyRecord
<1>4. w \in WriterRecord /\ w.key = k
  BY <1>2, Zenon DEF KeyRecord, WriterRecord
<1>5. /\ writers' \subseteq WriterRecord /\ WritersOf(k)' = WritersOf(k) \cup {w}
      /\ \A j \in Combined : j # k => WritersOf(j)' = WritersOf(j)
  BY <1>1, <1>2, <1>4, Zenon DEF WritersOf
<1>6. ASSUME ~MixedKey(k)
      PROVE  Counted(Cardinality(InsideOf(k)), key'[k]) /\ Written(key'[k], WritersOf(k)')
  <2>1. Counted(Cardinality(InsideOf(k)), key[k]) /\ Written(key[k], WritersOf(k))
    BY <1>6, Unmixed, Zenon
  <2>2. key[k].spawned = 1 /\ key[k].state = combinerWriting /\ WritersOf(k) = {}
    BY <1>1, <2>1 DEF Written
  <2> QED
    BY <1>3, <1>5, <2>1, <2>2 DEF Counted, Written
<1> QED
  BY <1>1, <1>3, <1>5, <1>6, WriterKeeps, Zenon

LEMMA WritePartStep ==
    ASSUME WorkerInv, NEW w \in writers, NEW p, WritePart(w, p)
    PROVE  WorkerInv'
<1>1. w \in WriterRecord /\ key \in [Combined -> KeyRecord] /\ writers \subseteq WriterRecord
  BY Zenon DEF WorkerInv, Shapes
<1>2. PICK v : v \in WriterRecord /\ v.key = w.key /\ writers' = (writers \ {w}) \cup {v}
  BY <1>1, Zenon DEF WritePart, WriterRecord
<1>3. UNCHANGED <<call, ts, key, mixed, load, replied, compiled>>
  BY Zenon DEF WritePart, Quiet, driverVars
<1> PICK k : k = w.key
  BY Zenon
<1>4. k \in Combined
  BY <1>1, Zenon DEF WriterRecord
<1>5. /\ writers' \subseteq WriterRecord /\ WritersOf(k)' = (WritersOf(k) \ {w}) \cup {v}
      /\ w \in WritersOf(k)
      /\ \A j \in Combined : j # k => WritersOf(j)' = WritersOf(j)
  BY <1>1, <1>2, Zenon DEF WritersOf
<1>6. ASSUME ~MixedKey(k)
      PROVE  Counted(Cardinality(InsideOf(k)), key'[k]) /\ Written(key'[k], WritersOf(k)')
  <2>1. Counted(Cardinality(InsideOf(k)), key[k]) /\ Written(key[k], WritersOf(k))
    BY <1>4, <1>6, Unmixed, Zenon
  <2> QED
    BY <1>3, <1>5, <2>1, Zenon DEF Written
<1> QED
  BY <1>1, <1>3, <1>4, <1>5, <1>6, WriterKeeps, Zenon

=============================================================================
