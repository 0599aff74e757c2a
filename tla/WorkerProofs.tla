---------------------------- MODULE WorkerProofs ----------------------------
(***************************************************************************)
(* Proofs about module Worker, for every set of tasks and shared           *)
(* combiners, any number of calls and every bound on failures: a task is   *)
(* run by one goroutine at a time, and the integer that is both the state  *)
(* of a combiner and the number of runs that use it is right, however      *)
(* calls are duplicated, fail, commit and discard.                         *)
(***************************************************************************)
EXTENDS WorkerPool, FiniteSetTheorems

-----------------------------------------------------------------------------
(* Calls that change the state of a combiner.                              *)

LEMMA Number ==
    ASSUME NEW k
    PROVE  IsFiniteSet(InsideOf(k)) /\ Cardinality(InsideOf(k)) \in Nat
<1>1. IsFiniteSet(InsideOf(k))
  BY WorkerAssumption, FS_Subset, Zenon DEF InsideOf
<1> QED
  BY <1>1, FS_CardinalityType, Zenon

\* The number of runs inside when one more enters, and when one leaves.
LEMMA Entered ==
    ASSUME NEW c \in Call, ~Inside(c), Inside(c)', call'[c].name = call[c].name, Others(c),
           NEW k, KeyOf(call[c].name) = k
    PROVE  /\ \A j : j # k => InsideOf(j)' = InsideOf(j)
           /\ Cardinality(InsideOf(k)') = Cardinality(InsideOf(k)) + 1
<1>1. \A d \in Call : d # c => (Inside(d)' <=> Inside(d)) /\ call'[d].name = call[d].name
  BY Zenon DEF Others, Inside
<1>2. \A j : j # k => InsideOf(j)' = InsideOf(j)
  BY <1>1, Zenon DEF InsideOf, KeyOf
<1>3. InsideOf(k)' = InsideOf(k) \cup {c} /\ c \notin InsideOf(k)
  BY <1>1, Zenon DEF InsideOf, KeyOf
<1>4. Cardinality(InsideOf(k) \cup {c}) = Cardinality(InsideOf(k)) + 1
  BY <1>3, Number, FS_AddElement, ZenonT(30)
<1> QED
  BY <1>2, <1>3, <1>4, ZenonT(30)

LEMMA Left ==
    ASSUME NEW c \in Call, Inside(c), ~Inside(c)', call'[c].name = call[c].name, Others(c),
           NEW k, KeyOf(call[c].name) = k
    PROVE  /\ \A j : j # k => InsideOf(j)' = InsideOf(j)
           /\ Cardinality(InsideOf(k)) > 0
           /\ Cardinality(InsideOf(k)') = Cardinality(InsideOf(k)) - 1
<1>1. \A d \in Call : d # c => (Inside(d)' <=> Inside(d)) /\ call'[d].name = call[d].name
  BY Zenon DEF Others, Inside
<1>2. \A j : j # k => InsideOf(j)' = InsideOf(j)
  BY <1>1, Zenon DEF InsideOf, KeyOf
<1>3. InsideOf(k)' = InsideOf(k) \ {c} /\ c \in InsideOf(k)
  BY <1>1, Zenon DEF InsideOf, KeyOf
<1>4. Cardinality(InsideOf(k) \ {c}) = Cardinality(InsideOf(k)) - 1
  <2>1. IsFiniteSet(InsideOf(k))
    BY Number, Zenon
  <2>2. Cardinality(InsideOf(k) \ {c}) =
          IF c \in InsideOf(k) THEN Cardinality(InsideOf(k)) - 1 ELSE Cardinality(InsideOf(k))
    BY <2>1, FS_RemoveElement, Zenon
  <2> QED BY <1>3, <2>2, Zenon
<1>5. Cardinality(InsideOf(k)) # 0
  BY <1>3, Number, FS_EmptySet, Zenon
<1> QED
  BY <1>2, <1>3, <1>4, <1>5, Number

LEMMA SharingStep ==
    ASSUME WorkerInv, NEW c \in Call, Share(c)
    PROVE  WorkerInv'
<1> PICK k : KeyOf(call[c].name) = k
  BY Zenon
<1> DEFINE st == key[k].state
<1>1. /\ call[c].pc = "share" /\ Shaped(call[c]) /\ call[c].name \in Combines
      /\ call[c].op = "run" /\ ~call[c].waited
      /\ UNCHANGED <<ts, writers, mixed, load, replied, compiled>>
  BY Zenon DEF Share, WorkerInv, Shapes, Shaped, InsidePCs, Quiet, driverVars, history
<1>2. k \in Combined /\ key[k] \in KeyRecord
  BY <1>1, KeyOfCombined, Zenon DEF WorkerInv, Shapes
<1>3. CASE Goto(c, "fail") /\ UNCHANGED key
  <2>1. Moves(c, "fail") /\ Kept
    BY <1>1, <1>3, GotoMoves, Zenon DEF WorkerInv, Kept
  <2>2. Shaped(call'[c])
    BY <1>1, <2>1, Zenon DEF Shaped, Moves, RunPCs, InsidePCs
  <2> QED
    BY <1>1, <2>1, <2>2, MoveKeeps, ZenonT(30) DEF Moves, Owns, Settles, InsidePCs
<1>4. CASE ~(Goto(c, "fail") /\ UNCHANGED key)
  <2>1. /\ \E g : call' = [call EXCEPT ![c].pc = "combine", ![c].gen = g]
        /\ key' \in [Combined -> KeyRecord] /\ key'[k].spawned = key[k].spawned
        /\ \A j \in Combined : j # k => key'[j] = key[j]
        /\ \/ st = combinerNone /\ key'[k].state = combinerIdle + 1
           \/ st \notin combinerNone..combinerError /\ key'[k].state = st + 1
    <3>1. CASE st = combinerNone
      <4> DEFINE new == key[k].made + 1
      <4>1. /\ call' = [call EXCEPT ![c].pc = "combine", ![c].gen = new]
            /\ key' = [key EXCEPT ![k].state = combinerIdle + 1, ![k].gen = new, ![k].made = new]
        BY <1>4, <3>1 DEF Share, combinerNone, combinerWriting, combinerCommitted, combinerError
      <4>2. combinerIdle + 1 \in Int /\ new \in Nat
        BY <1>2 DEF KeyRecord, combinerIdle
      <4>3. /\ key' \in [Combined -> KeyRecord] /\ key'[k].spawned = key[k].spawned
            /\ \A j \in Combined : j # k => key'[j] = key[j]
            /\ key'[k].state = combinerIdle + 1
        BY <1>2, <4>1, <4>2, Zenon DEF WorkerInv, Shapes, KeyRecord
      <4> QED BY <3>1, <4>1, <4>3, ZenonT(30)
    <3>2. CASE st # combinerNone
      <4>1. /\ call' = [call EXCEPT ![c].pc = "combine", ![c].gen = key[k].gen]
            /\ key' = [key EXCEPT ![k].state = st + 1] /\ st \notin combinerNone..combinerError
        BY <1>4, <3>2, Zenon DEF Share
      <4>2. st \in Int
        BY <1>2, Zenon DEF KeyRecord
      <4>3. /\ key' \in [Combined -> KeyRecord] /\ key'[k].spawned = key[k].spawned
            /\ \A j \in Combined : j # k => key'[j] = key[j]
            /\ key'[k].state = st + 1
        BY <1>2, <4>1, <4>2 DEF WorkerInv, Shapes, KeyRecord
      <4> QED BY <4>1, <4>3, Zenon
    <3> QED BY <3>1, <3>2, Zenon
  <2>2. Moves(c, "combine")
    BY <1>1, <2>1 DEF WorkerInv, Shapes, Shaped, Moves, Others, Fields
  <2>3. Shaped(call'[c]) /\ (Owns(call'[c]) <=> Owns(call[c])) /\ ~Settles(call'[c])
    BY <1>1, <2>2, Zenon DEF Shaped, Moves, RunPCs, InsidePCs, Owns, Settles
  <2>4. ~Inside(c) /\ Inside(c)' /\ call'[c].name = call[c].name /\ Others(c)
    BY <1>1, <2>2, Zenon DEF Inside, Moves
  <2>5. /\ \A j \in Combined : j # k => InsideOf(j)' = InsideOf(j)
        /\ Cardinality(InsideOf(k)') = Cardinality(InsideOf(k)) + 1
    BY <2>4, Entered, Zenon
  <2>6. st \in Int /\ key'[k].state # combinerWriting /\ Cardinality(InsideOf(k)) \in Nat
    BY <1>2, <2>1, Number
       DEF KeyRecord, combinerNone, combinerWriting, combinerError, combinerIdle
  <2>7. ~MixedKey(k) => Counted(Cardinality(InsideOf(k)'), key'[k]) /\ Written(key'[k], WritersOf(k))
    <3> SUFFICES ASSUME ~MixedKey(k) PROVE Counted(Cardinality(InsideOf(k)'), key'[k]) /\ Written(key'[k], WritersOf(k))
      BY Zenon
    <3>1. Counted(Cardinality(InsideOf(k)), key[k]) /\ Written(key[k], WritersOf(k))
      BY <1>2, Unmixed, Zenon
    <3>2. Counted(Cardinality(InsideOf(k)'), key'[k])
      BY <2>1, <2>5, <2>6, <3>1, SMTT(30)
         DEF Counted, combinerNone, combinerWriting, combinerError, combinerIdle
    <3>3. key[k].spawned \in Nat /\ st # combinerWriting
      BY <1>2, <2>1 DEF KeyRecord, combinerNone, combinerWriting, combinerError
    <3>4. Written(key'[k], WritersOf(k))
      BY <2>1, <3>1, <3>3, Zenon DEF Written
    <3> QED BY <3>2, <3>4, Zenon
  <2> HIDE DEF st
  <2> QED
    BY <1>1, <1>2, <2>1, <2>2, <2>3, <2>5, <2>6, <2>7, CombinerStep, ZenonT(30)
<1> QED
  BY <1>3, <1>4, Zenon

LEMMA LeavingStep ==
    ASSUME WorkerInv, NEW c \in Call, Leave(c)
    PROVE  WorkerInv'
<1> PICK t, k : call[c].name = t /\ KeyOf(t) = k
  BY Zenon
<1> PICK pc : pc = IF ~(call[c].pc = "leaveOk") THEN "fail" ELSE IF CombineKey[t] = NoKey THEN "commit" ELSE "ok"
  BY Zenon
<1> DEFINE st == key[k].state
<1>1. /\ call[c].pc \in {"leaveOk", "leaveErr"} /\ Shaped(call[c]) /\ t \in Combines
      /\ call[c].op = "run" /\ ~call[c].waited
      /\ UNCHANGED <<ts, writers, mixed, load, replied, compiled>>
  BY Zenon DEF Leave, WorkerInv, Shapes, Shaped, InsidePCs, Quiet, driverVars
<1>2. k \in Combined /\ key[k] \in KeyRecord
  BY <1>1, KeyOfCombined, Zenon DEF WorkerInv, Shapes
<1>3. Moves(c, pc) /\ key' = [key EXCEPT ![k].state = st - 1]
  BY GotoMoves, Zenon DEF Leave, WorkerInv
<1>4. /\ key' \in [Combined -> KeyRecord] /\ key'[k].spawned = key[k].spawned
      /\ key'[k].state = st - 1 /\ \A j \in Combined : j # k => key'[j] = key[j]
  BY <1>2, <1>3, SMTT(30) DEF WorkerInv, Shapes, KeyRecord
<1>5. /\ Shaped(call'[c]) /\ (Owns(call'[c]) <=> Owns(call[c]))
      /\ Settles(call'[c]) => CombineKey[t] # NoKey
  BY <1>1, <1>3, Zenon DEF Shaped, Moves, RunPCs, InsidePCs, Owns, Settles
<1>6. Inside(c) /\ ~Inside(c)' /\ call'[c].name = call[c].name /\ Others(c)
  BY <1>1, <1>3, Zenon DEF Inside, Moves
<1>7. /\ \A j \in Combined : j # k => InsideOf(j)' = InsideOf(j)
      /\ Cardinality(InsideOf(k)) > 0 /\ Cardinality(InsideOf(k)) \in Nat
      /\ Cardinality(InsideOf(k)') = Cardinality(InsideOf(k)) - 1
  BY <1>6, Left, Number, Zenon
<1>8. ASSUME ~MixedKey(k)
      PROVE  /\ Counted(Cardinality(InsideOf(k)'), key'[k]) /\ Written(key'[k], WritersOf(k))
             /\ key'[k].state # combinerWriting
  <2>1. Counted(Cardinality(InsideOf(k)), key[k]) /\ Written(key[k], WritersOf(k))
    BY <1>2, <1>8, Unmixed, Zenon
  <2>2. st = combinerIdle + Cardinality(InsideOf(k))
    BY <1>7, <2>1, Zenon DEF Counted
  <2>3. Counted(Cardinality(InsideOf(k)'), key'[k]) /\ key'[k].state # combinerWriting /\ st # combinerWriting
    BY <1>4, <1>7, <2>2 DEF Counted, combinerNone, combinerWriting, combinerIdle
  <2>4. key[k].spawned \in Nat
    BY <1>2, Zenon DEF KeyRecord
  <2>5. Written(key'[k], WritersOf(k))
    BY <1>4, <2>1, <2>3, <2>4, ZenonT(30) DEF Written
  <2> QED BY <2>3, <2>5, Zenon
<1>9. \/ key'[k].state # combinerWriting
      \/ k \notin Combines \/ CombineKey[k] # NoKey \/ k \in mixed
  BY <1>8, OwnMixed, ZenonT(30) DEF WorkerInv, Shapes
<1> HIDE DEF st
<1> QED
  BY <1>1, <1>2, <1>3, <1>4, <1>5, <1>7, <1>8, <1>9, CombinerStep, SMTT(30) DEF InsidePCs

\* CommitCombiner: a combiner that nobody uses is handed to a writer; one that
\* has been written answers.
LEMMA CommitStep ==
    ASSUME WorkerInv, NEW c \in Call, CommitCombiner(c)
    PROVE  WorkerInv'
<1> PICK n : call[c].name = n
  BY Zenon
<1> PICK k : k = IF call[c].op = "run" THEN KeyOf(n) ELSE n
  BY Zenon
<1> DEFINE st == key[k].state
<1>1. /\ call[c].pc = "commit" /\ Shaped(call[c])
      /\ UNCHANGED <<ts, writers, mixed, load, replied, compiled>>
  BY Zenon DEF CommitCombiner, WorkerInv, Shapes, Quiet, driverVars, history
<1>2. \/ call[c].op = "run" /\ ~call[c].waited /\ n \in Combines /\ CombineKey[n] = NoKey
      \/ call[c].op = "commit" /\ n \in Key
  BY <1>1, Zenon DEF Shaped
<1>3. /\ k \in Combined /\ key[k] \in KeyRecord
      /\ call[c].op = "run" => k = n
      /\ call[c].op = "commit" => k \notin Combines
  <2>1. call[c].op = "run" => k = n /\ k \in Combined
    BY <1>2, OwnKey, Zenon
  <2>2. call[c].op = "commit" => k \in Combined /\ k \notin Combines
    BY <1>2, KeyCombined, WorkerAssumption, Zenon
  <2> QED BY <1>2, <2>1, <2>2, Zenon DEF WorkerInv, Shapes
<1>4. CASE st = combinerIdle
  <2>1. call' = call /\ key' = [key EXCEPT ![k].state = combinerWriting, ![k].spawned = @ + 1]
    BY <1>4, SMTT(30) DEF CommitCombiner, combinerIdle, combinerCommitted, combinerWriting
  <2>2. /\ key' \in [Combined -> KeyRecord] /\ key'[k].spawned = key[k].spawned + 1
        /\ key'[k].state = combinerWriting /\ \A j \in Combined : j # k => key'[j] = key[j]
    BY <1>3, <2>1, SMTT(30) DEF WorkerInv, Shapes, KeyRecord, combinerWriting
  <2>3. Moves(c, "commit") /\ \A j : InsideOf(j)' = InsideOf(j)
    BY <1>1, <2>1, Zenon DEF WorkerInv, Shapes, Shaped, Moves, Others, InsideOf, Inside
  <2>4. ASSUME ~MixedKey(k)
        PROVE  Counted(Cardinality(InsideOf(k)'), key'[k]) /\ Written(key'[k], WritersOf(k))
    <3>1. /\ Counted(Cardinality(InsideOf(k)), key[k]) /\ Written(key[k], WritersOf(k))
          /\ Cardinality(InsideOf(k)) \in Nat /\ key[k].spawned \in Nat
      BY <1>3, <2>4, Unmixed, Number, ZenonT(30) DEF KeyRecord
    <3>2. Cardinality(InsideOf(k)) = 0 /\ key[k].spawned = 0 /\ WritersOf(k) = {}
      BY <1>4, <3>1 DEF Counted, Written, combinerIdle, combinerWriting
    <3>3. Counted(Cardinality(InsideOf(k)'), key'[k])
      BY <2>2, <2>3, <3>2, SMTT(30) DEF Counted, combinerNone, combinerIdle, combinerWriting
    <3>4. Written(key'[k], WritersOf(k))
      BY <2>2, <3>2 DEF Written
    <3> QED BY <3>3, <3>4, Zenon
  <2>5. \/ k \notin Combines \/ CombineKey[k] # NoKey \/ k \in mixed
        \/ ts[k] # TaskOk /\ \A d \in Call : call[d].name = k => ~Settles(call[d])
    <3>1. SUFFICES ASSUME call[c].op = "run", k \notin mixed
                   PROVE  ts[k] # TaskOk /\ \A d \in Call : call[d].name = k => ~Settles(call[d])
      BY <1>2, <1>3, Zenon
    <3>2. Owns(call[c]) /\ ~Settles(call[c]) /\ call[c].name = k
      BY <1>1, <1>2, <1>3, <3>1, ZenonT(30) DEF Owns, Settles
    <3>3. /\ ts[k] = TaskRunning
          /\ \A d \in Call : Owns(call[d]) /\ call[d].name = k => d = c
      BY <3>1, <3>2, ZenonT(30) DEF WorkerInv, Owned
    <3>4. \A d \in Call : Settles(call[d]) => Owns(call[d])
      BY Zenon DEF Settles, Owns
    <3> QED BY <3>2, <3>3, <3>4 DEF TaskRunning, TaskOk
  <2>6. /\ Shaped(call'[c]) /\ (Owns(call'[c]) <=> Owns(call[c])) /\ call[c].pc # "idle"
        /\ Settles(call'[c]) => Settles(call[c])
    BY <1>1, <2>1, Zenon
  <2> HIDE DEF st
  <2> QED
    BY <1>1, <1>3, <2>2, <2>3, <2>4, <2>5, <2>6, CombinerStep, ZenonT(30)
<1>5. CASE st # combinerIdle
  <2>1. /\ key' = key
        /\ Goto(c, "fail") \/ (Goto(c, "ok") /\ st # combinerWriting)
    BY <1>5 DEF CommitCombiner, combinerCommitted, combinerWriting
  <2>2. PICK pc : /\ pc \in {"ok", "fail"} /\ Moves(c, pc)
                  /\ pc = "ok" => st # combinerWriting
    BY <2>1, GotoMoves, SMTT(30) DEF WorkerInv
  <2>3. Shaped(call'[c]) /\ Kept
    BY <1>1, <1>2, <2>1, <2>2, ZenonT(30) DEF Shaped, Moves, RunPCs, InsidePCs, Kept
  <2>4. /\ Owns(call'[c]) <=> Owns(call[c])
        /\ call'[c].pc \notin InsidePCs /\ call[c].pc \notin InsidePCs /\ call[c].pc # "idle"
        /\ Settles(call'[c]) => key[call[c].name].state # combinerWriting
    BY <1>1, <1>2, <1>3, <2>2, Zenon DEF Moves, Owns, Settles, InsidePCs
  <2> QED
    BY <2>2, <2>3, <2>4, MoveKeeps, ZenonT(30)
<1> QED
  BY <1>4, <1>5, ZenonT(30)

\* Discard resets the combiner of a task: nobody is inside it, and it is not
\* being written.
LEMMA ResetStep ==
    ASSUME WorkerInv, NEW c \in Call, ResetCombiner(c)
    PROVE  WorkerInv'
<1> PICK t : call[c].name = t
  BY Zenon
<1>1. /\ call[c].pc = "reset" /\ Shaped(call[c]) /\ Moves(c, "lost")
      /\ UNCHANGED <<ts, writers, mixed, load, replied, compiled>>
      /\ key' = IF t \in Combines THEN [key EXCEPT ![t].state = combinerNone] ELSE key
  BY GotoMoves, Zenon DEF ResetCombiner, WorkerInv, Shapes, Quiet, driverVars, history
<1>2. call[c].op = "discard" /\ t \in Task /\ CombineKey[t] = NoKey
  BY <1>1, Zenon DEF Shaped, RunPCs, InsidePCs
<1>3. /\ Shaped(call'[c]) /\ (Owns(call'[c]) <=> Owns(call[c])) /\ ~Settles(call'[c])
      /\ call'[c].pc \notin InsidePCs /\ call[c].pc \notin InsidePCs /\ call[c].pc # "idle"
  BY <1>1, <1>2, Zenon DEF Shaped, Moves, Owns, Settles, RunPCs, InsidePCs
<1>4. CASE t \notin Combines
  BY <1>1, <1>3, <1>4, MoveKeeps, ZenonT(30) DEF Kept
<1>5. CASE t \in Combines
  <2>1. t \in Combined /\ key[t] \in KeyRecord /\ (MixedKey(t) <=> t \in mixed)
    BY <1>2, <1>5, OwnKey, OwnMixed, ZenonT(30) DEF WorkerInv, Shapes
  <2>2. /\ key' \in [Combined -> KeyRecord] /\ key'[t].spawned = key[t].spawned
        /\ key'[t].state = combinerNone /\ \A j \in Combined : j # t => key'[j] = key[j]
    BY <1>1, <1>5, <2>1 DEF WorkerInv, Shapes, KeyRecord, combinerNone
  <2>3. \A d \in Call : (Inside(d)' <=> Inside(d)) /\ call'[d].name = call[d].name
    BY <1>1, <1>3, Zenon DEF Inside, InsidePCs, Moves, Others
  <2>4. \A j : InsideOf(j)' = InsideOf(j)
    BY <2>3, SameInside, Zenon
  <2>5. ASSUME t \notin mixed
        PROVE  Counted(Cardinality(InsideOf(t)'), key'[t]) /\ Written(key'[t], WritersOf(t))
    <3>1. /\ Written(key[t], WritersOf(t)) /\ key[t].spawned \in Nat
          /\ key[t].state # combinerWriting
      BY <1>1, <1>2, <1>5, <2>1, <2>5, Unmixed, ZenonT(30)
         DEF WorkerInv, Settled, Settles, KeyRecord
    <3>2. Written(key'[t], WritersOf(t))
      BY <2>2, <3>1, Zenon DEF Written
    <3>3. InsideOf(t) = {}
      <4>1. SUFFICES ASSUME NEW d \in InsideOf(t) PROVE FALSE
        BY Zenon
      <4>2. d \in Call /\ call[d].pc \in InsidePCs /\ KeyOf(call[d].name) = t /\ Shaped(call[d])
        BY Zenon DEF InsideOf, Inside, InsidePCs, WorkerInv, Shapes
      <4>3. call[d].op = "run" /\ call[d].name \in Task /\ Owns(call[d]) /\ d # c
        BY <1>1, <4>2, Zenon DEF Shaped, Owns, InsidePCs
      <4>4. call[d].name = t /\ Owns(call[c])
        BY <1>1, <1>2, <1>5, <4>2, <4>3, OwnAlone, ZenonT(30) DEF Owns
      <4> QED BY <1>1, <2>5, <4>2, <4>3, <4>4, ZenonT(30) DEF WorkerInv, Owned
    <3>4. Counted(Cardinality(InsideOf(t)'), key'[t])
      BY <2>2, <2>4, <3>3, FS_EmptySet, SMTT(30) DEF Counted, combinerNone, combinerIdle
    <3> QED BY <3>2, <3>4, Zenon
  <2>6. key'[t].state # combinerWriting
    BY <2>2, SMTT(30) DEF combinerNone, combinerWriting
  <2> QED
    BY <1>1, <1>3, <2>1, <2>2, <2>4, <2>5, <2>6, CombinerStep, SMTT(30)
<1> QED
  BY <1>4, <1>5, Zenon

-----------------------------------------------------------------------------
(* The writers.                                                            *)

LEMMA WriteEndStep ==
    ASSUME WorkerInv, NEW w \in writers, WriteEnd(w)
    PROVE  WorkerInv'
<1> PICK k, st : k = w.key /\ st = IF w.failed THEN combinerError ELSE combinerCommitted
  BY Zenon
<1>1. w \in WriterRecord /\ key \in [Combined -> KeyRecord] /\ writers \subseteq WriterRecord
  BY Zenon DEF WorkerInv, Shapes
<1>2. k \in Combined /\ st \in {combinerError, combinerCommitted}
  BY <1>1, Zenon DEF WriterRecord
<1>3. /\ UNCHANGED <<call, ts, mixed, load, replied, compiled>>
      /\ key' = [key EXCEPT ![k].gen = 0, ![k].state = st] /\ writers' = writers \ {w}
  BY Zenon DEF WriteEnd, Quiet, driverVars, history
<1>4. /\ key' \in [Combined -> KeyRecord] /\ key'[k].spawned = key[k].spawned
      /\ key'[k].state = st /\ \A j \in Combined : j # k => key'[j] = key[j]
  BY <1>1, <1>2, <1>3 DEF KeyRecord, combinerError, combinerCommitted
<1>5. /\ writers' \subseteq WriterRecord /\ WritersOf(k)' = WritersOf(k) \ {w}
      /\ w \in WritersOf(k)
      /\ \A j \in Combined : j # k => WritersOf(j)' = WritersOf(j)
  BY <1>1, <1>3, Zenon DEF WritersOf
<1>6. ASSUME ~MixedKey(k)
      PROVE  Counted(Cardinality(InsideOf(k)), key'[k]) /\ Written(key'[k], WritersOf(k)')
  <2>1. /\ Counted(Cardinality(InsideOf(k)), key[k]) /\ Written(key[k], WritersOf(k))
        /\ Cardinality(InsideOf(k)) \in Nat
    BY <1>2, <1>6, Unmixed, Number, Zenon
  <2>2. key[k].spawned = 0 /\ key[k].state = combinerWriting /\ WritersOf(k)' = {}
    BY <1>5, <2>1, Zenon DEF Written
  <2>3. Cardinality(InsideOf(k)) = 0
    BY <2>1, <2>2 DEF Counted, combinerWriting, combinerIdle
  <2> QED
    BY <1>2, <1>4, <2>2, <2>3
    DEF Counted, Written, combinerNone, combinerIdle, combinerError, combinerCommitted
<1>7. key'[k].state # combinerWriting
  BY <1>2, <1>4 DEF combinerError, combinerCommitted, combinerWriting
<1> QED
  BY <1>2, <1>3, <1>4, <1>5, <1>6, <1>7, WriterKeeps, Zenon

-----------------------------------------------------------------------------
(* The invariant.                                                          *)

LEMMA WorkerInvInit == Init => WorkerInv
<1> SUFFICES ASSUME Init PROVE WorkerInv
  BY Zenon
<1>1. /\ call = [c \in Call |-> Unused] /\ ts = [t \in Task |-> TaskInit]
      /\ key = [k \in Combined |-> [state |-> combinerNone, gen |-> 0, made |-> 0, spawned |-> 0]]
      /\ writers = {} /\ mixed = {} /\ load \subseteq Task
      /\ replied = [n \in Name |-> "none"] /\ compiled = FALSE
  BY WorkerAssumption, Zenon DEF Init
<1>2. \A c \in Call : /\ Shaped(call[c]) /\ ~Owns(call[c]) /\ ~Settles(call[c])
                      /\ call[c].pc = "idle" /\ call[c].pc \notin InsidePCs
  BY <1>1, UnusedShaped, Zenon
<1>3. key \in [Combined -> KeyRecord] /\ \A k \in Combined : key[k].state = combinerNone
  BY <1>1 DEF KeyRecord, combinerNone
<1>4. Shapes
  BY <1>1, <1>2, <1>3, Zenon DEF Shapes
<1>5. AfterCompile /\ Owned
  BY <1>1, <1>2, Zenon DEF AfterCompile, Owned
<1>6. Settled
  BY <1>1, <1>2, WorkerAssumption DEF Settled, TaskInit, TaskOk
<1>7. OneWriter
  BY <1>1 DEF OneWriter
<1>8. \A k : InsideOf(k) = {}
  BY <1>2, Zenon DEF InsideOf, Inside, InsidePCs
<1>9. CountsRuns
  <2>1. \A k : Cardinality(InsideOf(k)) = 0
    BY <1>8, FS_EmptySet, Zenon
  <2> QED BY <1>3, <2>1 DEF CountsRuns, combinerNone, combinerIdle
<1> QED
  BY <1>4, <1>5, <1>6, <1>7, <1>9, ZenonT(30) DEF WorkerInv

LEMMA WorkerInvNext == WorkerInv /\ [Next]_vars => WorkerInv'
<1> SUFFICES ASSUME WorkerInv, [Next]_vars PROVE WorkerInv'
  BY Zenon
<1>1. CASE Compile
  BY <1>1, CompileStep, Zenon
<1>2. ASSUME NEW c \in Call, NEW n \in Name,
             \/ n \in Task /\ (IssueRun(c, n) \/ IssueDiscard(c, n))
             \/ n \in Key /\ IssueCommit(c, n)
      PROVE  WorkerInv'
  BY <1>2, IssueSteps, Zenon
<1>3. ASSUME NEW c \in Call, NEW d \in Call, call[c].pc # "idle", Drop(c, d)
      PROVE  WorkerInv'
  BY <1>3, DropStep, Zenon
<1>4. ASSUME NEW c \in Call, Step(c) \/ ReadFails(c)
      PROVE  WorkerInv'
  <2>1. CASE Enter(c) \/ Wait(c) \/ WaitCut(c) \/ Check(c)
    BY <2>1, EnterStep, WaitSteps, Zenon
  <2>2. CASE Inputs(c) \/ ReadRow(c) \/ StorePart(c) \/ ReadFails(c)
    BY <2>2, RunSteps, ReadFailsStep, ZenonT(30)
  <2>3. CASE EndOk(c) \/ EndErr(c)
    BY <2>3, EndSteps, Zenon
  <2>4. CASE Share(c) \/ CombineRow(c) \/ Take(c) \/ Put(c) \/ Leave(c) \/ CommitCombiner(c)
    BY <2>4, SharingStep, InsideSteps, LeavingStep, CommitStep, ZenonT(30)
  <2>5. CASE DiscardStart(c) \/ RemovePart(c) \/ ResetCombiner(c) \/ SetLost(c)
    BY <2>5, DiscardSteps, RemoveStep, ResetStep, ZenonT(30)
  <2> QED BY <1>4, <2>1, <2>2, <2>3, <2>4, <2>5, ZenonT(30) DEF Step
<1>5. CASE WriterStep
  BY <1>5, WriteStartStep, WriteEndStep, WritePartStep, ZenonT(30) DEF WriterStep
<1>6. CASE OpenAt \/ ReadStream \/ BreakStream
  BY <1>6, OtherSteps, Zenon DEF OpenAt, ReadStream, BreakStream, driverVars, history
<1>7. CASE UNCHANGED vars
  BY <1>7, OtherSteps, Zenon DEF vars, driverVars, history
<1> QED
  BY <1>1, <1>2, <1>3, <1>4, <1>5, <1>6, <1>7, ZenonT(30) DEF Next

LEMMA WorkerInvHolds == Spec => []WorkerInv
BY WorkerInvInit, WorkerInvNext, PTL DEF Spec

-----------------------------------------------------------------------------
(* The combiners that are in use, or about to be written, exist.          *)

LEMMA KnownCall ==
    ASSUME WorkerInv, GenKnown, PoolInv, NEW c \in Call,
           Share(c) \/ Leave(c) \/ CommitCombiner(c) \/ ResetCombiner(c)
    PROVE  GenKnown'
<1>1. \A k \in Combined : key[k] \in KeyRecord
  BY Zenon DEF WorkerInv, Shapes
<1>2. mixed' = mixed
  BY Zenon DEF Share, Leave, CommitCombiner, ResetCombiner, history
<1>3. \A k \in Combined : ~MixedKey(k) => key[k].state >= combinerNone
  <2> SUFFICES ASSUME NEW k \in Combined, ~MixedKey(k)
               PROVE  key[k].state >= combinerNone
    BY Zenon
  <2>1. Counted(Cardinality(InsideOf(k)), key[k]) /\ Cardinality(InsideOf(k)) \in Nat
    BY Unmixed, Number, Zenon
  <2> QED BY <2>1, SMTT(30) DEF Counted, combinerNone, combinerIdle
<1>4. CASE Share(c)
  <2> PICK k : k = KeyOf(call[c].name)
    BY Zenon
  <2>1. \/ key' = key
        \/ /\ key[k].state = combinerNone
           /\ key' = [key EXCEPT ![k].state = combinerIdle + 1, ![k].gen = key[k].made + 1,
                                 ![k].made = key[k].made + 1]
        \/ /\ key[k].state \notin combinerNone..combinerError
           /\ key' = [key EXCEPT ![k].state = key[k].state + 1]
    BY <1>4, Zenon DEF Share
  <2>2. ASSUME NEW j \in Combined, ~MixedKey(j)
        PROVE  \/ key'[j].gen # 0
               \/ key'[j] = key[j]
               \/ key[j].state >= combinerIdle /\ key'[j].gen = key[j].gen
    <3>1. DOMAIN key = Combined /\ key[j] \in KeyRecord /\ key[j].state >= combinerNone
      BY <1>1, <1>3, <2>2, ZenonT(30) DEF WorkerInv, Shapes
    <3>2. CASE key' = [key EXCEPT ![k].state = combinerIdle + 1, ![k].gen = key[k].made + 1,
                                  ![k].made = key[k].made + 1]
      <4>1. j # k => key'[j] = key[j]
        BY <3>1, <3>2, Zenon
      <4>2. j = k => key'[j].gen = key[j].made + 1
        BY <3>1, <3>2, Zenon DEF KeyRecord
      <4>3. key[j].made + 1 # 0
        BY <3>1, SMTT(30) DEF KeyRecord
      <4> QED BY <4>1, <4>2, <4>3, ZenonT(30)
    <3>3. CASE /\ key[k].state \notin combinerNone..combinerError
               /\ key' = [key EXCEPT ![k].state = key[k].state + 1]
      <4>1. j # k => key'[j] = key[j]
        BY <3>1, <3>3, ZenonT(30)
      <4>2. j = k => key[j].state >= combinerIdle /\ key'[j].gen = key[j].gen
        BY <3>1, <3>3, SMTT(30) DEF KeyRecord, combinerNone, combinerError, combinerIdle
      <4> QED BY <4>1, <4>2, Zenon
    <3> QED BY <2>1, <3>2, <3>3, Zenon
  <2> QED BY <1>2, <2>2, KnownKept, Zenon
<1>5. CASE Leave(c)
  <2> PICK k : k = KeyOf(call[c].name)
    BY Zenon
  <2>1. Inside(c) /\ key' = [key EXCEPT ![k].state = key[k].state - 1]
    BY <1>5, Zenon DEF Leave, Inside
  <2>2. ASSUME ~MixedKey(k)
        PROVE  key[k].state >= combinerIdle
    <3>1. k \in Combined /\ c \in InsideOf(k)
      BY <2>1, InsideKey, Zenon DEF InsideOf, WorkerInv
    <3>2. Cardinality(InsideOf(k)) \in Nat /\ Cardinality(InsideOf(k)) # 0
      BY <3>1, Number, FS_EmptySet, ZenonT(30)
    <3> QED BY <2>2, <3>1, <3>2, Unmixed, SMTT(30) DEF Counted, combinerIdle
  <2>3. \A j \in Combined : /\ key'[j].gen = key[j].gen /\ key'[j].spawned = key[j].spawned
                            /\ j # k => key'[j] = key[j]
    BY <1>1, <2>1, Zenon DEF WorkerInv, Shapes, KeyRecord
  <2> QED BY <1>2, <2>2, <2>3, KnownKept, ZenonT(30)
<1>6. CASE CommitCombiner(c)
  <2>1. PICK k : \/ key' = key
                 \/ /\ key[k].state = combinerIdle
                    /\ key' = [key EXCEPT ![k].state = combinerWriting, ![k].spawned = @ + 1]
    BY <1>6, Zenon DEF CommitCombiner
  <2>2. \A j \in Combined : \/ key'[j] = key[j]
                            \/ key[j].state = combinerIdle /\ key'[j].gen = key[j].gen
    BY <1>1, <2>1, SMTT(30) DEF WorkerInv, Shapes, KeyRecord
  <2> QED BY <1>2, <2>2, KnownKept DEF combinerIdle
<1>7. CASE ResetCombiner(c)
  <2>1. PICK k : key' = key \/ key' = [key EXCEPT ![k].state = combinerNone]
    BY <1>7, Zenon DEF ResetCombiner
  <2>2. \A j \in Combined :
          \/ key'[j] = key[j]
          \/ /\ key'[j].gen = key[j].gen /\ key'[j].spawned = key[j].spawned
             /\ key'[j].state = combinerNone
    BY <1>1, <2>1, SMTT(30) DEF WorkerInv, Shapes, KeyRecord
  <2> QED BY <1>2, <2>2, KnownKept, SMTT(30) DEF combinerIdle, combinerNone
<1> QED BY <1>4, <1>5, <1>6, <1>7, ZenonT(30)

LEMMA KnownNext ==
    ASSUME WorkerInv, GenKnown, PoolInv, [Next]_vars
    PROVE  GenKnown'
<1>1. CASE UNCHANGED key /\ mixed \subseteq mixed'
  BY <1>1, KnownKept, Zenon
<1>2. Compile \/ OpenAt \/ ReadStream \/ BreakStream \/ UNCHANGED vars =>
        UNCHANGED key /\ mixed \subseteq mixed'
  BY Zenon DEF Compile, OpenAt, ReadStream, BreakStream, vars, history
<1>3. ASSUME NEW c \in Call, NEW n, IssueRun(c, n) \/ IssueDiscard(c, n) \/ IssueCommit(c, n)
      PROVE  UNCHANGED key /\ mixed \subseteq mixed'
  BY <1>3, Zenon DEF IssueRun, IssueDiscard, IssueCommit, Issue, history
<1>4. ASSUME NEW c \in Call, NEW d \in Call, Drop(c, d)
      PROVE  UNCHANGED key /\ mixed \subseteq mixed'
  BY <1>4, Zenon DEF Drop, history
<1>5. ASSUME NEW c \in Call,
             \/ Enter(c) \/ Wait(c) \/ WaitCut(c) \/ Check(c) \/ Inputs(c) \/ ReadRow(c)
             \/ StorePart(c) \/ RemovePart(c) \/ CombineRow(c) \/ Take(c) \/ Put(c) \/ ReadFails(c)
      PROVE  UNCHANGED key /\ mixed \subseteq mixed'
  BY <1>5, Zenon DEF Enter, Wait, WaitCut, Check, Inputs, ReadRow, StorePart, RemovePart,
                     CombineRow, Take, Put, ReadFails, history
<1>6. ASSUME NEW c \in Call, EndOk(c) \/ EndErr(c) \/ DiscardStart(c) \/ SetLost(c)
      PROVE  UNCHANGED key /\ mixed \subseteq mixed'
  BY <1>6, Zenon DEF EndOk, EndErr, DiscardStart, SetLost, Reply
<1>7. ASSUME NEW c \in Call, Step(c) \/ ReadFails(c)
      PROVE  GenKnown'
  BY <1>1, <1>5, <1>6, <1>7, KnownCall, ZenonT(30) DEF Step
<1> QED BY <1>1, <1>2, <1>3, <1>4, <1>7, KnownWriter, Zenon DEF Next

LEMMA PoolHolds == Spec => [](WorkerInv /\ PoolInv /\ GenKnown)
<1>1. Init => PoolInv /\ GenKnown
  BY PoolInit, Zenon
<1>2. WorkerInv /\ PoolInv /\ GenKnown /\ [Next]_vars => PoolInv' /\ GenKnown'
  BY PoolNext, KnownNext, Zenon DEF WorkerInv
<1> QED BY <1>1, <1>2, WorkerInvHolds, PTL DEF Spec

-----------------------------------------------------------------------------

\* worker.Run marks the task TaskRunning under its lock, and every later call
\* waits for it.  For any number of calls, however often they are delivered
\* again, fail or are discarded, no task is run by two goroutines at once,
\* unless a call that only waited for it was given up and marked it failed.
THEOREM TasksRunOnce == Spec => []OneRunner
<1>1. WorkerInv => OneRunner
  <2> SUFFICES ASSUME WorkerInv, NEW c \in Call, NEW d \in Call, c # d,
                      Running(c), Running(d), call[c].name = call[d].name
               PROVE  call[c].name \in mixed
    BY Zenon DEF OneRunner
  <2>1. Shaped(call[c]) /\ Shaped(call[d])
    BY Zenon DEF WorkerInv, Shapes
  <2>2. Owns(call[c]) /\ Owns(call[d])
    BY <2>1, ZenonT(30) DEF Running, Shaped, Owns
  <2> QED BY <2>2, Zenon DEF WorkerInv, Owned
<1> QED
  BY <1>1, WorkerInvHolds, PTL

\* runCombine, CommitCombiner, writeCombiner and Discard all write the integer
\* that is both the state of a combiner and the number of runs that use it.  For
\* any number of tasks that share it, it counts exactly the runs inside
\* runCombine, and is a state only when there is none.
THEOREM CombinerCounts == Spec => []CountsRuns
<1>1. WorkerInv => CountsRuns
  BY Zenon DEF WorkerInv
<1> QED
  BY <1>1, WorkerInvHolds, PTL

\* writeCombiner, which runs in a goroutine of its own after CommitCombiner has
\* returned the lock, receives every combiner of the key from its channel while
\* it holds the worker's lock.  For any number of tasks, calls and partitions
\* it finds them all there: no run still holds one and no other writer took
\* them, so it never waits for a goroutine that waits for the lock.
THEOREM WriterNeverWaits == Spec => []WriterFindsCombiners
<1>1. ASSUME WorkerInv, PoolInv, GenKnown
      PROVE  WriterFindsCombiners
  <2> SUFFICES ASSUME NEW k \in Combined, key[k].spawned > 0, ~MixedKey(k), NEW p \in Part
               PROVE  key[k].gen # 0 /\ pool[k][key[k].gen][p].by = NoCall
    BY Zenon DEF WriterFindsCombiners
  <2> PICK g : g = key[k].gen
    BY Zenon
  <2>1. /\ key[k].state = combinerWriting
        /\ \A w \in writers : w.key # k
    BY <1>1, SMTT(30) DEF WorkerInv, OneWriter
  <2>2. g # 0
    BY <1>1, Zenon DEF GenKnown
  <2>3. g \in Gen
    BY <1>1, <2>2, WorkerAssumption, SMTT(30) DEF PoolInv, Generations, Gen
  <2>4. InsideOf(k) = {}
    <3>1. Counted(Cardinality(InsideOf(k)), key[k]) /\ Cardinality(InsideOf(k)) \in Nat
      BY <1>1, Unmixed, Number, Zenon
    <3>2. Cardinality(InsideOf(k)) = 0
      BY <2>1, <3>1, SMTT(30) DEF Counted, combinerWriting, combinerIdle
    <3> QED BY <3>2, Number, FS_EmptySet, Zenon
  <2>5. \A c \in Call : ~Holds(call[c], k, g, p)
    BY <2>4, Zenon DEF Holds, InsideOf, Inside
  <2>6. pool[k][g][p].by = NoCall
    BY <1>1, <2>1, <2>3, <2>5, ZenonT(30) DEF PoolInv, Held
  <2> QED BY <2>2, <2>6, Zenon
<1> QED BY <1>1, PoolHolds, PTL

=============================================================================
