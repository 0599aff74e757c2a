----------------------------- MODULE WorkerPool -----------------------------
(***************************************************************************)
(* Proofs about the combiners of module Worker: whoever took a combiner    *)
(* from its channel still has it, so writeCombiner finds every combiner of *)
(* its key in its channel.                                                 *)
(***************************************************************************)
EXTENDS WorkerCalls

-----------------------------------------------------------------------------
(* Who holds the combiners.                                                *)

PoolRecords ==
    /\ DOMAIN pool = Combined
    /\ \A k \in Combined : /\ DOMAIN pool[k] = Gen
                           /\ \A g \in Gen : /\ DOMAIN pool[k][g] = Part
                                             /\ \A p \in Part : DOMAIN pool[k][g][p] = {"rows", "by", "cut"}

\* A key's combiners, and those that a run uses, have been made.
Generations ==
    /\ \A k \in Combined : key[k].made \in 0..MaxGen /\ key[k].gen \in 0..key[k].made
    /\ \A c \in Call : Inside(c) => call[c].gen \in 0..key[KeyOf(call[c].name)].made

\* A combiner that is not in its channel is with the run that took it, or with
\* a writer.  As long as the key still has that combiner, the writer is there.
Holds(r, k, g, p) ==
    r.pc \in {"put", "putRest"} /\ KeyOf(r.name) = k /\ r.gen = g /\ r.part = p
Held ==
    \A k \in Combined : \A g \in Gen : \A p \in Part :
      \/ pool[k][g][p].by = NoCall
      \/ pool[k][g][p].by \in Call /\ Holds(call[pool[k][g][p].by], k, g, p)
      \/ /\ pool[k][g][p].by = Writer /\ g <= key[k].made
         /\ key[k].gen = g => \E w \in writers : w.key = k /\ w.gen = g

PoolInv == PoolRecords /\ Generations /\ Held

\* A combiner that is in use, or about to be written, exists.
GenKnown ==
    \A k \in Combined : ~MixedKey(k) /\ (key[k].state >= combinerIdle \/ key[k].spawned > 0) =>
      key[k].gen # 0

\* A call that is inside runCombine has a key.
LEMMA InsideKey ==
    ASSUME Shapes, NEW c \in Call, Inside(c)
    PROVE  KeyOf(call[c].name) \in Combined
<1>1. Shaped(call[c]) /\ call[c].pc \in InsidePCs
  BY Zenon DEF Shapes, Inside, InsidePCs
<1>2. call[c].name \in Combines
  BY <1>1, Zenon DEF Shaped
<1> QED BY <1>2, KeyOfCombined, Zenon

SameGens == \A k \in Combined : key'[k].gen = key[k].gen /\ key'[k].made = key[k].made

LEMMA PoolFrame ==
    ASSUME Shapes, PoolInv, UNCHANGED <<pool, writers>>, SameGens,
           \A d \in Call : call[d].pc \in {"put", "putRest"} =>
             /\ call'[d].pc = call[d].pc /\ call'[d].name = call[d].name
             /\ call'[d].gen = call[d].gen /\ call'[d].part = call[d].part,
           \A d \in Call : Inside(d)' => /\ Inside(d) /\ call'[d].name = call[d].name
                                         /\ call'[d].gen = call[d].gen
    PROVE  PoolInv'
<1>1. PoolRecords'
  BY DEF PoolInv, PoolRecords
<1>2. Generations'
  <2>1. \A d \in Call : Inside(d) => KeyOf(call[d].name) \in Combined
    BY InsideKey, Zenon
  <2> QED BY <2>1, Zenon DEF PoolInv, Generations, SameGens
<1>3. Held'
  <2>1. \A d \in Call : \A k, g, p : Holds(call[d], k, g, p) => Holds(call'[d], k, g, p)
    BY Zenon DEF Holds
  <2> QED BY <2>1, SMTT(30) DEF PoolInv, Held, SameGens
<1> QED BY <1>1, <1>2, <1>3, Zenon DEF PoolInv

\* A step of one call that holds no combiner, and stays inside runCombine only
\* with the combiners it has.
LEMMA PoolCall ==
    ASSUME Shapes, PoolInv, UNCHANGED <<pool, writers>>, SameGens, NEW c \in Call, Others(c),
           call[c].pc \notin {"put", "putRest"},
           Inside(c)' => Inside(c) /\ call'[c].name = call[c].name /\ call'[c].gen = call[c].gen
    PROVE  PoolInv'
<1>1. \A d \in Call : d # c => call'[d] = call[d] /\ (Inside(d)' <=> Inside(d))
  BY Zenon DEF Others, Inside
<1> QED
  BY <1>1, PoolFrame, Zenon

\* The combiner of key k, generation g and partition p goes to b.
SetBy(k, g, p, b) ==
    /\ PoolRecords'
    /\ \A j \in Combined : \A h \in Gen : \A q \in Part :
         pool'[j][h][q].by = IF j = k /\ h = g /\ q = p THEN b ELSE pool[j][h][q].by

LEMMA PoolTransfer ==
    ASSUME Shapes, PoolInv, NEW c \in Call, Others(c), UNCHANGED <<key, writers>>,
           NEW k, NEW g, NEW p, NEW b, SetBy(k, g, p, b),
           b = NoCall \/ (b = c /\ Holds(call'[c], k, g, p)),
           call[c].pc \in {"put", "putRest"} => Holds(call[c], k, g, p),
           Inside(c) /\ call'[c].name = call[c].name /\ call'[c].gen = call[c].gen
    PROVE  PoolInv'
<1>1. PoolRecords'
  BY Zenon DEF SetBy
<1>2. Generations'
  BY Zenon DEF PoolInv, Generations, Others, Inside
<1>3. Held'
  <2> SUFFICES ASSUME NEW j \in Combined, NEW h \in Gen, NEW q \in Part
               PROVE  \/ pool'[j][h][q].by = NoCall
                      \/ pool'[j][h][q].by \in Call /\ Holds(call'[pool'[j][h][q].by], j, h, q)
                      \/ /\ pool'[j][h][q].by = Writer /\ h <= key[j].made
                         /\ key[j].gen = h => \E w \in writers : w.key = j /\ w.gen = h
    BY DEF Held
  <2>1. CASE j = k /\ h = g /\ q = p
    BY <2>1, Zenon DEF SetBy
  <2>2. CASE ~(j = k /\ h = g /\ q = p)
    <3>1. pool'[j][h][q].by = pool[j][h][q].by
      BY <2>2, Zenon DEF SetBy
    <3>2. ~Holds(call[c], j, h, q)
      BY <2>2, Zenon DEF Holds
    <3>3. \A d \in Call : Holds(call[d], j, h, q) => call'[d] = call[d]
      BY <3>2, Zenon DEF Others
    <3> QED BY <3>1, <3>3 DEF PoolInv, Held
  <2> QED BY <2>1, <2>2, Zenon
<1> QED BY <1>1, <1>2, <1>3, Zenon DEF PoolInv

\* The steps of a call outside of runCombine, or out of it.
Outside(c) ==
    /\ Others(c) /\ call[c].pc \notin {"put", "putRest"} /\ call'[c].pc \notin InsidePCs
    /\ UNCHANGED <<pool, writers>> /\ SameGens

LEMMA OutsideKeeps ==
    ASSUME Shapes, PoolInv, NEW c \in Call, Outside(c)
    PROVE  PoolInv'
BY PoolCall, Zenon DEF Outside, Inside, InsidePCs

LEMMA MovesOutside ==
    ASSUME NEW c \in Call, NEW pc, Moves(c, pc), pc \notin InsidePCs,
           call[c].pc \notin {"put", "putRest"}, UNCHANGED <<pool, writers>>, SameGens
    PROVE  Outside(c)
BY Zenon DEF Outside, Moves

LEMMA ReplyOutside ==
    ASSUME Shapes, NEW c \in Call, NEW a, Reply(c, a), call[c].pc \notin {"put", "putRest"}
    PROVE  Outside(c)
<1>1. Becomes(c, Unused) /\ UNCHANGED <<pool, writers, key>>
  BY ReplyBecomes, Zenon DEF Reply
<1>2. call'[c].pc \notin InsidePCs
  BY <1>1, UnusedShaped, Zenon DEF Becomes
<1> QED BY <1>1, <1>2, Zenon DEF Outside, Becomes, SameGens

LEMMA RunOutside ==
    ASSUME Shapes, NEW c \in Call,
           Enter(c) \/ Wait(c) \/ WaitCut(c) \/ Check(c) \/ Inputs(c) \/ ReadRow(c)
             \/ StorePart(c) \/ RemovePart(c)
    PROVE  Outside(c)
<1>1. UNCHANGED <<pool, writers>> /\ SameGens
  BY Zenon DEF Enter, Wait, WaitCut, Check, Inputs, ReadRow, StorePart, RemovePart, SameGens
<1>2. CASE Enter(c)
  <2>1. \/ Goto(c, "inputs")
        \/ call' = [call EXCEPT ![c].pc = "wait", ![c].waited = TRUE]
    BY <1>2, Zenon DEF Enter
  <2>2. Others(c) /\ call'[c].pc \in {"inputs", "wait"}
    BY <2>1 DEF Goto, Others, Shapes, Shaped, Fields
  <2> QED BY <1>1, <1>2, <2>2, Zenon DEF Outside, Enter, InsidePCs
<1>3. CASE Wait(c) \/ WaitCut(c) \/ Check(c)
  <2>1. PICK pc : Goto(c, pc) /\ pc \in {"check", "fail", "ok"} /\ call[c].pc \in {"wait", "check"}
    BY <1>3, Zenon DEF Wait, WaitCut, Check
  <2> QED BY <1>1, <2>1, GotoMoves, MovesOutside, Zenon DEF InsidePCs
<1>4. CASE Inputs(c) \/ ReadRow(c) \/ StorePart(c)
  <2>1. PICK pc : Moves(c, pc) /\ RunTo(c, pc)
    BY <1>4, RunMoves, Zenon
  <2> QED BY <1>1, <2>1, MovesOutside, Zenon DEF RunTo, InsidePCs
<1>5. CASE RemovePart(c)
  <2>1. Others(c) /\ call[c].pc = "remove" /\ call'[c].pc \in {"reset", "remove"}
    BY <1>5 DEF RemovePart, Others, Shapes, Shaped, Fields
  <2> QED BY <1>1, <2>1, Zenon DEF Outside, InsidePCs
<1> QED BY <1>2, <1>3, <1>4, <1>5, Zenon

LEMMA EndOutside ==
    ASSUME Shapes, NEW c \in Call, EndOk(c) \/ EndErr(c) \/ DiscardStart(c) \/ SetLost(c)
    PROVE  Outside(c)
<1>1. call[c].pc \in {"ok", "fail", "discard", "lost"}
  BY Zenon DEF EndOk, EndErr, DiscardStart, SetLost
<1>2. CASE \E a : Reply(c, a)
  BY <1>1, <1>2, ReplyOutside, Zenon
<1>3. CASE DiscardStart(c) /\ ~\E a : Reply(c, a)
  <2>1. Goto(c, "remove") /\ UNCHANGED <<pool, writers, key>>
    BY <1>3, Zenon DEF DiscardStart
  <2> QED BY <1>1, <2>1, GotoMoves, MovesOutside, Zenon DEF InsidePCs, SameGens
<1> QED BY <1>2, <1>3, Zenon DEF EndOk, EndErr, SetLost

LEMMA CombinerOutside ==
    ASSUME Shapes, NEW c \in Call, Leave(c) \/ CommitCombiner(c) \/ ResetCombiner(c)
    PROVE  Outside(c)
<1>1. /\ UNCHANGED <<pool, writers>>
      /\ call[c].pc \in {"leaveOk", "leaveErr", "commit", "reset"}
  BY Zenon DEF Leave, CommitCombiner, ResetCombiner
<1>2. SameGens
  <2>1. \A k \in Combined : DOMAIN key[k] = {"state", "gen", "spawned", "made"}
    BY Zenon DEF Shapes, KeyRecord
  <2>2. CASE Leave(c)
    BY <2>1, <2>2, Zenon DEF Leave, SameGens, Shapes
  <2>3. CASE CommitCombiner(c)
    <3>1. PICK k : \/ key' = key
                   \/ key' = [key EXCEPT ![k].state = combinerWriting, ![k].spawned = @ + 1]
      BY <2>3, Zenon DEF CommitCombiner
    <3> QED BY <2>1, <3>1 DEF SameGens, Shapes
  <2>4. CASE ResetCombiner(c)
    BY <2>1, <2>4, Zenon DEF ResetCombiner, SameGens, Shapes
  <2> QED BY <2>2, <2>3, <2>4, Zenon
<1>4. Others(c) /\ call'[c].pc \notin InsidePCs
  <2>1. \/ call' = call /\ call[c].pc = "commit"
        \/ \E pc \in {"fail", "commit", "ok", "lost"} : Goto(c, pc)
    BY Zenon DEF Leave, CommitCombiner, ResetCombiner
  <2> QED BY <2>1, GotoMoves, Zenon DEF Moves, Others, InsidePCs
<1> QED BY <1>1, <1>2, <1>4, Zenon DEF Outside

\* A task that finds no combiners of its key makes them.
LEMMA SharePool ==
    ASSUME Shapes, PoolInv, NEW c \in Call, Share(c)
    PROVE  PoolInv'
<1> PICK k : KeyOf(call[c].name) = k
  BY Zenon
<1>1. call[c].pc = "share" /\ Shaped(call[c]) /\ UNCHANGED <<pool, writers>>
  BY Zenon DEF Share, Shapes
<1>2. k \in Combined /\ key[k] \in KeyRecord /\ key[k].made \in Nat
  <2>1. call[c].name \in Combines
    BY <1>1, Zenon DEF Shaped, InsidePCs
  <2> QED BY <2>1, KeyOfCombined, Zenon DEF Shapes, KeyRecord
<1>3. CASE Goto(c, "fail") /\ UNCHANGED key
  BY <1>1, <1>3, GotoMoves, MovesOutside, OutsideKeeps, Zenon DEF InsidePCs, SameGens
<1>4. CASE ~(Goto(c, "fail") /\ UNCHANGED key)
  <2>1. PICK g : /\ call' = [call EXCEPT ![c].pc = "combine", ![c].gen = g]
                 /\ \A j \in Combined : j # k => key'[j] = key[j]
                 /\ \/ /\ g = key[k].made + 1 /\ g \in Gen
                       /\ key'[k].gen = g /\ key'[k].made = g
                    \/ /\ g = key[k].gen
                       /\ key'[k].gen = g /\ key'[k].made = key[k].made
    <3>1. CASE key[k].state = combinerNone
      <4>1. /\ call' = [call EXCEPT ![c].pc = "combine", ![c].gen = key[k].made + 1]
            /\ key[k].made + 1 \in Gen
            /\ key' = [key EXCEPT ![k].state = combinerIdle + 1, ![k].gen = key[k].made + 1,
                                  ![k].made = key[k].made + 1]
        BY <1>4, <3>1 DEF Share, combinerNone, combinerWriting, combinerCommitted, combinerError
      <4> QED BY <1>2, <4>1, Zenon DEF Shapes, KeyRecord
    <3>2. CASE key[k].state # combinerNone
      <4>1. /\ call' = [call EXCEPT ![c].pc = "combine", ![c].gen = key[k].gen]
            /\ key' = [key EXCEPT ![k].state = key[k].state + 1]
        BY <1>4, <3>2, Zenon DEF Share
      <4> QED BY <1>2, <4>1, Zenon DEF Shapes, KeyRecord
    <3> QED BY <3>1, <3>2, Zenon
  <2>2. Others(c) /\ call'[c].name = call[c].name /\ call'[c].gen = g
    BY <1>1, <2>1, Zenon DEF Others, Shapes, Shaped, Fields
  <2>3. \A j \in Combined : /\ key[j].made \in 0..MaxGen /\ key[j].gen \in 0..key[j].made
                            /\ key[j].made <= key'[j].made
                            /\ key'[j].made \in 0..MaxGen /\ key'[j].gen \in 0..key'[j].made
    <3>1. \A j \in Combined : key[j].made \in 0..MaxGen /\ key[j].gen \in 0..key[j].made
      BY Zenon DEF PoolInv, Generations
    <3> QED BY <1>2, <2>1, <3>1, SMTT(30) DEF Gen
  <2>4. PoolRecords'
    BY <1>1 DEF PoolInv, PoolRecords
  <2>5. Generations'
    <3>1. g \in 0..key'[k].made
      BY <1>2, <2>1, <2>3, Zenon
    <3>2. ASSUME NEW d \in Call, Inside(d)'
          PROVE  call'[d].gen \in 0..key'[KeyOf(call'[d].name)].made
      <4>1. CASE d = c
        BY <2>2, <3>1, <4>1, Zenon
      <4>2. CASE d # c
        <5>1. call'[d] = call[d] /\ Inside(d)
          BY <2>2, <3>2, <4>2, Zenon DEF Others, Inside
        <5>2. KeyOf(call[d].name) \in Combined
          BY <5>1, InsideKey, Zenon
        <5>3. call[d].gen \in 0..key[KeyOf(call[d].name)].made
          BY <5>1, Zenon DEF PoolInv, Generations
        <5> QED BY <2>3, <5>1, <5>2, <5>3, SMTT(30)
      <4> QED BY <4>1, <4>2, Zenon
    <3> QED BY <2>3, <3>2, Zenon DEF Generations
  <2>6. Held'
    <3> SUFFICES ASSUME NEW j \in Combined, NEW h \in Gen, NEW q \in Part
                 PROVE  \/ pool[j][h][q].by = NoCall
                        \/ pool[j][h][q].by \in Call /\ Holds(call'[pool[j][h][q].by], j, h, q)
                        \/ /\ pool[j][h][q].by = Writer /\ h <= key'[j].made
                           /\ key'[j].gen = h => \E w \in writers : w.key = j /\ w.gen = h
      BY <1>1, SMTT(30) DEF Held
    <3>1. \/ pool[j][h][q].by = NoCall
          \/ pool[j][h][q].by \in Call /\ Holds(call[pool[j][h][q].by], j, h, q)
          \/ /\ pool[j][h][q].by = Writer /\ h <= key[j].made
             /\ key[j].gen = h => \E w \in writers : w.key = j /\ w.gen = h
      BY DEF PoolInv, Held
    <3>2. h \in Nat
      BY DEF Gen
    <3>3. \A d \in Call : Holds(call[d], j, h, q) => Holds(call'[d], j, h, q)
      BY <1>1, <2>2, Zenon DEF Holds, Others
    <3>4. h <= key[j].made => h <= key'[j].made
      BY <2>3, <3>2, SMTT(30)
    <3>5. h <= key[j].made /\ key'[j].gen = h => key[j].gen = h
      BY <1>2, <2>1, <2>3, <3>2, SMTT(30)
    <3> QED BY <3>1, <3>3, <3>4, <3>5, Zenon
  <2> QED BY <2>4, <2>5, <2>6, Zenon DEF PoolInv
<1> QED BY <1>3, <1>4, Zenon

LEMMA SetByExcept ==
    ASSUME PoolRecords, NEW k \in Combined, NEW g, NEW p, NEW b,
           \/ pool' = [pool EXCEPT ![k][g][p].by = b]
           \/ \E rows, cut : pool' = [pool EXCEPT ![k][g][p] = [rows |-> rows, by |-> b, cut |-> cut]]
    PROVE  SetBy(k, g, p, b)
<1>1. /\ DOMAIN pool' = Combined
      /\ \A j \in Combined : j # k => pool'[j] = pool[j]
  BY Zenon DEF PoolRecords
<1>2. PICK r : /\ pool'[k] = [pool[k] EXCEPT ![g][p] = r]
               /\ g \in Gen /\ p \in Part => DOMAIN r = {"rows", "by", "cut"} /\ r.by = b
  <2>1. CASE pool' = [pool EXCEPT ![k][g][p].by = b]
    <3>1. pool'[k] = [pool[k] EXCEPT ![g][p] = [pool[k][g][p] EXCEPT !.by = b]]
      BY <2>1, Zenon DEF PoolRecords
    <3>2. ASSUME g \in Gen, p \in Part
          PROVE  /\ DOMAIN [pool[k][g][p] EXCEPT !.by = b] = {"rows", "by", "cut"}
                 /\ [pool[k][g][p] EXCEPT !.by = b].by = b
      <4>1. DOMAIN pool[k][g][p] = {"rows", "by", "cut"}
        BY <3>2 DEF PoolRecords
      <4> QED BY <4>1, Zenon
    <3> QED BY <3>1, <3>2, Zenon
  <2>2. CASE \E rows, cut : pool' = [pool EXCEPT ![k][g][p] = [rows |-> rows, by |-> b, cut |-> cut]]
    <3>1. PICK rows, cut : pool' = [pool EXCEPT ![k][g][p] = [rows |-> rows, by |-> b, cut |-> cut]]
      BY <2>2, Zenon
    <3>2. pool'[k] = [pool[k] EXCEPT ![g][p] = [rows |-> rows, by |-> b, cut |-> cut]]
      BY <3>1, Zenon DEF PoolRecords
    <3>3. /\ DOMAIN [rows |-> rows, by |-> b, cut |-> cut] = {"rows", "by", "cut"}
          /\ [rows |-> rows, by |-> b, cut |-> cut].by = b
      BY Zenon
    <3> QED BY <3>2, <3>3, Zenon
  <2> QED BY <2>1, <2>2, Zenon
<1>3. /\ DOMAIN pool'[k] = Gen
      /\ \A h \in Gen : h # g => pool'[k][h] = pool[k][h]
      /\ g \in Gen => pool'[k][g] = [pool[k][g] EXCEPT ![p] = r]
  BY <1>2, Zenon DEF PoolRecords
<1>4. \A h \in Gen : /\ DOMAIN pool'[k][h] = Part
                     /\ \A q \in Part : pool'[k][h][q] = IF h = g /\ q = p THEN r ELSE pool[k][h][q]
  BY <1>3, SMTT(30) DEF PoolRecords
<1>5. ASSUME NEW j \in Combined, NEW h \in Gen, NEW q \in Part
      PROVE  /\ DOMAIN pool'[j][h][q] = {"rows", "by", "cut"}
             /\ pool'[j][h][q].by = IF j = k /\ h = g /\ q = p THEN b ELSE pool[j][h][q].by
  <2>1. DOMAIN pool[j][h][q] = {"rows", "by", "cut"}
    BY SMTT(30) DEF PoolRecords
  <2>2. CASE j = k /\ h = g /\ q = p
    BY <1>2, <1>4, <2>2, Zenon
  <2>3. CASE ~(j = k /\ h = g /\ q = p)
    <3>1. pool'[j][h][q] = pool[j][h][q]
      BY <1>1, <1>4, <2>3, SMTT(30)
    <3> QED BY <2>1, <2>3, <3>1, Zenon
  <2> QED BY <2>2, <2>3, Zenon
<1>6. \A j \in Combined : DOMAIN pool'[j] = Gen /\ \A h \in Gen : DOMAIN pool'[j][h] = Part
  BY <1>1, <1>3, <1>4, SMTT(30) DEF PoolRecords
<1>7. PoolRecords'
  BY <1>1, <1>5, <1>6 DEF PoolRecords
<1> QED BY <1>5, <1>7, ZenonT(30) DEF SetBy

\* runCombine takes a combiner and gives it back.
LEMMA CombineRowPool ==
    ASSUME Shapes, PoolInv, NEW c \in Call, CombineRow(c)
    PROVE  PoolInv'
<1>1. PICK pc, p :
         /\ call[c].pc = "combine" /\ Moves(c, pc)
         /\ call'[c].gen = call[c].gen /\ call'[c].part = p
         /\ pool' = IF pc = "put"
                    THEN [pool EXCEPT ![KeyOf(call[c].name)][call[c].gen][p].by = c]
                    ELSE pool
  BY CombineRowMoves, Zenon
<1>0. UNCHANGED <<key, writers>>
  BY Zenon DEF CombineRow
<1>2. Inside(c) /\ KeyOf(call[c].name) \in Combined /\ call'[c].name = call[c].name /\ Others(c)
  BY <1>1, InsideKey, Zenon DEF Inside, Moves
<1>3. CASE pc = "put"
  <2>1. SetBy(KeyOf(call[c].name), call[c].gen, p, c)
    BY <1>1, <1>2, <1>3, SetByExcept, Zenon DEF PoolInv
  <2>2. Holds(call'[c], KeyOf(call[c].name), call[c].gen, p)
    BY <1>1, <1>2, <1>3, Zenon DEF Holds, Moves
  <2> QED BY <1>0, <1>1, <1>2, <2>1, <2>2, PoolTransfer, Zenon
<1>4. CASE pc # "put"
  BY <1>0, <1>1, <1>2, <1>4, PoolCall, Zenon DEF SameGens
<1> QED BY <1>3, <1>4, Zenon

LEMMA TakePool ==
    ASSUME Shapes, PoolInv, NEW c \in Call, Take(c)
    PROVE  PoolInv'
<1>1. PICK pc :
         /\ call[c].pc \in {"take", "rest"} /\ Moves(c, pc)
         /\ pc \in {"leaveErr", "put", "putRest"}
         /\ call'[c].gen = call[c].gen /\ call'[c].part = call[c].part
         /\ pool' = IF pc = "leaveErr" THEN pool
                    ELSE [pool EXCEPT ![KeyOf(call[c].name)][call[c].gen][call[c].part].by = c]
  BY TakeMoves, Zenon
<1>0. UNCHANGED <<key, writers>>
  BY Zenon DEF Take
<1>2. Inside(c) /\ KeyOf(call[c].name) \in Combined /\ call'[c].name = call[c].name /\ Others(c)
  BY <1>1, InsideKey, Zenon DEF Inside, Moves
<1>3. CASE pc # "leaveErr"
  <2>1. SetBy(KeyOf(call[c].name), call[c].gen, call[c].part, c)
    BY <1>1, <1>2, <1>3, SetByExcept, Zenon DEF PoolInv
  <2>2. Holds(call'[c], KeyOf(call[c].name), call[c].gen, call[c].part)
    BY <1>1, <1>2, <1>3, Zenon DEF Holds, Moves
  <2> QED BY <1>0, <1>1, <1>2, <2>1, <2>2, PoolTransfer, Zenon
<1>4. CASE pc = "leaveErr"
  BY <1>0, <1>1, <1>2, <1>4, PoolCall, Zenon DEF SameGens
<1> QED BY <1>3, <1>4, Zenon

LEMMA PutPool ==
    ASSUME Shapes, PoolInv, NEW c \in Call, Put(c)
    PROVE  PoolInv'
<1>1. /\ call[c].pc \in {"put", "putRest"} /\ call'[c].gen = call[c].gen
      /\ \E pc : Moves(c, pc)
  BY PutMoves, Zenon
<1>0. UNCHANGED <<key, writers>>
  BY Zenon DEF Put
<1>2. Inside(c) /\ KeyOf(call[c].name) \in Combined /\ call'[c].name = call[c].name /\ Others(c)
  BY <1>1, InsideKey, Zenon DEF Inside, Moves
<1> PICK k, g, p : k = KeyOf(call[c].name) /\ g = call[c].gen /\ p = call[c].part
  BY Zenon
<1>3. \E rows, cut : pool' = [pool EXCEPT ![k][g][p] = [rows |-> rows, by |-> NoCall, cut |-> cut]]
  BY Zenon DEF Put
<1>4. SetBy(k, g, p, NoCall)
  BY <1>2, <1>3, SetByExcept, Zenon DEF PoolInv
<1>5. Holds(call[c], k, g, p)
  BY <1>1, Zenon DEF Holds
<1> QED BY <1>0, <1>1, <1>2, <1>4, <1>5, PoolTransfer, Zenon

\* The steps of writeCombiner.  It takes combiners only of the generation that
\* it writes, and while that one is the key's its writer is there.
LEMMA WriterPool ==
    ASSUME Shapes, PoolInv, UNCHANGED call, PoolRecords',
           \A j \in Combined : key'[j].made = key[j].made /\ key'[j].gen \in {0, key[j].gen},
           \A j \in Combined : \A h \in Gen : \A q \in Part :
             \/ pool'[j][h][q].by = pool[j][h][q].by
             \/ /\ pool'[j][h][q].by = Writer /\ key[j].gen = h
                /\ \E v \in writers' : v.key = j /\ v.gen = h,
           \A v \in writers : key'[v.key].gen = v.gen /\ v.gen # 0 =>
             \E u \in writers' : u.key = v.key /\ u.gen = v.gen
    PROVE  PoolInv'
<1>1. Generations'
  <2>1. \A j \in Combined : key[j].made \in 0..MaxGen /\ key[j].gen \in 0..key[j].made
    BY Zenon DEF PoolInv, Generations
  <2>2. \A j \in Combined : key'[j].made \in 0..MaxGen /\ key'[j].gen \in 0..key'[j].made
    BY <2>1
  <2>3. \A d \in Call : Inside(d) => KeyOf(call[d].name) \in Combined
    BY InsideKey, Zenon
  <2>4. \A d \in Call : Inside(d)' => call'[d].gen \in 0..key'[KeyOf(call'[d].name)].made
    BY <2>3, ZenonT(30) DEF PoolInv, Generations, Inside
  <2> QED BY <2>2, <2>4, Zenon DEF Generations
<1>2. Held'
  <2> SUFFICES ASSUME NEW j \in Combined, NEW h \in Gen, NEW q \in Part
               PROVE  \/ pool'[j][h][q].by = NoCall
                      \/ pool'[j][h][q].by \in Call /\ Holds(call[pool'[j][h][q].by], j, h, q)
                      \/ /\ pool'[j][h][q].by = Writer /\ h <= key'[j].made
                         /\ key'[j].gen = h => \E v \in writers' : v.key = j /\ v.gen = h
    BY SMTT(30) DEF Held
  <2>1. /\ key[j].made \in 0..MaxGen /\ key[j].gen \in 0..key[j].made /\ h \in Nat /\ h # 0
        /\ key'[j].made = key[j].made /\ key'[j].gen \in {0, key[j].gen}
    BY SMTT(30) DEF PoolInv, Generations, Gen
  <2>2. CASE pool'[j][h][q].by = pool[j][h][q].by
    <3>1. \/ pool[j][h][q].by = NoCall
          \/ pool[j][h][q].by \in Call /\ Holds(call[pool[j][h][q].by], j, h, q)
          \/ /\ pool[j][h][q].by = Writer /\ h <= key[j].made
             /\ key[j].gen = h => \E v \in writers : v.key = j /\ v.gen = h
      BY DEF PoolInv, Held
    <3>2. key'[j].gen = h => key[j].gen = h
      BY <2>1, Zenon
    <3>3. key'[j].gen = h /\ (\E v \in writers : v.key = j /\ v.gen = h) =>
            \E v \in writers' : v.key = j /\ v.gen = h
      BY <2>1, SMTT(30)
    <3> QED BY <2>1, <2>2, <3>1, <3>2, <3>3, Zenon
  <2>3. CASE /\ pool'[j][h][q].by = Writer /\ key[j].gen = h
             /\ \E v \in writers' : v.key = j /\ v.gen = h
    BY <2>1, <2>3
  <2> QED BY <2>2, <2>3, SMTT(30)
<1> QED BY <1>1, <1>2, Zenon DEF PoolInv

LEMMA WriteStartPool ==
    ASSUME Shapes, PoolInv, NEW k \in Combined, WriteStart(k)
    PROVE  PoolInv'
<1> PICK g : g = key[k].gen
  BY Zenon
<1>1. UNCHANGED call /\ key' = [key EXCEPT ![k].spawned = key[k].spawned - 1]
  BY Zenon DEF WriteStart
<1>2. \A j \in Combined : key'[j].made = key[j].made /\ key'[j].gen = key[j].gen
  BY <1>1, Zenon DEF Shapes, KeyRecord
<1>3. PICK v : writers' = writers \cup {v} /\ v.key = k /\ v.gen = g
  <2>1. PICK left : writers' = writers \cup {[key |-> k, gen |-> g, failed |-> FALSE, left |-> left]}
    BY Zenon DEF WriteStart
  <2>2. /\ [key |-> k, gen |-> g, failed |-> FALSE, left |-> left].key = k
        /\ [key |-> k, gen |-> g, failed |-> FALSE, left |-> left].gen = g
    BY Zenon
  <2> QED BY <2>1, <2>2, Zenon
<1>4. g \in 0..MaxGen
  BY WorkerAssumption DEF PoolInv, Generations
<1>5. CASE g = 0
  <2>1. pool' = pool
    BY <1>5, Zenon DEF WriteStart
  <2>2. PoolRecords'
    BY <2>1 DEF PoolInv, PoolRecords
  <2> QED BY <1>1, <1>2, <1>3, <2>1, <2>2, WriterPool, Zenon
<1>6. CASE g # 0
  <2>1. /\ g \in Gen
        /\ pool' = [pool EXCEPT ![k][g] = [p \in Part |-> [pool[k][g][p] EXCEPT !.by = Writer]]]
    BY <1>4, <1>6, WorkerAssumption, SMTT(30) DEF WriteStart, Gen
  <2>2. /\ DOMAIN pool' = Combined /\ \A j \in Combined : j # k => pool'[j] = pool[j]
        /\ DOMAIN pool'[k] = Gen /\ \A h \in Gen : h # g => pool'[k][h] = pool[k][h]
        /\ pool'[k][g] = [p \in Part |-> [pool[k][g][p] EXCEPT !.by = Writer]]
    BY <2>1, Zenon DEF PoolInv, PoolRecords
  <2>3. \A p \in Part : DOMAIN pool'[k][g][p] = {"rows", "by", "cut"} /\ pool'[k][g][p].by = Writer
    BY <2>1, <2>2, SMTT(30) DEF PoolInv, PoolRecords
  <2>4. PoolRecords'
    BY <2>2, <2>3, SMTT(30) DEF PoolInv, PoolRecords
  <2>5. ASSUME NEW j \in Combined, NEW h \in Gen, NEW q \in Part
        PROVE  \/ pool'[j][h][q].by = pool[j][h][q].by
               \/ /\ pool'[j][h][q].by = Writer /\ key[j].gen = h
                  /\ \E u \in writers' : u.key = j /\ u.gen = h
    <3>1. CASE j = k /\ h = g
      <4>1. v \in writers' /\ pool'[k][g][q].by = Writer
        BY <1>3, <2>3, Zenon
      <4> QED BY <1>3, <3>1, <4>1, Zenon
    <3>2. CASE ~(j = k /\ h = g)
      BY <2>2, <3>2, SMTT(30)
    <3> QED BY <3>1, <3>2, Zenon
  <2> QED BY <1>1, <1>2, <1>3, <2>4, <2>5, WriterPool, Zenon
<1> QED BY <1>5, <1>6, Zenon

LEMMA WritePartPool ==
    ASSUME Shapes, PoolInv, NEW w \in writers, NEW p \in w.left, WritePart(w, p)
    PROVE  PoolInv'
<1>1. UNCHANGED <<call, key, pool>> /\ w \in WriterRecord
  BY Zenon DEF WritePart, Shapes
<1>2. PICK v : writers' = (writers \ {w}) \cup {v} /\ v.key = w.key /\ v.gen = w.gen
  <2>1. \/ writers' = (writers \ {w}) \cup {[w EXCEPT !.left = w.left \ {p}]}
        \/ writers' = (writers \ {w}) \cup {[w EXCEPT !.left = w.left \ {p}, !.failed = TRUE]}
    BY Zenon DEF WritePart
  <2>2. /\ [w EXCEPT !.left = w.left \ {p}].key = w.key
        /\ [w EXCEPT !.left = w.left \ {p}].gen = w.gen
        /\ [w EXCEPT !.left = w.left \ {p}, !.failed = TRUE].key = w.key
        /\ [w EXCEPT !.left = w.left \ {p}, !.failed = TRUE].gen = w.gen
    BY <1>1, Zenon DEF WriterRecord
  <2> QED BY <2>1, <2>2, Zenon
<1>3. PoolRecords'
  BY <1>1 DEF PoolInv, PoolRecords
<1> QED BY <1>1, <1>2, <1>3, WriterPool, Zenon

LEMMA WriteEndPool ==
    ASSUME Shapes, PoolInv, NEW w \in writers, WriteEnd(w)
    PROVE  PoolInv'
<1> PICK k : k = w.key
  BY Zenon
<1>1. /\ UNCHANGED <<call, pool>> /\ w \in WriterRecord /\ writers' = writers \ {w}
      /\ \E st : key' = [key EXCEPT ![k].gen = 0, ![k].state = st]
  BY Zenon DEF WriteEnd, Shapes
<1>2. k \in Combined
  BY <1>1, Zenon DEF WriterRecord
<1>3. /\ key'[k].gen = 0 /\ \A j \in Combined : j # k => key'[j] = key[j]
      /\ \A j \in Combined : key'[j].made = key[j].made
  BY <1>1, <1>2 DEF Shapes, KeyRecord
<1>4. PoolRecords'
  BY <1>1 DEF PoolInv, PoolRecords
<1> QED BY <1>1, <1>3, <1>4, WriterPool, Zenon

\* The steps that begin a call, and those that touch no combiner.
LEMMA IssuePool ==
    ASSUME Shapes, PoolInv, NEW c \in Call, NEW n, NEW op, NEW pc, Issue(c, n, op, pc),
           pc \in {"enter", "commit", "discard"}
    PROVE  PoolInv'
<1>1. /\ call[c].pc = "idle" /\ call' = [call EXCEPT ![c] = NewCall(op, n, pc)]
      /\ UNCHANGED <<key, pool, writers>>
  BY Zenon DEF Issue, NextFree, NewCall
<1>2. NewCall(op, n, pc).pc = pc
  BY Zenon DEF NewCall, Unused
<1>3. Others(c) /\ call'[c].pc = pc
  BY <1>1, <1>2, Zenon DEF Others, Shapes
<1>4. Outside(c)
  BY <1>1, <1>3, Zenon DEF Outside, SameGens, InsidePCs
<1> QED BY <1>4, OutsideKeeps, Zenon

LEMMA DropPool ==
    ASSUME Shapes, PoolInv, NEW c \in Call, NEW d \in Call, call[c].pc # "idle", Drop(c, d)
    PROVE  PoolInv'
<1> PICK op, n : op = call[c].op /\ n = call[c].name
  BY Zenon
<1> DEFINE start == [run |-> "enter", commit |-> "commit", discard |-> "discard"]
<1> PICK pc : pc = start[op]
  BY Zenon
<1>1. Shaped(call[c]) /\ DOMAIN call = Call /\ \A e \in Call : DOMAIN call[e] = Fields
  BY Zenon DEF Shapes, Shaped
<1>2. pc \in {"enter", "commit", "discard"}
  BY <1>1 DEF Shaped
<1>3. /\ call[d].pc = "idle" /\ call' = [call EXCEPT ![c].dead = TRUE, ![d] = NewCall(op, n, pc)]
      /\ UNCHANGED <<key, pool, writers>>
  BY Zenon DEF Drop, NextFree, NewCall
<1>4. NewCall(op, n, pc).pc = pc
  BY Zenon DEF NewCall, Unused
<1>5. call'[d].pc \in {"enter", "commit", "discard"}
  BY <1>1, <1>2, <1>3, <1>4, Zenon
<1>6. \A e \in Call : e # d => /\ call'[e].pc = call[e].pc /\ call'[e].name = call[e].name
                               /\ call'[e].gen = call[e].gen /\ call'[e].part = call[e].part
  BY <1>1, <1>3, Zenon DEF Fields
<1> QED BY <1>3, <1>5, <1>6, PoolFrame, Zenon DEF Inside, SameGens

LEMMA QuietPool ==
    ASSUME Shapes, PoolInv, UNCHANGED <<key, pool, writers, call>>
    PROVE  PoolInv'
BY PoolFrame, Zenon DEF Inside, SameGens

LEMMA ReadFailsPool ==
    ASSUME Shapes, PoolInv, NEW c \in Call, ReadFails(c)
    PROVE  PoolInv'
<1>1. PICK pc : /\ Goto(c, pc)
                /\ \/ call[c].pc = "read" /\ pc = "fail"
                   \/ call[c].pc = "combine" /\ pc = "leaveErr"
  BY Zenon DEF ReadFails
<1>2. UNCHANGED <<key, pool, writers>>
  BY Zenon DEF ReadFails
<1>3. Moves(c, pc) /\ call'[c].gen = call[c].gen
  BY <1>1, GotoMoves, ZenonT(30) DEF Goto, Shapes, Shaped, Fields
<1> QED BY <1>1, <1>2, <1>3, PoolCall, Zenon DEF Moves, Inside, SameGens

LEMMA PoolInit ==
    ASSUME Init
    PROVE  PoolInv /\ GenKnown
<1>1. PoolRecords
  BY Zenon DEF Init, PoolRecords, Fresh
<1>2. \A k \in Combined : key[k].gen = 0 /\ key[k].made = 0 /\ key[k].spawned = 0 /\ key[k].state = 0
  BY Zenon DEF Init, combinerNone
<1>3. Generations
  <2>1. \A c \in Call : ~Inside(c)
    BY Zenon DEF Init, Inside, Unused
  <2>2. 0 \in 0..MaxGen
    BY WorkerAssumption, SMTT(30)
  <2> QED BY <1>2, <2>1, <2>2, SMTT(30) DEF Generations
<1>4. Held
  BY Zenon DEF Init, Held, Fresh
<1>5. GenKnown
  BY <1>2, SMTT(30) DEF GenKnown, combinerIdle
<1> QED BY <1>1, <1>3, <1>4, <1>5, Zenon DEF PoolInv

LEMMA PoolNext ==
    ASSUME Shapes, PoolInv, [Next]_vars
    PROVE  PoolInv'
<1>1. CASE Compile \/ OpenAt \/ ReadStream \/ BreakStream \/ UNCHANGED vars
  <2>1. UNCHANGED <<key, pool, writers, call>>
    BY <1>1, Zenon DEF Compile, OpenAt, ReadStream, BreakStream, vars
  <2> QED BY <2>1, QuietPool, Zenon
<1>2. ASSUME NEW c \in Call, NEW n \in Name,
             IssueRun(c, n) \/ IssueDiscard(c, n) \/ IssueCommit(c, n)
      PROVE  PoolInv'
  <2>1. \E op : \E pc \in {"enter", "commit", "discard"} : Issue(c, n, op, pc)
    BY <1>2, Zenon DEF IssueRun, IssueDiscard, IssueCommit
  <2> QED BY <2>1, IssuePool, Zenon
<1>3. ASSUME NEW c \in Call, NEW d \in Call, call[c].pc # "idle", Drop(c, d)
      PROVE  PoolInv'
  BY <1>3, DropPool, Zenon
<1>4. ASSUME NEW c \in Call, Step(c) \/ ReadFails(c)
      PROVE  PoolInv'
  <2>1. CASE Outside(c)
    BY <2>1, OutsideKeeps, Zenon
  <2>2. CASE Share(c) \/ CombineRow(c) \/ Take(c) \/ Put(c) \/ ReadFails(c)
    BY <2>2, SharePool, CombineRowPool, TakePool, PutPool, ReadFailsPool, Zenon
  <2> QED BY <1>4, <2>1, <2>2, RunOutside, EndOutside, CombinerOutside, Zenon DEF Step
<1>5. CASE WriterStep
  BY <1>5, WriteStartPool, WritePartPool, WriteEndPool, Zenon DEF WriterStep
<1> QED BY <1>1, <1>2, <1>3, <1>4, <1>5, Zenon DEF Next

\* The combiners that are in use or about to be written exist.
LEMMA KnownKept ==
    ASSUME GenKnown, mixed \subseteq mixed',
           \A k \in Combined :
             ~MixedKey(k) /\ (key'[k].state >= combinerIdle \/ key'[k].spawned > 0) =>
               \/ key'[k].gen # 0
               \/ /\ key[k].state >= combinerIdle \/ key[k].spawned > 0
                  /\ key'[k].gen = key[k].gen
    PROVE  GenKnown'
<1>1. \A k : MixedKey(k) => MixedKey(k)'
  BY Zenon DEF MixedKey
<1> QED BY <1>1, Zenon DEF GenKnown

LEMMA KnownWriter ==
    ASSUME WorkerInv, GenKnown, WriterStep
    PROVE  GenKnown'
<1>1. DOMAIN key = Combined /\ \A k \in Combined : key[k] \in KeyRecord
  BY Zenon DEF WorkerInv, Shapes
<1>2. ASSUME NEW k \in Combined, WriteStart(k)
      PROVE  GenKnown'
  <2>1. mixed' = mixed /\ key[k].spawned > 0 /\ key' = [key EXCEPT ![k].spawned = key[k].spawned - 1]
    BY <1>2, Zenon DEF WriteStart, history
  <2>2. \A j \in Combined : /\ key'[j].gen = key[j].gen /\ key'[j].state = key[j].state
                            /\ j # k => key'[j].spawned = key[j].spawned
    BY <1>1, <2>1, Zenon DEF KeyRecord
  <2> QED BY <2>1, <2>2, KnownKept, Zenon
<1>3. ASSUME NEW w \in writers, WriteEnd(w)
      PROVE  GenKnown'
  <2> PICK k, st : k = w.key /\ st = IF w.failed THEN combinerError ELSE combinerCommitted
    BY Zenon
  <2>1. mixed' = mixed /\ key' = [key EXCEPT ![k].gen = 0, ![k].state = st]
    BY <1>3, Zenon DEF WriteEnd, history
  <2>2. /\ key'[k].spawned = key[k].spawned /\ key'[k].state = st
        /\ \A j \in Combined : j # k => key'[j] = key[j]
        /\ k \in Combined
    BY <1>1, <2>1, Zenon DEF KeyRecord, WriterRecord, WorkerInv, Shapes
  <2>3. ~MixedKey(k) => key[k].spawned = 0
    BY <2>2, Zenon DEF WorkerInv, OneWriter
  <2>4. ~(st >= combinerIdle)
    BY DEF combinerIdle, combinerError, combinerCommitted
  <2>5. ASSUME NEW j \in Combined, ~MixedKey(j), key'[j].state >= combinerIdle \/ key'[j].spawned > 0
        PROVE  key'[j] = key[j]
    BY <2>2, <2>3, <2>4, <2>5, SMTT(30)
  <2> QED BY <2>1, <2>5, KnownKept, Zenon
<1>4. ASSUME NEW w \in writers, NEW p \in w.left, WritePart(w, p)
      PROVE  GenKnown'
  BY <1>4, KnownKept, Zenon DEF WritePart
<1> QED BY <1>2, <1>3, <1>4, Zenon DEF WriterStep

=============================================================================
