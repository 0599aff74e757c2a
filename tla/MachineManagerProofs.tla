------------------------ MODULE MachineManagerProofs ------------------------
(***************************************************************************)
(* Proofs about module MachineManager, for every set of requests, every    *)
(* machine size, load and parallelism, and any number of failures.         *)
(***************************************************************************)
EXTENDS MachineManager, FiniteSetTheorems, TLAPS

LEMMA DivNat ==
    ASSUME NEW a \in Nat, NEW b \in Nat \ {0}
    PROVE  a \div b \in Nat
OBVIOUS

LEMMA Params ==
    /\ machprocs \in Nat \ {0} /\ maxp \in Nat
    /\ \A r \in Request : procs(r) \in Nat
<1>1. loadProcs \in Nat
  <2>1. Maxprocs * MaxLoad \in Nat
    BY ManagerAssumption
  <2> QED
    BY <2>1, DivNat DEF loadProcs
<1>2. (Parallelism + Maxprocs - 1) \div Maxprocs \in Nat
  BY ManagerAssumption, DivNat
<1>3. machprocs \in Nat \ {0} /\ maxp \in Nat
  BY <1>1, <1>2, ManagerAssumption DEF machprocs, maxp
<1> QED
  BY <1>3, ManagerAssumption, Zenon DEF procs

LEMMA MachineFinite ==
    /\ IsFiniteSet(Machine)
    /\ \A S \in SUBSET Machine : IsFiniteSet(S) /\ Cardinality(S) \in Nat
<1>1. IsFiniteSet(Machine)
  BY ManagerAssumption, FS_Interval DEF Machine
<1> QED
  BY <1>1, FS_Subset, FS_CardinalityType, Zenon

\* What the end of an iteration does: it may start a batch of new machines.
LEMMA Batch ==
    ASSUME NEW p \in Int, NEW S, need' \in Int, started \in Nat, Len(machines') \in Nat,
           Cardinality(probation') \in Nat, StartMachines(p, S)
    PROVE  \E n \in Nat : /\ started + n <= MaxMachines
                          /\ started' = started + n
                          /\ pending' = p + n * machprocs
                          /\ starting' = IF n = 0 THEN S
                                         ELSE S \cup {[lo |-> started + 1, hi |-> started + n]}
<1> DEFINE have == (Len(machines') + Cardinality(probation')) * machprocs
           wanted == (IF need' < maxp THEN need' ELSE maxp) - have - p
           n == IF wanted <= 0 THEN 0
                ELSE IF machinesFor(wanted) < maxStartMachines THEN machinesFor(wanted)
                ELSE maxStartMachines
<1>1. have \in Int
  BY Params
<1>2. wanted \in Int
  BY <1>1, Params
<1>3. wanted > 0 => machinesFor(wanted) \in Nat
  <2> HIDE DEF wanted
  <2>1. wanted > 0 => wanted + machprocs - 1 \in Nat
    BY <1>2, Params
  <2> QED
    BY <2>1, Params, DivNat, Zenon DEF machinesFor
<1>4. n \in Nat
  <2> HIDE DEF wanted
  <2> QED
    BY <1>2, <1>3, ManagerAssumption
<1>5. /\ started + n <= MaxMachines /\ started' = started + n
      /\ pending' = p + n * machprocs
      /\ starting' = IF n = 0 THEN S ELSE S \cup {[lo |-> started + 1, hi |-> started + n]}
  BY Zenon DEF StartMachines
<1> HIDE DEF n
<1> QED
  BY <1>4, <1>5, Zenon

\* Among machines on probation there is one that failed first.
LEMMA OldestIsThere ==
    ASSUME NEW S \in SUBSET Machine, S # {}, NEW f \in [Machine -> Nat]
    PROVE  Oldest(S, f) \in S
<1> DEFINE T == {f[m] : m \in S}
<1>1. T \in SUBSET Nat /\ T # {}
  BY Zenon
<1>2. PICK x \in T : \A y \in T : ~(<<y, x>> \in OpToRel(<, Nat))
  <2> HIDE DEF T
  <2> QED
    BY <1>1, NatLessThanWellFounded, WFMin, Zenon
<1>3. \A y \in Nat, z \in Nat : ~(<<y, z>> \in OpToRel(<, Nat)) => z <= y
  BY DEF OpToRel
<1>4. \A y \in T : x <= y
  <2> HIDE DEF T
  <2> QED
    BY <1>1, <1>2, <1>3, Zenon
<1>5. \E m \in S : \A n \in S : f[m] <= f[n]
  BY <1>4, Zenon
<1> QED
  BY <1>5, Zenon DEF Oldest
-----------------------------------------------------------------------------
(* The inductive invariant.                                                *)

\* The machine list, the probation heap and the health of the machines agree.
\* The index of a machine in the list is its place there, and no two machines in
\* the heap have the same one.
Once(ms) == \A i, j \in DOMAIN ms : ms[i] = ms[j] => i = j
Listed(ms) == {ms[i] : i \in DOMAIN ms}
InPlace(ms, ix) == \A i \in DOMAIN ms : ix[ms[i]] = i - 1
Apart(P, ix) == \A m, n \in P : ix[m] = ix[n] => m = n
PoolOK(ms, P, h, ix) ==
    /\ ms \in Seq(Machine) /\ P \in SUBSET Machine /\ h \in [Machine -> Healths]
    /\ ix \in [Machine -> Int] /\ InPlace(ms, ix) /\ Apart(P, ix)
    /\ Once(ms)
    /\ {m \in Machine : h[m] = "ok"} = Listed(ms)
    /\ {m \in Machine : h[m] = "probation"} = P

\* Machines being started are fresh names, in one batch each.
FreshBatches(S, n, h) ==
    /\ \A b \in S : /\ b.lo <= b.hi /\ b.hi <= n
                    /\ \A m \in b.lo..b.hi : h[m] = "none"
    /\ \A b, c \in S : b # c => \A m \in b.lo..b.hi : m \notin c.lo..c.hi
    /\ \A m \in Machine : m > n => h[m] = "none"

\* The variables that do not belong to the pool.
ClientTypeOK ==
    /\ req \in [Request -> ReqStates]
    /\ on \in [Request -> Machine \cup {NoMachine}]
    /\ \A r \in Request : req[r] = "running" => on[r] \in Machine
    /\ schedQ \in SUBSET Request
    /\ need \in Int /\ taskProcs \in [Machine -> Int]
    /\ failures \in 0..MaxFailures

FailureTypeOK == lastFailure \in [Machine -> Nat] /\ clock \in Nat

Batches == [lo : Machine, hi : Machine]
StartTypeOK == pending \in Int /\ starting \in SUBSET Batches /\ started \in 0..MaxMachines

Timers == [state : {"clear", "armed", "expired"}, at : Nat]

ManagerInv ==
    /\ ClientTypeOK /\ FailureTypeOK /\ StartTypeOK
    /\ PoolOK(machines, probation, health, index)
    /\ FreshBatches(starting, started, health)
    /\ PendingAccounted
    /\ probationTimer \in Timers /\ TimerForOldest

LEMMA InvImplies == ManagerInv => TypeOK /\ MachinesListed
BY Zenon
   DEF ManagerInv, ClientTypeOK, FailureTypeOK, StartTypeOK, PoolOK, Once, Listed, Batches,
       Timers, TypeOK, MachinesListed

-----------------------------------------------------------------------------
(* The list of machines.                                                   *)

LEMMA AppendToList ==
    ASSUME NEW ms \in Seq(Machine), Once(ms), NEW m \in Machine, m \notin Listed(ms)
    PROVE  /\ Append(ms, m) \in Seq(Machine) /\ Once(Append(ms, m))
           /\ Listed(Append(ms, m)) = Listed(ms) \cup {m}
<1> DEFINE n == Len(ms)
           as == Append(ms, m)
<1>1. /\ n \in Nat /\ as \in Seq(Machine) /\ DOMAIN as = 1..(n + 1)
      /\ DOMAIN ms = 1..n /\ as[n + 1] = m /\ \A i \in 1..n : as[i] = ms[i]
  OBVIOUS
<1> HIDE DEF as, n
<1>2. \A i \in 1..(n + 1) : i \in 1..n \/ i = n + 1
  BY <1>1
<1>3. \A i \in 1..n : i \in 1..(n + 1) /\ ms[i] # m
  BY <1>1 DEF Listed
<1>4. Once(as)
  BY <1>1, <1>2, <1>3, Zenon DEF Once
<1>5. Listed(as) = Listed(ms) \cup {m}
  <2>1. n + 1 \in 1..(n + 1)
    BY <1>1
  <2> QED
    BY <2>1, <1>1, <1>2, <1>3, Zenon DEF Listed
<1> QED
  BY <1>1, <1>4, <1>5, Zenon DEF as

\* removeMachine removes the machine at a place, and only it.
LEMMA RemoveFromList ==
    ASSUME NEW ms \in Seq(Machine), Once(ms), NEW k \in DOMAIN ms
    PROVE  /\ removeMachine(ms, k - 1) \in Seq(Machine) /\ Once(removeMachine(ms, k - 1))
           /\ Listed(removeMachine(ms, k - 1)) = Listed(ms) \ {ms[k]}
<1> DEFINE n == Len(ms)
           rs == removeMachine(ms, k - 1)
<1> PICK m : m = ms[k]
  BY Zenon
<1>1. k \in 1..n /\ ms[k] = m
  OBVIOUS
<1>2. n \in Nat /\ n > 0 /\ \A i \in 1..n : ms[i] \in Machine
  BY <1>1
<1>3. rs = [j \in 1..(n - 1) |-> IF j = k THEN ms[n] ELSE ms[j]]
  BY <1>1, <1>2 DEF removeMachine
<1>4. rs \in Seq(Machine) /\ DOMAIN rs = 1..(n - 1)
  BY <1>2, <1>3
<1>5. Once(rs)
  BY <1>1, <1>2, <1>3 DEF Once
<1>6. \A x : x \in Listed(rs) => x \in Listed(ms) \ {m}
  BY <1>1, <1>2, <1>3 DEF Listed, Once
<1>7. \A x : x \in Listed(ms) \ {m} => x \in Listed(rs)
  <2> SUFFICES ASSUME NEW i \in 1..n, ms[i] # m
               PROVE  ms[i] \in Listed(rs)
    BY <1>2 DEF Listed
  <2>1. CASE i = n
    <3>1. k \in 1..(n - 1) /\ rs[k] = ms[n]
      BY <2>1, <1>1, <1>2, <1>3
    <3> QED
      BY <3>1, <2>1, <1>4, Zenon DEF Listed
  <2>2. CASE i # n
    <3>1. i \in 1..(n - 1) /\ rs[i] = ms[i]
      BY <2>2, <1>1, <1>2, <1>3
    <3> QED
      BY <3>1, <1>4, Zenon DEF Listed
  <2> QED
    BY <2>1, <2>2, Zenon
<1> QED
  BY <1>4, <1>5, <1>6, <1>7, Zenon

\* The machine that takes its place gets its index.
LEMMA RemoveInPlace ==
    ASSUME machines \in Seq(Machine), Once(machines), index \in [Machine -> Int],
           NEW k \in DOMAIN machines, InPlace(machines, index), NEW m \in Machine,
           machines[k] = m
    PROVE  /\ Removed(m) \in [Machine -> Int]
           /\ InPlace(removeMachine(machines, index[m]), Removed(m))
<1> PICK n : n = Len(machines)
  BY Zenon
<1> PICK rs : rs = removeMachine(machines, index[m])
  BY Zenon
<1>1. n \in Nat /\ k \in 1..n /\ index[m] = k - 1 /\ DOMAIN machines = 1..n
  BY DEF InPlace
<1>2. rs = [j \in 1..(n - 1) |-> IF j = k THEN machines[n] ELSE machines[j]]
  BY <1>1 DEF removeMachine
<1>3. n \in 1..n /\ \A i \in 1..n : machines[i] \in Machine
  BY <1>1
<1>4. Removed(m) = [index EXCEPT ![machines[n]] = k - 1, ![m] = -1]
  BY <1>1, Zenon DEF Removed
<1>5. Removed(m) \in [Machine -> Int]
  BY <1>1, <1>3, <1>4
<1>6. ASSUME NEW j \in 1..(n - 1) PROVE Removed(m)[rs[j]] = j - 1
  <2>0. j \in 1..n /\ j # n
    BY <1>1
  <2>1. machines[j] # machines[n] /\ index[machines[j]] = j - 1
    BY <1>1, <1>3, <2>0, Zenon DEF Once, InPlace
  <2>2. CASE j = k
    BY <1>2, <1>3, <1>4, <2>0, <2>1, <2>2
  <2>3. CASE j # k
    <3>1. machines[j] # m
      BY <1>1, <2>0, <2>3, Zenon DEF Once
    <3> QED BY <1>2, <1>3, <1>4, <2>0, <2>1, <2>3, <3>1
  <2> QED BY <2>2, <2>3, Zenon
<1>7. InPlace(rs, Removed(m))
  BY <1>2, <1>6, Zenon DEF InPlace
<1> QED BY <1>5, <1>7, Zenon

\* The operations on the heap keep the machines in it apart, and leave the others
\* the index they have.
LEMMA ReindexStep ==
    ASSUME NEW ix \in [Machine -> Int], probation' \in SUBSET Machine, Reindex(ix)
    PROVE  /\ index' \in [Machine -> Int] /\ Apart(probation', index')
           /\ \A m \in Machine : m \notin probation' => index'[m] = ix[m]
<1>1. PICK f \in Places(probation', lastFailure') :
         index' = [m \in Machine |-> IF m \in probation' THEN f[m] ELSE ix[m]]
  BY Zenon DEF Reindex
<1>2. /\ \A m \in probation' : f[m] \in Int
      /\ \A m, n \in probation' : f[m] = f[n] => m = n
  BY DEF Places
<1>3. index' \in [Machine -> Int]
  BY <1>1, <1>2
<1>4. Apart(probation', index')
  BY <1>1, <1>2, Zenon DEF Apart
<1> QED BY <1>1, <1>3, <1>4, Zenon

\* A batch that has started is appended in the order of its names.
LEMMA BatchToList ==
    ASSUME NEW ms \in Seq(Machine), Once(ms), NEW lo \in Nat, NEW k \in Nat,
           lo..(lo + k - 1) \subseteq Machine,
           \A m \in lo..(lo + k - 1) : m \notin Listed(ms)
    PROVE  LET bs == [i \in 1..k |-> lo + i - 1]
           IN /\ ms \o bs \in Seq(Machine) /\ Once(ms \o bs)
              /\ Listed(ms \o bs) = Listed(ms) \cup lo..(lo + k - 1)
<1> DEFINE bs == [i \in 1..k |-> lo + i - 1]
           n == Len(ms)
           cs == ms \o bs
<1>1. bs \in Seq(Machine) /\ Len(bs) = k
  <2>1. \A i \in 1..k : lo + i - 1 \in lo..(lo + k - 1)
    OBVIOUS
  <2> QED
    BY <2>1
<1>2. /\ cs \in Seq(Machine) /\ n \in Nat /\ DOMAIN cs = 1..(n + k)
      /\ \A i \in 1..n : cs[i] = ms[i]
      /\ \A i \in (n + 1)..(n + k) : cs[i] = lo + (i - n) - 1
      /\ DOMAIN ms = 1..n
  BY <1>1
<1> HIDE DEF cs, n
<1>3. \A i \in 1..(n + k) : \/ i \in 1..n /\ cs[i] \in Listed(ms)
                            \/ i \in (n + 1)..(n + k) /\ cs[i] = lo + (i - n) - 1
  <2>1. \A i \in 1..(n + k) : i \in 1..n \/ i \in (n + 1)..(n + k)
    BY <1>2
  <2> QED
    BY <2>1, <1>2, Zenon DEF Listed
<1>4. Once(cs)
  BY <1>2, <1>3 DEF Once
<1>5. \A x : x \in Listed(cs) => x \in Listed(ms) \cup lo..(lo + k - 1)
  BY <1>2, <1>3 DEF Listed
<1>6. \A x \in Listed(ms) : x \in Listed(cs)
  BY <1>2 DEF Listed
<1>7. \A x \in lo..(lo + k - 1) : x \in Listed(cs)
  <2> SUFFICES ASSUME NEW x \in lo..(lo + k - 1) PROVE x \in Listed(cs)
    BY Zenon
  <2> DEFINE i == n + (x - lo + 1)
  <2>1. i \in (n + 1)..(n + k) /\ i \in 1..(n + k) /\ lo + (i - n) - 1 = x
    BY <1>2
  <2> HIDE DEF i
  <2> QED
    BY <2>1, <1>2, Zenon DEF Listed
<1> QED
  BY <1>2, <1>4, <1>5, <1>6, <1>7, Zenon DEF cs
-----------------------------------------------------------------------------
(* The end of an iteration.                                                *)

LEMMA TimerStep ==
    ASSUME NEW t \in Timers, NEW S \in SUBSET Machine, NEW f \in [Machine -> Nat]
    PROVE  /\ SetTimer(t, S, f) \in Timers
           /\ SetTimer(t, S, f).state # "clear" => S # {}
           /\ S # {} => /\ SetTimer(t, S, f).state # "clear"
                        /\ SetTimer(t, S, f).at = f[Oldest(S, f)]
<1>1. CASE S = {}
  BY <1>1, Zenon DEF SetTimer, Clear, Timers
<1>2. CASE S # {}
  <2>1. f[Oldest(S, f)] \in Nat
    BY <1>2, OldestIsThere, Zenon
  <2> QED
    BY <1>2, <2>1, Zenon DEF SetTimer, Timers
<1> QED
  BY <1>1, <1>2, Zenon

LEMMA BatchesStep ==
    ASSUME StartTypeOK, NEW S \in SUBSET starting, NEW h, FreshBatches(S, started, h),
           NEW n \in Nat, started + n <= MaxMachines, started' = started + n,
           starting' = IF n = 0 THEN S
                       ELSE S \cup {[lo |-> started + 1, hi |-> started + n]}
    PROVE  FreshBatches(starting', started', h) /\ starting' \in SUBSET Batches
<1> DEFINE new == [lo |-> started + 1, hi |-> started + n]
<1>0. started \in Nat /\ MaxMachines \in Nat
  BY ManagerAssumption DEF StartTypeOK
<1>1. CASE n = 0
  BY <1>0, <1>1 DEF FreshBatches, StartTypeOK
<1>2. CASE n # 0
  <2>1. new \in Batches /\ new.lo = started + 1 /\ new.hi = started + n
    BY <1>0, <1>2 DEF Batches, Machine
  <2> HIDE DEF new
  <2>2. starting' = S \cup {new} /\ S \subseteq Batches
    BY <1>2, Zenon DEF new, StartTypeOK
  <2>3. \A b \in S : b.lo \in Nat /\ b.hi \in Nat /\ b.lo <= b.hi /\ b.hi <= started
    BY <2>2 DEF FreshBatches, Batches, Machine
  <2>4. \A m \in new.lo..new.hi : m \in Machine /\ m > started
    BY <1>0, <2>1 DEF Machine
  <2>5. \A b \in S : \A m \in b.lo..b.hi : m \notin new.lo..new.hi
    BY <1>0, <2>3, <2>4 DEF Machine
  <2>6. \A b \in starting' : /\ b.lo <= b.hi /\ b.hi <= started'
                             /\ \A m \in b.lo..b.hi : h[m] = "none"
    BY <1>0, <1>2, <2>1, <2>2, <2>3, <2>4 DEF FreshBatches
  <2>7. \A b, c \in starting' : b # c => \A m \in b.lo..b.hi : m \notin c.lo..c.hi
    BY <2>2, <2>5, Zenon DEF FreshBatches
  <2>8. \A m \in Machine : m > started' => h[m] = "none"
    BY <1>0 DEF FreshBatches, Machine
  <2> QED
    BY <2>1, <2>2, <2>6, <2>7, <2>8, Zenon DEF FreshBatches
<1> QED
  BY <1>1, <1>2, Zenon

LEMMA PendingStep ==
    ASSUME StartTypeOK, NEW S \in SUBSET starting, NEW h, FreshBatches(S, started, h),
           NEW n \in Nat, started + n <= MaxMachines,
           starting' = IF n = 0 THEN S
                       ELSE S \cup {[lo |-> started + 1, hi |-> started + n]}
    PROVE  Cardinality(Booting(starting')) = Cardinality(Booting(S)) + n
<1> DEFINE N == (started + 1)..(started + n)
           B == Booting(S)
<1>0. started \in Nat /\ MaxMachines \in Nat
  BY ManagerAssumption DEF StartTypeOK
<1>1. \A b \in S : b.lo \in Nat /\ b.hi \in Nat /\ b.hi <= started
  BY DEF FreshBatches, StartTypeOK, Batches, Machine
<1>2. B \in SUBSET Machine /\ \A m \in B : m <= started
  BY <1>0, <1>1 DEF Booting, Machine
<1>3. N \in SUBSET Machine
  BY <1>0 DEF Machine
<1>4. Booting(starting') = B \cup N
  <2>1. CASE n = 0
    <3>1. N = {}
      BY <1>0, <2>1
    <3> QED
      BY <3>1, <2>1, Zenon
  <2>2. CASE n # 0
    <3> DEFINE new == [lo |-> started + 1, hi |-> started + n]
    <3>1. starting' = S \cup {new} /\ new.lo..new.hi = N
      BY <2>2, Zenon
    <3> HIDE DEF new, N
    <3>2. Booting(starting') = {m \in Machine : (\E b \in S : m \in b.lo..b.hi) \/ m \in N}
      BY <3>1, Zenon DEF Booting
    <3> QED
      BY <3>2, <1>3, Zenon DEF Booting
  <2> QED
    BY <2>1, <2>2, Zenon
<1>5. B \cap N = {}
  BY <1>0, <1>2 DEF Machine
<1>6. Cardinality(N) = n
  BY <1>0, FS_Interval
<1>7. IsFiniteSet(B) /\ IsFiniteSet(N) /\ Cardinality(B) \in Nat
  BY <1>2, <1>3, MachineFinite, Zenon
<1> HIDE DEF B, N
<1>8. Cardinality(B \cup N) = Cardinality(B) + Cardinality(N) - Cardinality(B \cap N)
  BY <1>7, FS_Union, Zenon
<1>9. Cardinality(B \cap N) = 0
  BY <1>5, FS_EmptySet, Zenon
<1>10. Cardinality(B \cup N) = Cardinality(B) + n
  BY <1>6, <1>7, <1>8, <1>9
<1> QED
  BY <1>4, <1>10, Zenon DEF B
\* An iteration keeps the start accounting and the timer right if the pool is.
LEMMA IterateStep ==
    ASSUME StartTypeOK, NEW S \in SUBSET starting, NEW p \in Int, NEW t \in Timers,
           PoolOK(machines', probation', health', index'), FailureTypeOK', need' \in Int,
           FreshBatches(S, started, health'), p = machprocs * Cardinality(Booting(S)),
           Iterate(p, S, t)
    PROVE  /\ StartTypeOK' /\ FreshBatches(starting', started', health') /\ PendingAccounted'
           /\ probationTimer' \in Timers /\ TimerForOldest'
<1>1. Len(machines') \in Nat /\ Cardinality(probation') \in Nat /\ started \in Nat
  <2>1. probation' \in SUBSET Machine /\ machines' \in Seq(Machine)
    BY Zenon DEF PoolOK
  <2> QED
    BY <2>1, MachineFinite DEF StartTypeOK
<1>2. PICK n \in Nat :
          /\ started + n <= MaxMachines
          /\ started' = started + n
          /\ pending' = p + n * machprocs
          /\ starting' = IF n = 0 THEN S
                         ELSE S \cup {[lo |-> started + 1, hi |-> started + n]}
  <2>1. StartMachines(p, S)
    BY Zenon DEF Iterate
  <2> QED
    BY <1>1, <2>1, Batch, Zenon
<1>3. FreshBatches(starting', started', health') /\ starting' \in SUBSET Batches
  BY <1>2, BatchesStep, Zenon
<1>4. Cardinality(Booting(starting')) = Cardinality(Booting(S)) + n
  BY <1>2, PendingStep, Zenon
<1>5. Cardinality(Booting(S)) \in Nat
  <2>1. Booting(S) \in SUBSET Machine
    BY Zenon DEF Booting
  <2> QED
    BY <2>1, MachineFinite, Zenon
<1>6. pending' = machprocs * Cardinality(Booting(starting'))
  <2> DEFINE c == Cardinality(Booting(S))
             d == Cardinality(Booting(starting'))
  <2>1. c \in Nat /\ d = c + n /\ p = machprocs * c /\ pending' = p + n * machprocs
    BY <1>2, <1>4, <1>5, Zenon
  <2> HIDE DEF c, d
  <2>2. pending' = machprocs * d
    BY <2>1, Params
  <2> QED
    BY <2>2, Zenon DEF d
<1>7. StartTypeOK'
  <2>1. started' \in 0..MaxMachines
    BY <1>1, <1>2, ManagerAssumption
  <2>2. pending' \in Int
    BY <1>2, Params
  <2> QED
    BY <2>1, <2>2, <1>3, Zenon DEF StartTypeOK
<1>8. probationTimer' \in Timers /\ TimerForOldest'
  <2>1. probation' \in SUBSET Machine /\ lastFailure' \in [Machine -> Nat]
    BY Zenon DEF PoolOK, FailureTypeOK
  <2>2. probationTimer' = SetTimer(t, probation', lastFailure')
    BY Zenon DEF Iterate
  <2> QED
    BY <2>1, <2>2, TimerStep, Zenon DEF TimerForOldest
<1> QED
  BY <1>3, <1>6, <1>7, <1>8, Zenon DEF PendingAccounted

\* The same for the cases of the select that report no batch.
LEMMA ContinueStep ==
    ASSUME ManagerInv, NEW t \in Timers,
           ClientTypeOK', PoolOK(machines', probation', health', index'), FailureTypeOK',
           \A m \in Machine : health[m] = "none" => health'[m] = "none",
           Iterate(pending, starting, t)
    PROVE  ManagerInv'
<1>1. /\ StartTypeOK /\ pending \in Int /\ FreshBatches(starting, started, health)
      /\ pending = machprocs * Cardinality(Booting(starting))
  BY Zenon DEF ManagerInv, StartTypeOK, PendingAccounted
<1>2. need' \in Int
  BY Zenon DEF ClientTypeOK
<1>3. FreshBatches(starting, started, health')
  <2>1. \A b \in starting : \A m \in b.lo..b.hi : m \in Machine
    BY <1>1, ManagerAssumption DEF StartTypeOK, Batches, Machine
  <2> QED
    BY <1>1, <2>1, Zenon DEF FreshBatches
<1>4. /\ StartTypeOK' /\ FreshBatches(starting', started', health') /\ PendingAccounted'
      /\ probationTimer' \in Timers /\ TimerForOldest'
  BY <1>1, <1>2, <1>3, IterateStep, Zenon
<1> QED
  BY <1>4, Zenon DEF ManagerInv

-----------------------------------------------------------------------------
(* The cases of the select.                                                *)

LEMMA OfferStep == ASSUME ManagerInv, NEW r \in Request, Offer(r) PROVE ManagerInv'
<1>1. ClientTypeOK'
  BY Params DEF ManagerInv, ClientTypeOK, Offer, ReqStates
<1>2. PoolOK(machines', probation', health', index') /\ FailureTypeOK'
  BY Zenon DEF ManagerInv, Offer, poolVars, FailureTypeOK
<1> QED
  BY <1>1, <1>2, ContinueStep, Zenon DEF Offer, Continue, poolVars, ManagerInv

LEMMA DeliverStep ==
    ASSUME ManagerInv, NEW r \in Request, NEW m \in Machine, Deliver(r, m)
    PROVE  ManagerInv'
<1>1. ClientTypeOK'
  BY Params DEF ManagerInv, ClientTypeOK, Deliver, ReqStates
<1>2. PoolOK(machines', probation', health', index') /\ FailureTypeOK'
  BY Zenon DEF ManagerInv, Deliver, poolVars, FailureTypeOK
<1> QED
  BY <1>1, <1>2, ContinueStep, Zenon DEF Deliver, Continue, poolVars, ManagerInv

LEMMA CancelStep ==
    ASSUME ManagerInv, NEW r \in Request, NEW first \in Request, Cancel(r, first)
    PROVE  ManagerInv'
<1>1. ClientTypeOK'
  BY Params DEF ManagerInv, ClientTypeOK, Cancel, ReqStates
<1>2. PoolOK(machines', probation', health', index') /\ FailureTypeOK'
  BY Zenon DEF ManagerInv, Cancel, poolVars, FailureTypeOK
<1> QED
  BY <1>1, <1>2, ContinueStep, Zenon DEF Cancel, Continue, poolVars, ManagerInv
\* What the health of a machine m becomes, and where m goes.
LEMMA Unlists ==
    ASSUME PoolOK(machines, probation, health, index), NEW m \in Machine, health[m] = "ok",
           machines' = removeMachine(machines, index[m])
    PROVE  /\ machines' \in Seq(Machine) /\ Once(machines')
           /\ Listed(machines') = Listed(machines) \ {m}
           /\ Removed(m) \in [Machine -> Int] /\ InPlace(machines', Removed(m))
<1>1. /\ machines \in Seq(Machine) /\ Once(machines) /\ m \in Listed(machines)
      /\ index \in [Machine -> Int] /\ InPlace(machines, index)
  BY Zenon DEF PoolOK
<1>2. PICK k \in DOMAIN machines : machines[k] = m
  BY <1>1, Zenon DEF Listed
<1>3. index[m] = k - 1
  BY <1>1, <1>2, Zenon DEF InPlace
<1>4. /\ machines' \in Seq(Machine) /\ Once(machines')
      /\ Listed(machines') = Listed(machines) \ {m}
  <2>1. machines' = removeMachine(machines, k - 1)
    BY <1>3, Zenon
  <2> QED BY <1>1, <1>2, <2>1, RemoveFromList, Zenon
<1>5. Removed(m) \in [Machine -> Int] /\ InPlace(machines', Removed(m))
  BY <1>1, <1>2, RemoveInPlace, Zenon
<1> QED BY <1>4, <1>5, Zenon

LEMMA RemovesOne ==
    ASSUME PoolOK(machines, probation, health, index), NEW m \in probation
    PROVE  Others(m) = probation \ {m}
BY Zenon DEF Others, PoolOK, Apart

LEMMA ToProbation ==
    ASSUME PoolOK(machines, probation, health, index), NEW m \in Machine, health[m] = "ok",
           health' = [health EXCEPT ![m] = "probation"],
           machines' = removeMachine(machines, index[m]), probation' = probation \cup {m},
           Reindex(Removed(m))
    PROVE  /\ PoolOK(machines', probation', health', index')
           /\ \A n \in Machine : health[n] = "none" => health'[n] = "none"
<1>1. /\ machines' \in Seq(Machine) /\ Once(machines')
      /\ Listed(machines') = Listed(machines) \ {m}
      /\ Removed(m) \in [Machine -> Int] /\ InPlace(machines', Removed(m))
  BY Unlists, Zenon
<1>2. probation' \in SUBSET Machine
  BY Zenon DEF PoolOK
<1>3. /\ index' \in [Machine -> Int] /\ Apart(probation', index')
      /\ \A n \in Machine : n \notin probation' => index'[n] = Removed(m)[n]
  BY <1>1, <1>2, ReindexStep, Zenon
<1>4. \A i \in DOMAIN machines' : machines'[i] \in Machine /\ machines'[i] \notin probation'
  BY <1>1, Zenon DEF Listed, PoolOK
<1>5. InPlace(machines', index')
  BY <1>1, <1>3, <1>4, Zenon DEF InPlace
<1> QED
  BY <1>1, <1>3, <1>5, Zenon DEF PoolOK, Healths

LEMMA ToOk ==
    ASSUME PoolOK(machines, probation, health, index), NEW m \in Machine,
           health[m] = "probation", health' = [health EXCEPT ![m] = "ok"],
           machines' = Append(machines, m), probation' = probation \ {m},
           Reindex([index EXCEPT ![m] = Len(machines)])
    PROVE  /\ PoolOK(machines', probation', health', index')
           /\ \A n \in Machine : health[n] = "none" => health'[n] = "none"
<1>1. machines \in Seq(Machine) /\ Once(machines) /\ m \notin Listed(machines)
  BY Zenon DEF PoolOK
<1>2. /\ machines' \in Seq(Machine) /\ Once(machines')
      /\ Listed(machines') = Listed(machines) \cup {m}
  BY <1>1, AppendToList, Zenon
<1> PICK ix : ix = [index EXCEPT ![m] = Len(machines)]
  BY Zenon
<1>3. ix \in [Machine -> Int] /\ probation' \in SUBSET Machine
  BY <1>1 DEF PoolOK
<1>4. /\ index' \in [Machine -> Int] /\ Apart(probation', index')
      /\ \A n \in Machine : n \notin probation' => index'[n] = ix[n]
  BY <1>3, ReindexStep, Zenon
<1>5. \A i \in DOMAIN machines' : machines'[i] \in Machine /\ machines'[i] \notin probation'
  BY <1>2, Zenon DEF Listed, PoolOK
<1>6. \A i \in DOMAIN machines' : ix[machines'[i]] = i - 1
  <2>1. \A i \in DOMAIN machines : machines[i] # m /\ index[machines[i]] = i - 1
    BY <1>1, Zenon DEF Listed, PoolOK, InPlace
  <2> QED BY <1>1, <2>1 DEF PoolOK
<1>7. InPlace(machines', index')
  BY <1>4, <1>5, <1>6, Zenon DEF InPlace
<1> QED
  BY <1>2, <1>4, <1>7, Zenon DEF PoolOK, Healths

LEMMA ToLost ==
    ASSUME PoolOK(machines, probation, health, index), NEW m \in Machine, Stop(m)
    PROVE  /\ PoolOK(machines', probation', health', index')
           /\ \A n \in Machine : health[n] = "none" => health'[n] = "none"
<1>0. health' = [health EXCEPT ![m] = "lost"]
  BY Zenon DEF Stop
<1>1. CASE health[m] = "ok"
  <2>1. /\ machines' = removeMachine(machines, index[m]) /\ index' = Removed(m)
        /\ UNCHANGED probation
    BY <1>1, Zenon DEF Stop
  <2>2. /\ machines' \in Seq(Machine) /\ Once(machines')
        /\ Listed(machines') = Listed(machines) \ {m}
        /\ index' \in [Machine -> Int] /\ InPlace(machines', index')
    BY <1>1, <2>1, Unlists, Zenon
  <2>3. \A n \in probation : n \in Machine /\ n # m /\ n \notin Listed(machines)
    BY <1>1, Zenon DEF PoolOK
  <2>4. \A n \in probation : index'[n] = index[n]
    <3>1. machines \in Seq(Machine) /\ \E i \in DOMAIN machines : machines[i] = m
      BY <1>1, Zenon DEF PoolOK, Listed
    <3>2. machines[Len(machines)] \in Listed(machines)
      <4>1. Len(machines) \in DOMAIN machines
        BY <3>1
      <4> QED BY <4>1, Zenon DEF Listed
    <3>3. \A n \in probation : n # machines[Len(machines)]
      BY <2>3, <3>2, Zenon
    <3>4. DOMAIN index = Machine
      BY Zenon DEF PoolOK
    <3> QED BY <2>1, <2>3, <3>3, <3>4, Zenon DEF Removed
  <2>5. Apart(probation', index')
    BY <2>1, <2>4, Zenon DEF Apart, PoolOK
  <2> QED
    BY <1>0, <1>1, <2>1, <2>2, <2>5, Zenon DEF PoolOK, Healths
<1>2. CASE health[m] = "probation"
  <2>1. /\ probation' = Others(m) /\ UNCHANGED machines
        /\ Reindex([index EXCEPT ![m] = -1])
    BY <1>2, Zenon DEF Stop
  <2>2. m \in probation /\ probation' = probation \ {m} /\ m \notin Listed(machines)
    BY <1>2, <2>1, RemovesOne, Zenon DEF PoolOK
  <2> PICK ix : ix = [index EXCEPT ![m] = -1]
    BY Zenon
  <2>3. ix \in [Machine -> Int] /\ probation' \in SUBSET Machine
    BY <2>2 DEF PoolOK
  <2>4. /\ index' \in [Machine -> Int] /\ Apart(probation', index')
        /\ \A n \in Machine : n \notin probation' => index'[n] = ix[n]
    BY <2>1, <2>3, ReindexStep, Zenon
  <2>5. \A i \in DOMAIN machines :
          machines[i] \in Machine /\ machines[i] # m /\ machines[i] \notin probation'
    BY <2>2, Zenon DEF Listed, PoolOK
  <2>6. \A n \in Machine : n # m => ix[n] = index[n]
    BY Zenon DEF PoolOK
  <2>7. InPlace(machines', index')
    BY <2>1, <2>4, <2>5, <2>6, Zenon DEF InPlace, PoolOK
  <2> QED
    BY <1>0, <1>2, <2>1, <2>2, <2>4, <2>7, Zenon DEF PoolOK, Healths
<1> QED
  BY <1>1, <1>2, Zenon DEF Stop

LEMMA DonePool ==
    ASSUME PoolOK(machines, probation, health, index), FailureTypeOK, NEW m \in Machine,
           NEW r \in Request, m = on[r], NEW err \in Errors, Done(r, err)
    PROVE  /\ PoolOK(machines', probation', health', index') /\ FailureTypeOK'
           /\ \A n \in Machine : health[n] = "none" => health'[n] = "none"
<1>1. CASE health[m] = "ok" /\ err = "rpc"
  <2>1. /\ health' = [health EXCEPT ![m] = "probation"]
        /\ machines' = removeMachine(machines, index[m]) /\ probation' = probation \cup {m}
        /\ Reindex(Removed(m))
    BY <1>1, Zenon DEF Done
  <2>2. FailureTypeOK'
    BY <1>1 DEF Done, FailureTypeOK
  <2> QED
    BY <1>1, <2>1, <2>2, ToProbation, Zenon
<1>2. CASE health[m] = "probation" /\ err = "nil"
  <2>1. /\ health' = [health EXCEPT ![m] = "ok"]
        /\ machines' = Append(machines, m) /\ probation' = Others(m)
        /\ Reindex([index EXCEPT ![m] = Len(machines)])
    BY <1>2, Zenon DEF Done
  <2>3. probation' = probation \ {m}
    BY <1>2, <2>1, RemovesOne, Zenon DEF PoolOK
  <2>2. FailureTypeOK'
    BY <1>2, Zenon DEF Done, FailureTypeOK
  <2> QED
    BY <1>2, <2>1, <2>2, <2>3, ToOk, Zenon
<1>3. CASE health[m] = "probation" /\ err # "nil"
  <2>1. UNCHANGED <<health, machines, probation>> /\ Reindex(index)
    BY <1>3, Zenon DEF Done
  <2>2. FailureTypeOK'
    BY <1>3 DEF Done, FailureTypeOK
  <2>3. /\ index' \in [Machine -> Int] /\ Apart(probation', index')
        /\ \A n \in Machine : n \notin probation => index'[n] = index[n]
    BY <2>1, ReindexStep, Zenon DEF PoolOK
  <2>4. \A i \in DOMAIN machines : machines[i] \in Machine /\ machines[i] \notin probation
    BY Zenon DEF Listed, PoolOK
  <2>5. InPlace(machines', index')
    BY <2>1, <2>3, <2>4, Zenon DEF InPlace, PoolOK
  <2> QED
    BY <2>1, <2>2, <2>3, <2>5, Zenon DEF PoolOK
<1>4. CASE health[m] = "lost" \/ (health[m] = "ok" /\ err # "rpc")
  BY <1>4, Zenon DEF Done, poolVars, FailureTypeOK
<1> QED
  BY <1>1, <1>2, <1>3, <1>4, Zenon DEF Done

LEMMA DoneStep ==
    ASSUME ManagerInv, NEW r \in Request, NEW err \in Errors, Done(r, err)
    PROVE  ManagerInv'
<1>1. on[r] \in Machine
  BY Zenon DEF ManagerInv, ClientTypeOK, Done
<1>2. ClientTypeOK'
  <2>1. need' \in Int /\ taskProcs' \in [Machine -> Int]
    BY <1>1, Params DEF ManagerInv, ClientTypeOK, Done, ReturnNeed
  <2> QED
    BY <2>1, Zenon DEF ManagerInv, ClientTypeOK, Done, ReqStates
<1>3. /\ PoolOK(machines', probation', health', index') /\ FailureTypeOK'
      /\ \A n \in Machine : health[n] = "none" => health'[n] = "none"
  BY <1>1, DonePool, Zenon DEF ManagerInv
<1> QED
  BY <1>2, <1>3, ContinueStep, Zenon DEF Done, Continue, ManagerInv

LEMMA StopStep == ASSUME ManagerInv, NEW m \in Machine, Stop(m) PROVE ManagerInv'
<1>1. ClientTypeOK'
  BY ManagerAssumption DEF ManagerInv, ClientTypeOK, Stop, clientVars
<1>2. FailureTypeOK'
  BY Zenon DEF ManagerInv, FailureTypeOK, Stop
<1>3. /\ PoolOK(machines', probation', health', index')
      /\ \A n \in Machine : health[n] = "none" => health'[n] = "none"
  BY ToLost, Zenon DEF ManagerInv
<1> QED
  BY <1>1, <1>2, <1>3, ContinueStep, Zenon DEF Stop, Continue, ManagerInv

LEMMA TimeoutStep == ASSUME ManagerInv, ProbationTimeout PROVE ManagerInv'
<1> DEFINE m == Oldest(probation, lastFailure)
<1>1. ClientTypeOK' /\ FailureTypeOK' /\ Clear \in Timers
  BY Zenon
     DEF ManagerInv, ClientTypeOK, FailureTypeOK, ProbationTimeout, clientVars, Clear, Timers
<1>2. m \in probation
  <2>1. /\ probation # {} /\ probation \in SUBSET Machine
        /\ lastFailure \in [Machine -> Nat]
    BY Zenon DEF ManagerInv, TimerForOldest, ProbationTimeout, PoolOK, FailureTypeOK
  <2> QED
    BY <2>1, OldestIsThere, Zenon
<1>3. /\ health' = [health EXCEPT ![m] = "ok"]
      /\ machines' = Append(machines, m) /\ probation' = probation \ {m}
      /\ Reindex([index EXCEPT ![m] = Len(machines)])
  BY Zenon DEF ProbationTimeout
<1> HIDE DEF m
<1>4. m \in Machine /\ health[m] = "probation" /\ PoolOK(machines, probation, health, index)
  BY <1>2, Zenon DEF ManagerInv, PoolOK
<1>5. /\ PoolOK(machines', probation', health', index')
      /\ \A n \in Machine : health[n] = "none" => health'[n] = "none"
  BY <1>3, <1>4, ToOk, Zenon
<1> QED
  BY <1>1, <1>5, ContinueStep, Zenon DEF ProbationTimeout

-----------------------------------------------------------------------------
(* A batch that has started.                                               *)

\* Its machines are the ones that pending stops counting.
LEMMA BatchCount ==
    ASSUME StartTypeOK, FreshBatches(starting, started, health), NEW b \in starting
    PROVE  Cardinality(Booting(starting)) =
               Cardinality(Booting(starting \ {b})) + (b.hi - b.lo + 1)
<1> DEFINE B == Booting(starting \ {b})
           N == b.lo..b.hi
<1>1. b.lo \in Nat /\ b.hi \in Nat /\ b.lo <= b.hi /\ N \in SUBSET Machine
  BY ManagerAssumption DEF StartTypeOK, FreshBatches, Batches, Machine
<1>2. B \in SUBSET Machine
  BY Zenon DEF Booting
<1> HIDE DEF N
<1>3. Booting(starting) = B \cup N
  <2>1. Booting(starting)
            = {m \in Machine : (\E c \in starting \ {b} : m \in c.lo..c.hi) \/ m \in N}
    BY Zenon DEF Booting, N
  <2> QED
    BY <2>1, <1>1, Zenon DEF Booting
<1>4. B \cap N = {}
  BY Zenon DEF Booting, FreshBatches, N
<1>5. Cardinality(N) = b.hi - b.lo + 1
  <2>1. \A x, y \in Nat : x <= y => Cardinality(x..y) = y - x + 1
    BY FS_Interval
  <2> QED
    BY <1>1, <2>1, Zenon DEF N
<1>6. IsFiniteSet(B) /\ IsFiniteSet(N) /\ Cardinality(B) \in Nat
  BY <1>1, <1>2, MachineFinite, Zenon
<1> HIDE DEF B
<1>7. Cardinality(B \cup N) = Cardinality(B) + Cardinality(N) - Cardinality(B \cap N)
  BY <1>6, FS_Union, Zenon
<1>8. Cardinality(B \cap N) = 0
  BY <1>4, FS_EmptySet, Zenon
<1>9. Cardinality(B \cup N) = Cardinality(B) + (b.hi - b.lo + 1)
  BY <1>1, <1>5, <1>6, <1>7, <1>8
<1> QED
  BY <1>3, <1>9, Zenon DEF B
LEMMA StartPool ==
    ASSUME PoolOK(machines, probation, health, index), StartTypeOK,
           FreshBatches(starting, started, health), NEW b \in starting,
           NEW k \in Nat, StartResult(b, k)
    PROVE  /\ PoolOK(machines', probation', health', index')
           /\ FreshBatches(starting \ {b}, started, health')
<1> DEFINE booted == b.lo..(b.lo + k - 1)
<1>1. /\ b.lo \in Nat /\ b.hi \in Nat /\ b.hi <= started /\ started \in Nat
      /\ b.lo..b.hi \subseteq Machine
  BY ManagerAssumption DEF StartTypeOK, FreshBatches, Batches, Machine
<1>2. /\ booted \subseteq b.lo..b.hi
      /\ health' = [m \in Machine |-> IF m \in booted THEN "ok" ELSE health[m]]
      /\ machines' = machines \o [i \in 1..k |-> b.lo + i - 1] /\ probation' = probation
  BY Zenon DEF StartResult
<1>3. \A m \in booted : m \in Machine /\ health[m] = "none" /\ m <= started
  BY <1>1, <1>2 DEF FreshBatches
<1>4. /\ machines \in Seq(Machine) /\ Once(machines) /\ booted \subseteq Machine
      /\ \A m \in booted : m \notin Listed(machines)
  BY <1>3, Zenon DEF PoolOK
<1>5. /\ machines' \in Seq(Machine) /\ Once(machines')
      /\ Listed(machines') = Listed(machines) \cup booted
  BY <1>1, <1>2, <1>4, BatchToList, Zenon
<1>10. index' \in [Machine -> Int] /\ InPlace(machines', index') /\ Apart(probation', index')
  <2>1. index' = [m \in Machine |-> IF m \in booted THEN Len(machines) + m - b.lo ELSE index[m]]
    BY Zenon DEF StartResult
  <2>2. /\ index \in [Machine -> Int] /\ Apart(probation, index) /\ InPlace(machines, index)
        /\ Len(machines) \in Nat
    BY <1>4 DEF PoolOK
  <2>3. \A m \in booted : m \in Int /\ m \notin probation
    <3>1. \A m \in Machine : m \in Int
      BY DEF Machine
    <3> QED BY <1>3, <3>1, Zenon DEF PoolOK
  <2>4. index' \in [Machine -> Int]
    BY <1>1, <2>1, <2>2, <2>3
  <2>5. \A m \in Machine : m \notin booted => index'[m] = index[m]
    BY <2>1, Zenon
  <2>6. Apart(probation', index')
    BY <1>2, <2>2, <2>3, <2>5, Zenon DEF Apart, PoolOK
  <2>7. ASSUME NEW i \in DOMAIN machines' PROVE index'[machines'[i]] = i - 1
    <3>1. CASE i \in DOMAIN machines
      <4>1. machines'[i] = machines[i] /\ machines[i] \in Listed(machines)
        BY <1>2, <1>4, <3>1 DEF Listed
      <4>2. machines[i] \in Machine /\ machines[i] \notin booted
        BY <1>4, <3>1, <4>1
      <4> QED BY <2>2, <2>5, <3>1, <4>1, <4>2, Zenon DEF InPlace
    <3>2. CASE i \notin DOMAIN machines
      <4>1. machines'[i] = b.lo + (i - Len(machines)) - 1 /\ machines'[i] \in booted
        <5> PICK n, bs : n = Len(machines) /\ bs = [x \in 1..k |-> b.lo + x - 1]
          BY Zenon
        <5>1. bs \in Seq(Nat) /\ Len(bs) = k
          BY <1>1
        <5>2. i \in (n + 1)..(n + k) /\ machines'[i] = bs[i - n]
          BY <1>2, <1>4, <3>2, <5>1
        <5>3. i - n \in 1..k
          BY <1>4, <5>2
        <5>4. bs[i - n] = b.lo + (i - n) - 1
          BY <5>3, Zenon
        <5>5. machines'[i] = b.lo + (i - n) - 1
          BY <5>2, <5>4, Zenon
        <5>6. \A d \in 1..k : b.lo + d - 1 \in booted
          BY <1>1
        <5> QED BY <5>3, <5>5, <5>6, Zenon
      <4>2. index'[machines'[i]] = Len(machines) + machines'[i] - b.lo
        BY <1>4, <2>1, <4>1, Zenon
      <4>3. i \in Nat
        BY <1>5
      <4> QED BY <1>1, <2>2, <4>1, <4>2, <4>3
    <3> QED BY <3>1, <3>2, Zenon
  <2> QED BY <2>4, <2>6, <2>7, Zenon DEF InPlace
<1> HIDE DEF booted
<1>6. PoolOK(machines', probation', health', index')
  BY <1>2, <1>3, <1>5, <1>10, Zenon DEF PoolOK, Healths
<1>7. \A m \in Machine : m \notin booted => health'[m] = health[m]
  BY <1>2, Zenon
<1>8. \A c \in starting \ {b} : \A m \in c.lo..c.hi : m \in Machine /\ m \notin booted
  <2>1. \A c \in starting : \A m \in c.lo..c.hi : m \in Machine
    BY ManagerAssumption DEF StartTypeOK, Batches, Machine
  <2> QED
    BY <1>2, <2>1, Zenon DEF FreshBatches
<1>9. \A m \in Machine : m > started => m \notin booted
  BY <1>1, <1>3 DEF Machine
<1> QED
  BY <1>6, <1>7, <1>8, <1>9, Zenon DEF FreshBatches

LEMMA StartResultStep ==
    ASSUME ManagerInv, NEW b \in starting, NEW k \in 0..(b.hi - b.lo + 1), StartResult(b, k)
    PROVE  ManagerInv'
<1>1. /\ StartTypeOK /\ PoolOK(machines, probation, health, index) /\ FailureTypeOK
      /\ FreshBatches(starting, started, health) /\ probationTimer \in Timers
      /\ pending = machprocs * Cardinality(Booting(starting))
  BY Zenon DEF ManagerInv, PendingAccounted
<1>2. b.lo \in Nat /\ b.hi \in Nat /\ k \in Nat /\ b.hi - b.lo + 1 >= k
  BY <1>1 DEF StartTypeOK, Batches, Machine
<1>3. ClientTypeOK'
  <2>1. failures' \in 0..MaxFailures
    BY <1>2, ManagerAssumption DEF ManagerInv, ClientTypeOK, StartResult
  <2> QED
    BY <2>1, Zenon DEF ManagerInv, ClientTypeOK, StartResult, clientVars
<1>4. FailureTypeOK'
  BY <1>1, Zenon DEF FailureTypeOK, StartResult
<1>5. PoolOK(machines', probation', health', index') /\ FreshBatches(starting \ {b}, started, health')
  BY <1>1, <1>2, StartPool, Zenon
<1> DEFINE p == Booted(b, k)
           S == starting \ {b}
<1>6. p = machprocs * Cardinality(Booting(S)) /\ p \in Int
  <2> DEFINE c == Cardinality(Booting(S))
             n == b.hi - b.lo + 1
  <2>1. Cardinality(Booting(starting)) = c + n
    BY <1>1, BatchCount, Zenon
  <2>2. c \in Nat
    <3>1. Booting(S) \in SUBSET Machine
      BY Zenon DEF Booting
    <3> QED
      BY <3>1, MachineFinite, Zenon
  <2>3. n \in Int /\ p = pending - machprocs * n
    BY <1>2 DEF Booted
  <2> HIDE DEF c, n, p
  <2>4. p = machprocs * c /\ p \in Int
    BY <1>1, <2>1, <2>2, <2>3, Params
  <2> QED
    BY <2>4, Zenon DEF c
<1>7. Iterate(p, S, probationTimer) /\ need' \in Int
  BY <1>3, Zenon DEF StartResult, ClientTypeOK
<1> HIDE DEF p
<1>8. /\ StartTypeOK' /\ FreshBatches(starting', started', health') /\ PendingAccounted'
      /\ probationTimer' \in Timers /\ TimerForOldest'
  BY <1>1, <1>4, <1>5, <1>6, <1>7, IterateStep, Zenon
<1> QED
  BY <1>3, <1>4, <1>5, <1>8, Zenon DEF ManagerInv

-----------------------------------------------------------------------------

\* The steps that are no iteration of the loop.
LEMMA OutsideStep ==
    ASSUME ManagerInv,
           TimerExpires \/ (\E r \in Request : Leak(r)) \/ Idle \/ UNCHANGED vars
    PROVE  ManagerInv'
<1>1. CASE TimerExpires
  <2>1. UNCHANGED <<clientVars, schedQ, need, startVars, poolVars, taskProcs, failures>>
    BY <1>1, Zenon DEF TimerExpires
  <2>2. /\ probationTimer' \in Timers /\ probationTimer.state # "clear"
        /\ probationTimer'.state # "clear" /\ probationTimer'.at = probationTimer.at
    BY <1>1, Zenon DEF TimerExpires, ManagerInv, Timers
  <2>3. TimerForOldest'
    BY <2>1, <2>2, Zenon DEF ManagerInv, TimerForOldest, poolVars
  <2>4. ClientTypeOK' /\ FailureTypeOK' /\ StartTypeOK'
    BY <2>1, Zenon
       DEF ManagerInv, ClientTypeOK, FailureTypeOK, StartTypeOK, clientVars, startVars,
                poolVars
  <2> QED
    BY <2>1, <2>2, <2>3, <2>4, Zenon DEF ManagerInv, PendingAccounted, poolVars, startVars
<1>2. ASSUME NEW r \in Request, Leak(r) PROVE ManagerInv'
  <2>1. UNCHANGED <<on, schedQ, need, startVars, poolVars, taskProcs, probationTimer, failures>>
    BY <1>2, Zenon DEF Leak
  <2>2. ClientTypeOK'
    BY <1>2, Zenon DEF Leak, ManagerInv, ClientTypeOK, ReqStates
  <2>3. FailureTypeOK' /\ StartTypeOK' /\ TimerForOldest'
    BY <2>1, Zenon
       DEF ManagerInv, FailureTypeOK, StartTypeOK, startVars, poolVars, TimerForOldest
  <2> QED
    BY <2>1, <2>2, <2>3, Zenon DEF ManagerInv, PendingAccounted, poolVars, startVars
<1>3. CASE UNCHANGED vars
  <2>1. ClientTypeOK' /\ FailureTypeOK' /\ StartTypeOK'
    BY <1>3, Zenon DEF ManagerInv, ClientTypeOK, FailureTypeOK, StartTypeOK, vars, clientVars,
                startVars, poolVars
  <2> QED
    BY <1>3, <2>1, Zenon
       DEF ManagerInv, PendingAccounted, TimerForOldest, vars, poolVars, startVars
<1> QED
  BY <1>1, <1>2, <1>3, Zenon DEF Idle

LEMMA InitStep == Init => ManagerInv
<1> SUFFICES ASSUME Init PROVE ManagerInv
  BY Zenon
<1>1. ClientTypeOK /\ FailureTypeOK /\ StartTypeOK
  BY ManagerAssumption DEF Init, ClientTypeOK, FailureTypeOK, StartTypeOK, ReqStates, NoMachine
<1>2. PoolOK(machines, probation, health, index) /\ FreshBatches(starting, started, health)
  BY DEF Init, PoolOK, FreshBatches, Once, Listed, Healths, InPlace, Apart
<1>3. PendingAccounted
  <2>1. Booting(starting) = {} /\ pending = 0
    BY Zenon DEF Init, Booting
  <2> QED
    BY <2>1, FS_EmptySet, Params DEF PendingAccounted
<1>4. probationTimer \in Timers /\ TimerForOldest
  BY Zenon DEF Init, Timers, Clear, TimerForOldest
<1> QED
  BY <1>1, <1>2, <1>3, <1>4, Zenon DEF ManagerInv

LEMMA NextStep == ManagerInv /\ [Next]_vars => ManagerInv'
<1> SUFFICES ASSUME ManagerInv, [Next]_vars PROVE ManagerInv'
  BY Zenon
<1>1. CASE \E r \in Request : \/ Offer(r) \/ Finish(r)
                              \/ \E m \in Machine : Deliver(r, m)
                              \/ \E first \in Request : Cancel(r, first)
  BY <1>1, OfferStep, DoneStep, DeliverStep, CancelStep, Zenon DEF Finish
<1>2. CASE Boot
  BY <1>2, StartResultStep, Zenon DEF Boot
<1>3. CASE ProbationTimeout \/ \E m \in Machine : Stop(m)
  BY <1>3, TimeoutStep, StopStep, Zenon
<1>4. CASE TimerExpires \/ (\E r \in Request : Leak(r)) \/ Idle \/ UNCHANGED vars
  BY <1>4, OutsideStep, Zenon
<1> QED
  BY <1>1, <1>2, <1>3, <1>4, Zenon DEF Next

LEMMA ManagerInvariant == Spec => []ManagerInv
BY InitStep, NextStep, PTL DEF Spec

\* The manager's variables keep their types: in particular, machines are
\* scheduled from a list of machines, whatever is appended and removed.
THEOREM ManagerTypeCorrect == Spec => []TypeOK
BY ManagerInvariant, InvImplies, PTL

\* removeMachine, the probation heap and the health of machines agree, however
\* errors, timeouts and stops interleave.
THEOREM ListsMachines == Spec => []MachinesListed
BY ManagerInvariant, InvImplies, PTL

\* m.pending counts the procs of exactly the machines being started.
THEOREM AccountsPending == Spec => []PendingAccounted
<1>1. ManagerInv => PendingAccounted
  BY Zenon DEF ManagerInv
<1> QED
  BY <1>1, ManagerInvariant, PTL

\* The probation timer runs for the machine that failed first, and only when
\* one is on probation: ProbationTimeout never takes from an empty heap.
THEOREM TimesOldest == Spec => []TimerForOldest
<1>1. ManagerInv => TimerForOldest
  BY Zenon DEF ManagerInv
<1> QED
  BY <1>1, ManagerInvariant, PTL

-----------------------------------------------------------------------------
(* The procs of requests.                                                  *)

\* The procs of finitely many requests are finitely many.
LEMMA ProcsFinite ==
    ASSUME NEW S
    PROVE  IsFiniteSet(ProcsOf(S)) /\ Cardinality(ProcsOf(S)) \in Nat
<1>1. IsFiniteSet(1..machprocs)
  BY Params, FS_Interval
<1>2. IsFiniteSet(Request \X (1..machprocs))
  BY <1>1, ManagerAssumption, FS_Product, Zenon
<1>3. ProcsOf(S) \subseteq Request \X (1..machprocs)
  BY Zenon DEF ProcsOf
<1>4. IsFiniteSet(ProcsOf(S))
  BY <1>2, <1>3, FS_Subset, Zenon
<1> QED
  BY <1>4, FS_CardinalityType, Zenon

\* One request more is its procs more.
LEMMA ProcsAdd ==
    ASSUME NEW S \in SUBSET Request, NEW r \in Request, r \notin S
    PROVE  Cardinality(ProcsOf(S \cup {r})) = Cardinality(ProcsOf(S)) + procs(r)
<1> DEFINE N == 1..procs(r)
           P == {r} \X N
<1>1. procs(r) \in Nat /\ procs(r) <= machprocs /\ machprocs \in Nat
  BY Params, ManagerAssumption DEF procs
<1>2. IsFiniteSet(N) /\ Cardinality(N) = procs(r)
  BY <1>1, FS_Interval
<1>3. \A i \in 1..machprocs : i <= procs(r) <=> i \in N
  BY <1>1
<1>4. N \subseteq 1..machprocs
  BY <1>1
<1> HIDE DEF N
<1>5. IsFiniteSet({r}) /\ Cardinality({r}) = 1
  BY FS_Singleton, Zenon
<1>6. IsFiniteSet(P) /\ Cardinality(P) = procs(r)
  <2>1. IsFiniteSet(P) /\ Cardinality(P) = Cardinality({r}) * Cardinality(N)
    BY <1>2, <1>5, FS_Product, Zenon
  <2>2. 1 * procs(r) = procs(r)
    BY <1>1
  <2> QED
    BY <1>2, <1>5, <2>1, <2>2, Zenon
<1>7. ProcsOf(S \cup {r}) = ProcsOf(S) \cup P
  BY <1>3, <1>4, Zenon DEF ProcsOf
<1>8. ProcsOf(S) \cap P = {}
  BY Zenon DEF ProcsOf
<1> HIDE DEF P
<1>9. Cardinality(ProcsOf(S) \cup P)
          = Cardinality(ProcsOf(S)) + Cardinality(P) - Cardinality(ProcsOf(S) \cap P)
  BY <1>6, ProcsFinite, FS_Union, Zenon
<1>10. Cardinality(ProcsOf(S) \cap P) = 0
  BY <1>8, FS_EmptySet, Zenon
<1>11. Cardinality(ProcsOf(S)) \in Nat
  BY ProcsFinite, Zenon
<1>12. Cardinality(ProcsOf(S \cup {r})) = Cardinality(ProcsOf(S)) + procs(r) - 0
  BY <1>6, <1>7, <1>9, <1>10, Zenon
<1>13. \A x \in Nat, y \in Nat : x + y - 0 = x + y
  OBVIOUS
<1> QED
  BY <1>1, <1>11, <1>12, <1>13, Zenon

\* What need counts.
Wanting == With({"waiting", "running", "leaked"})

LEMMA OfferProcs ==
    ASSUME ManagerInv, ProcsAccounted, NeedAccounted, NEW r \in Request, Offer(r)
    PROVE  ProcsAccounted' /\ NeedAccounted'
<1>1. /\ req[r] = "new" /\ req' = [req EXCEPT ![r] = "waiting"]
      /\ need' = need + procs(r) /\ on' = on /\ taskProcs' = taskProcs
  BY Zenon DEF Offer
<1>2. req \in [Request -> ReqStates]
  BY Zenon DEF ManagerInv, ClientTypeOK
<1>3. \A m : RunningOn(m)' = RunningOn(m)
  BY <1>1, <1>2, Zenon DEF RunningOn, With
<1>4. Wanting' = Wanting \cup {r} /\ r \notin Wanting /\ Wanting \in SUBSET Request
  BY <1>1, <1>2, Zenon DEF Wanting, With
<1>5. Cardinality(ProcsOf(Wanting \cup {r})) = Cardinality(ProcsOf(Wanting)) + procs(r)
  BY <1>4, ProcsAdd, Zenon
<1>6. ProcsOf(Wanting)' = ProcsOf(Wanting \cup {r})
  BY <1>4, Zenon DEF ProcsOf
<1>7. NeedAccounted'
  BY <1>1, <1>5, <1>6, Zenon DEF NeedAccounted, Wanting
<1>8. ProcsAccounted'
  BY <1>1, <1>3, Zenon DEF ProcsAccounted, ProcsOf
<1> QED
  BY <1>7, <1>8, Zenon

LEMMA DeliverProcs ==
    ASSUME ManagerInv, ProcsAccounted, NeedAccounted, NEW r \in Request, NEW m \in Machine,
           Deliver(r, m)
    PROVE  ProcsAccounted' /\ NeedAccounted'
<1>1. /\ req[r] = "waiting" /\ req' = [req EXCEPT ![r] = "running"]
      /\ on' = [on EXCEPT ![r] = m] /\ need' = need
      /\ taskProcs' = [taskProcs EXCEPT ![m] = @ + procs(r)]
  BY Zenon DEF Deliver
<1>2. procs(r) <= machprocs - taskProcs[m]
  BY Zenon DEF Deliver, schedule, Fits
<1>3. /\ req \in [Request -> ReqStates] /\ on \in [Request -> Machine \cup {NoMachine}]
      /\ taskProcs \in [Machine -> Int]
  BY Zenon DEF ManagerInv, ClientTypeOK
<1>4. \A n \in Machine : n # m => RunningOn(n)' = RunningOn(n)
  BY <1>1, <1>3, Zenon DEF RunningOn, With
<1>5. /\ RunningOn(m)' = RunningOn(m) \cup {r} /\ r \notin RunningOn(m)
      /\ RunningOn(m) \in SUBSET Request
  BY <1>1, <1>3, Zenon DEF RunningOn, With
<1>6. Cardinality(ProcsOf(RunningOn(m) \cup {r})) = Cardinality(ProcsOf(RunningOn(m))) + procs(r)
  BY <1>5, ProcsAdd, Zenon
<1>7. ProcsOf(RunningOn(m))' = ProcsOf(RunningOn(m) \cup {r})
  BY <1>5, Zenon DEF ProcsOf
<1>8. Wanting' = Wanting
  BY <1>1, <1>3, Zenon DEF Wanting, With
<1>9. NeedAccounted'
  BY <1>1, <1>8, Zenon DEF NeedAccounted, Wanting, ProcsOf
<1>10. taskProcs'[m] = Cardinality(ProcsOf(RunningOn(m))')
  BY <1>1, <1>3, <1>6, <1>7, Zenon DEF ProcsAccounted
<1>11. taskProcs'[m] <= machprocs
  BY <1>1, <1>2, <1>3, Params
<1>12. \A n \in Machine : n # m => taskProcs'[n] = taskProcs[n]
  BY <1>1, <1>3, Zenon
<1>13. ProcsAccounted'
  <2> SUFFICES ASSUME NEW n \in Machine
               PROVE  /\ taskProcs'[n] = Cardinality(ProcsOf(RunningOn(n))')
                      /\ taskProcs'[n] <= machprocs
    BY Zenon DEF ProcsAccounted, ProcsOf
  <2>1. CASE n # m
    <3>1. ProcsOf(RunningOn(n))' = ProcsOf(RunningOn(n))
      BY <2>1, <1>4, Zenon DEF ProcsOf
    <3> QED
      BY <2>1, <3>1, <1>12, Zenon DEF ProcsAccounted
  <2> QED
    BY <2>1, <1>10, <1>11, Zenon
<1> QED
  BY <1>9, <1>13, Zenon

LEMMA CancelProcs ==
    ASSUME ManagerInv, ProcsAccounted, NeedAccounted, NEW r \in Request, NEW first \in Request,
           Cancel(r, first)
    PROVE  ProcsAccounted' /\ NeedAccounted'
<1>1. /\ req[r] = "waiting" /\ req' = [req EXCEPT ![r] = "cancelled"]
      /\ need' = need - procs(r) /\ on' = on /\ taskProcs' = taskProcs
  BY Zenon DEF Cancel
<1>2. req \in [Request -> ReqStates]
  BY Zenon DEF ManagerInv, ClientTypeOK
<1>3. \A m : RunningOn(m)' = RunningOn(m)
  BY <1>1, <1>2, Zenon DEF RunningOn, With
<1>4. Wanting = Wanting' \cup {r} /\ r \notin Wanting' /\ Wanting' \in SUBSET Request
  BY <1>1, <1>2, Zenon DEF Wanting, With
<1>5. Cardinality(ProcsOf(Wanting)) = Cardinality(ProcsOf(Wanting)') + procs(r)
  BY <1>4, ProcsAdd, Zenon DEF ProcsOf
<1>6. need' = Cardinality(ProcsOf(Wanting)')
  <2>1. need = Cardinality(ProcsOf(Wanting))
    BY Zenon DEF NeedAccounted, Wanting
  <2>2. Cardinality(ProcsOf(Wanting)') \in Nat /\ procs(r) \in Nat
    BY ProcsFinite, Params, Zenon DEF ProcsOf
  <2> QED
    BY <1>1, <1>5, <2>1, <2>2
<1>7. NeedAccounted'
  BY <1>6, Zenon DEF NeedAccounted, Wanting
<1>8. ProcsAccounted'
  BY <1>1, <1>3, Zenon DEF ProcsAccounted, ProcsOf
<1> QED
  BY <1>7, <1>8, Zenon

LEMMA DoneProcs ==
    ASSUME ManagerInv, ProcsAccounted, NeedAccounted, NEW r \in Request, NEW err, Done(r, err)
    PROVE  ProcsAccounted' /\ NeedAccounted'
<1>0. PICK m : m = on[r]
  BY Zenon
<1>1. /\ req[r] = "running" /\ req' = [req EXCEPT ![r] = "done"] /\ on' = on
      /\ need' = need - procs(r) /\ taskProcs' = [taskProcs EXCEPT ![m] = @ - procs(r)]
  BY <1>0, Zenon DEF Done, ReturnNeed
<1>2. /\ req \in [Request -> ReqStates] /\ on \in [Request -> Machine \cup {NoMachine}]
      /\ taskProcs \in [Machine -> Int] /\ m \in Machine
  BY <1>0, <1>1, Zenon DEF ManagerInv, ClientTypeOK
<1>3. \A n \in Machine : n # m => RunningOn(n)' = RunningOn(n)
  BY <1>0, <1>1, <1>2, Zenon DEF RunningOn, With
<1>4. /\ RunningOn(m) = RunningOn(m)' \cup {r} /\ r \notin RunningOn(m)'
      /\ RunningOn(m)' \in SUBSET Request
  BY <1>0, <1>1, <1>2, Zenon DEF RunningOn, With
<1>5. Cardinality(ProcsOf(RunningOn(m))) = Cardinality(ProcsOf(RunningOn(m))') + procs(r)
  BY <1>4, ProcsAdd, ZenonT(30) DEF ProcsOf
<1>6. Wanting = Wanting' \cup {r} /\ r \notin Wanting' /\ Wanting' \in SUBSET Request
  BY <1>1, <1>2, Zenon DEF Wanting, With
<1>7. Cardinality(ProcsOf(Wanting)) = Cardinality(ProcsOf(Wanting)') + procs(r)
  BY <1>6, ProcsAdd, Zenon DEF ProcsOf
<1>8. /\ Cardinality(ProcsOf(Wanting)') \in Nat /\ procs(r) \in Nat
      /\ Cardinality(ProcsOf(RunningOn(m))') \in Nat
  BY ProcsFinite, Params, Zenon DEF ProcsOf
<1>9. need' = Cardinality(ProcsOf(Wanting)')
  <2>1. need = Cardinality(ProcsOf(Wanting))
    BY Zenon DEF NeedAccounted, Wanting
  <2> QED
    BY <1>1, <1>7, <1>8, <2>1
<1>10. taskProcs'[m] = Cardinality(ProcsOf(RunningOn(m))') /\ taskProcs'[m] <= machprocs
  <2>1. taskProcs[m] = Cardinality(ProcsOf(RunningOn(m))) /\ taskProcs[m] <= machprocs
    BY <1>2, Zenon DEF ProcsAccounted
  <2>2. taskProcs'[m] = taskProcs[m] - procs(r) /\ machprocs \in Nat
    BY <1>1, <1>2, Params, Zenon
  <2> QED
    BY <1>5, <1>8, <2>1, <2>2
<1>11. \A n \in Machine : n # m => taskProcs'[n] = taskProcs[n]
  BY <1>1, <1>2, Zenon
<1>12. ProcsAccounted'
  <2> SUFFICES ASSUME NEW n \in Machine
               PROVE  /\ taskProcs'[n] = Cardinality(ProcsOf(RunningOn(n))')
                      /\ taskProcs'[n] <= machprocs
    BY Zenon DEF ProcsAccounted, ProcsOf
  <2>1. CASE n # m
    <3>1. ProcsOf(RunningOn(n))' = ProcsOf(RunningOn(n))
      BY <2>1, <1>3, Zenon DEF ProcsOf
    <3> QED
      BY <2>1, <3>1, <1>11, Zenon DEF ProcsAccounted
  <2> QED
    BY <2>1, <1>10, Zenon
<1>13. NeedAccounted'
  BY <1>9, Zenon DEF NeedAccounted, Wanting
<1> QED
  BY <1>12, <1>13, Zenon

LEMMA OtherProcs ==
    ASSUME ManagerInv, ProcsAccounted, NeedAccounted, UNCHANGED <<on, need, taskProcs>>,
           \/ req' = req
           \/ \E r \in Request : req[r] = "running" /\ req' = [req EXCEPT ![r] = "leaked"]
    PROVE  ProcsAccounted' /\ NeedAccounted'
<1>1. req \in [Request -> ReqStates]
  BY Zenon DEF ManagerInv, ClientTypeOK
<1>2. (\A m : RunningOn(m)' = RunningOn(m)) /\ Wanting' = Wanting
  BY <1>1, Zenon DEF RunningOn, With, Wanting
<1> QED
  BY <1>2, Zenon DEF ProcsAccounted, NeedAccounted, ProcsOf, Wanting

LEMMA ProcsNext ==
    ManagerInv /\ ProcsAccounted /\ NeedAccounted /\ [Next]_vars
        => (ProcsAccounted /\ NeedAccounted)'
<1> SUFFICES ASSUME ManagerInv, ProcsAccounted, NeedAccounted, [Next]_vars
             PROVE  ProcsAccounted' /\ NeedAccounted'
  BY Zenon
<1>1. CASE \E r \in Request : \/ Offer(r) \/ Finish(r) \/ \E m \in Machine : Deliver(r, m)
                              \/ \E first \in Request : Cancel(r, first)
  BY <1>1, OfferProcs, DoneProcs, DeliverProcs, CancelProcs, Zenon DEF Finish
<1>2. CASE Boot \/ ProbationTimeout \/ \E m \in Machine : Stop(m)
  <2>1. UNCHANGED <<req, on, need, taskProcs>>
    BY <1>2, Zenon DEF Boot, StartResult, ProbationTimeout, Stop, clientVars
  <2> QED
    BY <2>1, OtherProcs, Zenon
<1>3. CASE TimerExpires \/ Idle \/ UNCHANGED vars
  <2>1. UNCHANGED <<req, on, need, taskProcs>>
    BY <1>3, Zenon DEF TimerExpires, Idle, vars, clientVars
  <2> QED
    BY <2>1, OtherProcs, Zenon
<1>4. CASE \E r \in Request : Leak(r)
  BY <1>4, OtherProcs, Zenon DEF Leak
<1> QED
  BY <1>1, <1>2, <1>3, <1>4, Zenon DEF Next

LEMMA ProcsInvariant == Spec => [](ProcsAccounted /\ NeedAccounted)
<1>1. Init => ProcsAccounted /\ NeedAccounted
  <2> SUFFICES ASSUME Init PROVE ProcsAccounted /\ NeedAccounted
    BY Zenon
  <2>1. (\A m : RunningOn(m) = {}) /\ Wanting = {}
    BY Zenon DEF Init, RunningOn, With, Wanting
  <2>2. Cardinality(ProcsOf({})) = 0
    <3>1. ProcsOf({}) = {}
      BY Zenon DEF ProcsOf
    <3> QED
      BY <3>1, FS_EmptySet, Zenon
  <2>3. \A m \in Machine : taskProcs[m] = 0 /\ taskProcs[m] <= machprocs
    BY Params DEF Init
  <2>4. need = 0
    BY Zenon DEF Init
  <2> QED
    BY <2>1, <2>2, <2>3, <2>4, Zenon DEF ProcsAccounted, NeedAccounted, Wanting
<1> QED
  BY <1>1, ProcsNext, ManagerInvariant, PTL DEF Spec

\* The procs in use on a machine are those of the requests that run there, and
\* never more than it has, whatever fails, is lost or leaks meanwhile.
THEOREM AccountsProcs == Spec => []ProcsAccounted
BY ProcsInvariant, PTL

\* need is the demand of the clients that wait or run, also after some cancel.
THEOREM AccountsNeed == Spec => []NeedAccounted
BY ProcsInvariant, PTL
=============================================================================
