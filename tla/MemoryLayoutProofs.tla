------------------------- MODULE MemoryLayoutProofs -------------------------
(***************************************************************************)
(* Theorems about MemoryLayout, for every amount of memory, every number   *)
(* of cores and logical processors, and every width of a count or a mask.  *)
(***************************************************************************)
EXTENDS MemoryLayout, FiniteSetTheorems, SequenceTheorems, TLAPS

(* How far Initialize has come tells which threads have a slice, and how   *)
(* many are assigned to a core.                                            *)
Sliced ==
  /\ pc \in {"detect", "config", "assert", "contexts", "aborted"} 
       => i = 0 /\ affinity = <<>> /\ DOMAIN slice = {}
  /\ pc \in {"threads", "workers", "create"} => cores > 0 /\ i <= cores
  /\ pc = "threads" => DOMAIN slice = 0 .. i - 1 /\ affinity = <<>>
  /\ pc = "workers" => DOMAIN slice = 0 .. cores - 1 /\ affinity = <<>> /\ i >= 1
  /\ pc = "create" => DOMAIN slice = 0 .. cores - 1 /\ Len(affinity) = i + 1 /\ i <= WorkerCount

(* A bound thread is where Thread_AssignPhysicalCore computes.             *)
BoundAsComputed ==
  \A k \in DOMAIN affinity :
    affinity[k] # Unbound =>
      affinity[k] = LogicalCore(k - 1) % MaskBits /\ affinity[k] < Len(coreOf)

LayoutType ==
  /\ coreOf \in Topologies /\ pageSize \in PageSizes
  /\ cores \in Nat /\ i \in Nat
  /\ pc \in {"detect", "config", "assert", "aborted", "contexts", "threads", "workers", "create"}
  /\ affinity \in Seq(Nat \cup {Unbound})

LayoutInv == LayoutType /\ Sliced /\ BoundAsComputed

(* platform::Initialize counts finitely many cores.                        *)
LEMMA CoreCount ==
  ASSUME NEW t \in Topologies
  PROVE  Cardinality({t[l] : l \in DOMAIN t}) \in Nat
<1>1. t \in Seq(Nat)
  BY MemoryAssumption
<1>2. IsFiniteSet(DOMAIN t)
  BY <1>1, FS_Interval
<1>3. IsFiniteSet({t[l] : l \in DOMAIN t})
  <2>1. t \in Surjection(DOMAIN t, {t[l] : l \in DOMAIN t})
    BY <1>1 DEF Surjection
  <2>2. QED
    BY <1>2, <2>1, FS_Surjection
<1>4. QED
  BY <1>3, FS_CardinalityType

(* Without a core there is nothing to reserve.                             *)
LEMMA PoolNeedsCore ==
  ASSUME LayoutInv, MasterPoolSize > 0
  PROVE  cores > 0
<1> SUFFICES ASSUME cores = 0 PROVE MasterPoolSize = 0
  BY DEF LayoutInv, LayoutType
<1>1. pageSize \in Nat \ {0}
  BY MemoryAssumption DEF LayoutInv, LayoutType
<1>2. 0 % pageSize = 0 /\ pageSize % pageSize = 0
  BY <1>1
<1>3. 0 * THREAD_EXECUTION_CONTEXT_SIZE = 0 /\ VIRT_ZONE_SPACE_LENGTH * 0 = 0
  BY DEF THREAD_EXECUTION_CONTEXT_SIZE, VIRT_ZONE_SPACE_LENGTH, GB, MB
<1>4. QED
  BY <1>1, <1>2, <1>3 DEF MasterPoolSize, PageAlign

(* There are fewer workers than cores, also when the count wraps.          *)
LEMMA WorkersBelowCores ==
  ASSUME NEW n \in Nat, n > 0
  PROVE  (n - 1) % CountModulus \in 0 .. n - 1
BY MemoryAssumption

(* Thread_AssignPhysicalCore adds one thread, bound where it computes or   *)
(* not at all.                                                             *)
LEMMA AssignInv ==
  ASSUME LayoutInv, NEW c \in Nat, Len(affinity) = c, AssignPhysicalCore(c),
         UNCHANGED coreOf
  PROVE  /\ affinity' \in Seq(Nat \cup {Unbound})
         /\ Len(affinity') = c + 1
         /\ BoundAsComputed'
<1> DEFINE bit == LogicalCore(c) % MaskBits
           new == IF bit < Len(coreOf) THEN bit ELSE Unbound
<1>1. bit \in Nat /\ Len(coreOf) \in Nat
  <2>1. LogicalCore(c) \in Nat
    BY DEF LogicalCore
  <2>2. Len(coreOf) \in Nat
    BY MemoryAssumption DEF LayoutInv, LayoutType
  <2>3. QED
    BY <2>1, <2>2, MemoryAssumption
<1>2. affinity' = Append(affinity, new)
  BY DEF AssignPhysicalCore
<1>3. affinity \in Seq(Nat \cup {Unbound}) /\ new \in Nat \cup {Unbound}
  BY <1>1 DEF LayoutInv, LayoutType
<1>4. /\ affinity' \in Seq(Nat \cup {Unbound})
      /\ Len(affinity') = c + 1
      /\ \A k \in 1 .. c : affinity'[k] = affinity[k]
      /\ affinity'[c + 1] = new
      /\ DOMAIN affinity = 1 .. c /\ DOMAIN affinity' = 1 .. c + 1
  BY <1>2, <1>3
<1>5. ASSUME NEW k \in DOMAIN affinity', affinity'[k] # Unbound
      PROVE  affinity'[k] = LogicalCore(k - 1) % MaskBits /\ affinity'[k] < Len(coreOf)
  <2>1. CASE k \in 1 .. c
    BY <1>4, <1>5, <2>1 DEF LayoutInv, BoundAsComputed
  <2>2. CASE k = c + 1
    BY <1>1, <1>4, <1>5, <2>2
  <2>3. QED
    BY <1>4, <2>1, <2>2
<1>6. QED
  BY <1>4, <1>5 DEF BoundAsComputed, LogicalCore

(* Before the cores are counted no thread has a slice or a core.           *)
LEMMA InitInv == Init => LayoutInv
BY DEF Init, LayoutInv, LayoutType, Sliced, BoundAsComputed

(* No step of Initialize lets the threads get ahead of their slices.       *)
LEMMA StepInv == LayoutInv /\ [Next]_vars => LayoutInv'
<1> SUFFICES ASSUME LayoutInv, [Next]_vars PROVE LayoutInv'
  OBVIOUS
<1> USE DEF LayoutInv, LayoutType, Sliced, BoundAsComputed, machine, config, claimed, vars
<1>1. CASE DetectCores
  BY <1>1, CoreCount DEF DetectCores
<1>2. CASE MemoryConfigInitialize
  BY <1>2 DEF MemoryConfigInitialize
<1>3. CASE AssertBudget
  BY <1>3 DEF AssertBudget
<1>4. CASE ReserveNothing
  BY <1>4 DEF ReserveNothing
<1>5. CASE CommitContexts
  BY <1>5, PoolNeedsCore DEF CommitContexts
<1>6. CASE InitializeThread
  BY <1>6 DEF InitializeThread
<1>7. CASE InitializeMain
  BY <1>7 DEF InitializeMain
<1>8. CASE InitializeWorker
  BY <1>8 DEF InitializeWorker
<1>9. CASE AssignMain
  <2>1. pc = "workers" /\ cores > 0 /\ affinity = <<>> /\ DOMAIN slice = 0 .. cores - 1
    BY <1>9 DEF AssignMain
  <2>2. /\ affinity' \in Seq(Nat \cup {Unbound})
        /\ Len(affinity') = 1
        /\ BoundAsComputed'
    BY <1>9, <2>1, AssignInv DEF AssignMain
  <2>3. WorkerCount' \in Nat
    BY <1>9, <2>1, WorkersBelowCores DEF AssignMain, WorkerCount
  <2>4. QED
    BY <1>9, <2>1, <2>2, <2>3 DEF AssignMain
<1>10. CASE CreateWorker
  BY <1>10, AssignInv, WorkersBelowCores DEF CreateWorker, WorkerCount
<1>11. CASE UNCHANGED vars
  BY <1>11 DEF WorkerCount, LogicalCore
<1>12. QED
  BY <1>1, <1>2, <1>3, <1>4, <1>5, <1>6, <1>7, <1>8, <1>9, <1>10, <1>11 DEF Next

(* Every thread that Initialize assigns to a core has a slice of the pool: *)
(* there are never more workers than cores less one, also when the count   *)
(* of threads wraps or the cores could not be counted.                     *)
THEOREM ThreadsHaveContexts == Spec => []EveryThreadHasContext
<1>1. LayoutInv => EveryThreadHasContext
  <2> SUFFICES ASSUME LayoutInv, NEW k \in DOMAIN affinity PROVE k - 1 \in DOMAIN slice
    BY DEF EveryThreadHasContext
  <2>1. pc = "create" /\ k \in 1 .. i + 1 /\ i \in Nat /\ cores \in Nat /\ cores > 0
    BY DEF LayoutInv, LayoutType, Sliced
  <2>2. i <= cores - 1
    BY <2>1, WorkersBelowCores DEF LayoutInv, Sliced, WorkerCount
  <2>3. QED
    BY <2>1, <2>2 DEF LayoutInv, Sliced
<1>2. QED
  BY <1>1, InitInv, StepInv, PTL DEF Spec

(* The system numbers the logical processors core by core, at most two to  *)
(* a core: then Thread_AssignPhysicalCore never binds two threads to one   *)
(* core, though it takes every core for one with two.                      *)
SiblingsAdjacent ==
  \A t \in Topologies : \A l, m \in DOMAIN t : t[l] = t[m] => l - m \in {-1, 0, 1}

(* Under that numbering no two threads of the engine are bound to one      *)
(* core, for every machine whose cores fit the mask.                       *)
THEOREM ThreadsBoundApart ==
  ASSUME SiblingsAdjacent
  PROVE  Spec => []BoundApartWithinMask
<1>1. LayoutInv => BoundApartWithinMask
  <2> SUFFICES ASSUME LayoutInv, 2 * cores <= MaskBits,
                      NEW j \in DOMAIN affinity, NEW k \in DOMAIN affinity, j # k,
                      affinity[j] # Unbound, affinity[k] # Unbound
               PROVE  Core(j) # Core(k)
    BY DEF BoundApartWithinMask, BoundApart
  <2>1. \A n \in DOMAIN affinity : n \in 1 .. cores
    <3>1. pc = "create" /\ Len(affinity) = i + 1 /\ i \in Nat /\ cores \in Nat /\ cores > 0
      BY DEF LayoutInv, LayoutType, Sliced
    <3>2. i <= cores - 1
      BY <3>1, WorkersBelowCores DEF LayoutInv, Sliced, WorkerCount
    <3>3. QED
      BY <3>1, <3>2 DEF LayoutInv, LayoutType
  <2>2. \A n \in 1 .. cores : LogicalCore(n - 1) % MaskBits = 2 * (n - 1)
    <3>1. cores \in Nat
      BY DEF LayoutInv, LayoutType
    <3>2. \A b \in Nat : b < MaskBits => b % MaskBits = b
      BY MemoryAssumption
    <3>3. \A n \in 1 .. cores : 2 * (n - 1) \in Nat /\ 2 * (n - 1) < MaskBits
      BY <3>1, MemoryAssumption
    <3>4. QED
      BY <3>1, <3>2, <3>3 DEF LogicalCore
  <2>3. /\ affinity[j] = 2 * (j - 1) /\ affinity[j] < Len(coreOf)
        /\ affinity[k] = 2 * (k - 1) /\ affinity[k] < Len(coreOf)
    BY <2>1, <2>2 DEF LayoutInv, BoundAsComputed
  <2>4. coreOf \in Topologies /\ coreOf \in Seq(Nat)
    BY MemoryAssumption DEF LayoutInv, LayoutType
  <2>c. cores \in Nat /\ j \in 1 .. cores /\ k \in 1 .. cores
    BY <2>1 DEF LayoutInv, LayoutType
  <2>5. affinity[j] + 1 \in DOMAIN coreOf /\ affinity[k] + 1 \in DOMAIN coreOf
    BY <2>c, <2>3, <2>4
  <2>6. affinity[j] - affinity[k] \notin {-1, 0, 1}
    BY <2>c, <2>3
  <2>7. (affinity[j] + 1) - (affinity[k] + 1) = affinity[j] - affinity[k]
    BY <2>c, <2>3
  <2>8. coreOf[affinity[j] + 1] # coreOf[affinity[k] + 1]
    BY <2>4, <2>5, <2>6, <2>7 DEF SiblingsAdjacent
  <2>9. QED
    BY <2>8 DEF Core
<1>2. QED
  BY <1>1, InitInv, StepInv, PTL DEF Spec

-----------------------------------------------------------------------------
(* What is committed, step by step, and the rounded budget.                *)
Constants ==
  /\ THREAD_EXECUTION_CONTEXT_SIZE = 1
  /\ VIRT_ZONE_TA_BASELINE = 131072 /\ MAIN_PS_BASELINE = 131072
  /\ WORKER_QUEUE_SIZE = 128
  /\ MAIN_BASELINE_SUM = 4194304 /\ WORKER_BASELINE_SUM = 524288

CommittedSoFar ==
  /\ activeLockAllocation \in Nat
  /\ pc \notin {"detect", "config"} => activeLockAllocation >= RawLockBudget
  /\ pc \in {"detect", "config", "assert", "contexts", "aborted"} => committed = 0
  /\ pc = "threads" => committed = ContextArray + i * 131072
  /\ pc = "workers" => /\ i >= 1
                        /\ committed = ContextArray + cores * 131072 + 131072 + (i - 1) * 128
  /\ pc = "create" => committed = ContextArray + cores * 131072 + 131072 + (cores - 1) * 128

(* The constants of MemoryConfig.h that the budget is made of.             *)
LEMMA ConstantValues == Constants
BY DEF Constants, THREAD_EXECUTION_CONTEXT_SIZE, VIRT_ZONE_TA_BASELINE, MAIN_PS_BASELINE,
       WORKER_QUEUE_SIZE, MAIN_BASELINE_SUM, WORKER_BASELINE_SUM, MAIN_PS_SIZE, GB, MB

(* Rounding up to a page adds less than a page.                            *)
LEMMA PageAlignBounds ==
  ASSUME pageSize \in Nat \ {0}, NEW bytes \in Nat
  PROVE  PageAlign(bytes) \in Nat /\ bytes <= PageAlign(bytes) /\ PageAlign(bytes) <= bytes + pageSize
<1>1. bytes % pageSize \in 0 .. pageSize - 1
  OBVIOUS
<1>2. pageSize - (bytes % pageSize) \in 0 .. pageSize
  BY <1>1
<1>3. (pageSize - (bytes % pageSize)) % pageSize \in 0 .. pageSize - 1
  BY <1>2
<1>4. QED
  BY <1>3 DEF PageAlign

(* Nothing is committed before ThreadContext_Initialize.                   *)
LEMMA CommittedInit == Init => CommittedSoFar
BY DEF Init, CommittedSoFar

(* The budget MemoryConfig_Initialize computes, before it is rounded.      *)
LEMMA BudgetValue ==
  ASSUME cores \in Nat
  PROVE  RawLockBudget = cores * 655361 + 3670016 /\ RawLockBudget \in Nat
<1>1. RawLockBudget = cores * (1 + 131072 + 524288) + 4194304 - 524288
  BY ConstantValues DEF RawLockBudget, Constants
<1>2. QED
  BY <1>1

(* Once the cores are counted, nothing changes what these two are.         *)
LEMMA SizesFixed ==
  ASSUME UNCHANGED <<machine, cores>>
  PROVE  ContextArray' = ContextArray /\ RawLockBudget' = RawLockBudget
BY DEF machine, ContextArray, PageAlign, RawLockBudget

(* Each zone that is claimed commits its baseline and no more.             *)
LEMMA CommittedStep == LayoutInv /\ CommittedSoFar /\ [Next]_vars => CommittedSoFar'
<1> SUFFICES ASSUME LayoutInv, CommittedSoFar, [Next]_vars PROVE CommittedSoFar'
  OBVIOUS
<1>a. pageSize \in Nat \ {0} /\ cores \in Nat /\ i \in Nat
  BY MemoryAssumption DEF LayoutInv, LayoutType
<1>b. ContextArray \in Nat
  BY <1>a, PageAlignBounds, ConstantValues DEF ContextArray, Constants
<1>1. CASE DetectCores
  BY <1>1 DEF DetectCores, CommittedSoFar, config, claimed
<1>2. CASE MemoryConfigInitialize
  <2>1. /\ pc' = "assert" /\ committed' = committed /\ pc = "config"
        /\ activeLockAllocation' = PageAlign(RawLockBudget)
        /\ RawLockBudget' = RawLockBudget
    BY <1>2, SizesFixed DEF MemoryConfigInitialize, claimed
  <2>2. /\ PageAlign(RawLockBudget) \in Nat
        /\ RawLockBudget <= PageAlign(RawLockBudget)
    BY <1>a, BudgetValue, PageAlignBounds
  <2>3. QED
    BY <2>1, <2>2 DEF CommittedSoFar
<1>3. CASE AssertBudget \/ ReserveNothing
  <2>1. /\ pc \in {"assert", "contexts"} /\ pc' \in {"contexts", "aborted"}
        /\ UNCHANGED <<machine, cores, committed, activeLockAllocation>>
    BY <1>3 DEF AssertBudget, ReserveNothing, claimed, config
  <2>2. QED
    BY <2>1, SizesFixed DEF CommittedSoFar
<1>4. CASE CommitContexts
  <2>1. /\ pc = "contexts" /\ pc' = "threads" /\ i = 0 /\ i' = i
        /\ committed' = committed + ContextArray
        /\ UNCHANGED <<machine, cores, activeLockAllocation>>
    BY <1>4 DEF CommitContexts, Claim, config, LayoutInv, Sliced
  <2>2. QED
    BY <1>b, <2>1, SizesFixed DEF CommittedSoFar
<1>5. CASE InitializeThread
  <2>1. /\ pc = "threads" /\ pc' = pc /\ i' = i + 1
        /\ committed' = committed + 131072
        /\ UNCHANGED <<machine, cores, activeLockAllocation>>
    BY <1>5, ConstantValues DEF InitializeThread, Claim, config, Constants
  <2>2. QED
    BY <1>a, <1>b, <2>1, SizesFixed DEF CommittedSoFar
<1>6. CASE InitializeMain
  <2>1. /\ pc = "threads" /\ pc' = "workers" /\ i = cores /\ i' = 1
        /\ committed' = committed + 131072
        /\ UNCHANGED <<machine, cores, activeLockAllocation>>
    BY <1>6, ConstantValues DEF InitializeMain, Claim, config, Constants
  <2>2. QED
    BY <1>a, <1>b, <2>1, SizesFixed DEF CommittedSoFar
<1>7. CASE InitializeWorker
  <2>1. /\ pc = "workers" /\ pc' = pc /\ i' = i + 1
        /\ committed' = committed + 128
        /\ UNCHANGED <<machine, cores, activeLockAllocation>>
    BY <1>7, ConstantValues DEF InitializeWorker, Claim, config, Constants
  <2>2. QED
    BY <1>a, <1>b, <2>1, SizesFixed DEF CommittedSoFar
<1>8. CASE AssignMain
  <2>1. /\ pc = "workers" /\ pc' = "create" /\ i >= cores
        /\ UNCHANGED <<machine, cores, committed, activeLockAllocation>>
    BY <1>8 DEF AssignMain, config, claimed
  <2>2. i = cores
    BY <1>a, <2>1 DEF LayoutInv, Sliced
  <2>3. QED
    BY <1>a, <1>b, <2>1, <2>2, SizesFixed DEF CommittedSoFar
<1>9. CASE CreateWorker \/ UNCHANGED vars
  <2>1. pc' = pc /\ UNCHANGED <<machine, cores, committed, activeLockAllocation>>
    BY <1>9 DEF CreateWorker, vars, config, claimed
  <2>2. pc = "create" \/ i' = i
    BY <1>9 DEF CreateWorker, vars
  <2>3. QED
    BY <2>1, <2>2, SizesFixed DEF CommittedSoFar
<1>10. QED
  BY <1>1, <1>2, <1>3, <1>4, <1>5, <1>6, <1>7, <1>8, <1>9 DEF Next

(* With pages of at most 1 GB the lock budget covers whatever is committed *)
(* at start-up, on every machine.                                          *)
THEOREM BudgetIsEnough ==
  ASSUME \A s \in PageSizes : s <= GB
  PROVE  Spec => []BudgetCoversCommits
<1>1. LayoutInv /\ CommittedSoFar => BudgetCoversCommits
  <2> SUFFICES ASSUME LayoutInv, CommittedSoFar, pc \notin {"detect", "config", "assert"}
               PROVE  committed <= activeLockAllocation
    BY DEF BudgetCoversCommits
  <2>1. pageSize \in Nat \ {0} /\ pageSize <= 2097152 /\ cores \in Nat /\ i \in Nat
    BY MemoryAssumption DEF LayoutInv, LayoutType, GB, MB
  <2>2. ContextArray \in Nat /\ ContextArray <= cores + pageSize
    BY <2>1, PageAlignBounds, ConstantValues DEF ContextArray, Constants
  <2>3. activeLockAllocation \in Nat /\ activeLockAllocation >= cores * 655361 + 3670016
    BY <2>1, BudgetValue DEF CommittedSoFar
  <2>4. CASE pc \in {"contexts", "aborted"}
    BY <2>3, <2>4 DEF CommittedSoFar
  <2>5. CASE pc = "threads"
    <3>1. committed = ContextArray + i * 131072 /\ i <= cores
      BY <2>5 DEF CommittedSoFar, LayoutInv, Sliced
    <3>2. QED
      BY <2>1, <2>2, <2>3, <3>1
  <2>6. CASE pc = "workers"
    <3>1. committed = ContextArray + cores * 131072 + 131072 + (i - 1) * 128 /\ i <= cores
      BY <2>6 DEF CommittedSoFar, LayoutInv, Sliced
    <3>2. QED
      BY <2>1, <2>2, <2>3, <3>1
  <2>7. CASE pc = "create"
    <3>1. committed = ContextArray + cores * 131072 + 131072 + (cores - 1) * 128
      BY <2>7 DEF CommittedSoFar
    <3>2. QED
      BY <2>1, <2>2, <2>3, <3>1
  <2>8. QED
    BY <2>4, <2>5, <2>6, <2>7 DEF LayoutInv, LayoutType
<1>2. QED
  BY <1>1, InitInv, StepInv, CommittedInit, CommittedStep, PTL DEF Spec

-----------------------------------------------------------------------------
(* Where the zones lie: the array of contexts at the bottom of the pool,   *)
(* above it the slices of the threads one after the other, in each slice   *)
(* the transient arena and above it the persistent arena of the main       *)
(* thread or the task queue of a worker.                                   *)
Base(k) == ContextArray + k * 67108864

Contexts == [start |-> 0, end |-> ContextArray]
Transient(k) == [start |-> Base(k), end |-> Base(k) + 2097152]
Upper(k) ==
  [start |-> Base(k) + 2097152,
   end   |-> Base(k) + 2097152 + (IF k = 0 THEN 4194304 ELSE 128)]

ZonesKnown ==
  /\ pc \in {"detect", "config", "assert", "contexts", "aborted"} => zones = {}
  /\ pc = "threads" => cursor = Base(i)
  /\ pc \in {"threads", "workers", "create"} =>
       /\ \A k \in DOMAIN slice : slice[k] = Base(k)
       /\ \A z \in zones : \/ z = Contexts
                           \/ \E k \in 0 .. cores - 1 : z = Transient(k) \/ z = Upper(k)

(* Nothing is claimed before ThreadContext_Initialize.                     *)
LEMMA ZonesInit == Init => ZonesKnown
BY DEF Init, ZonesKnown

(* The places of the zones depend on the machine and its cores alone.      *)
LEMMA PlacesFixed ==
  ASSUME UNCHANGED <<machine, cores>>
  PROVE  /\ Contexts' = Contexts
         /\ \A k : Base(k)' = Base(k) /\ Transient(k)' = Transient(k) /\ Upper(k)' = Upper(k)
BY SizesFixed DEF Contexts, Base, Transient, Upper

(* The zones' constants, and that the array of contexts has a length.      *)
LEMMA PlaceValues ==
  ASSUME LayoutInv
  PROVE  /\ VIRT_ZONE_SPACE_LENGTH = 67108864 /\ VIRT_ZONE_TA_SIZE = 2097152
         /\ VIRT_ZONE_TA_OFFSET = 0 /\ MAIN_PS_OFFSET = 2097152 /\ WORKER_QUEUE_OFFSET = 2097152
         /\ MAIN_PS_SIZE = 4194304 /\ WORKER_QUEUE_SIZE = 128
         /\ ContextArray \in Nat /\ \A k \in Nat : Base(k) \in Nat
<1>1. pageSize \in Nat \ {0} /\ cores \in Nat
  BY MemoryAssumption DEF LayoutInv, LayoutType
<1>2. ContextArray \in Nat
  BY <1>1, PageAlignBounds, ConstantValues DEF ContextArray, Constants
<1>3. QED
  BY <1>2 DEF Base, VIRT_ZONE_SPACE_LENGTH, VIRT_ZONE_TA_SIZE, VIRT_ZONE_TA_OFFSET,
     MAIN_PS_OFFSET, WORKER_QUEUE_OFFSET, MAIN_PS_SIZE, WORKER_QUEUE_SIZE, GB, MB

(* Every step of Initialize claims the zone that belongs there.            *)
LEMMA ZonesStep == LayoutInv /\ ZonesKnown /\ [Next]_vars => ZonesKnown'
<1> SUFFICES ASSUME LayoutInv, ZonesKnown, [Next]_vars PROVE ZonesKnown'
  OBVIOUS
<1>a. cores \in Nat /\ i \in Nat
  BY SMT DEF LayoutInv, LayoutType
<1>1. CASE DetectCores \/ MemoryConfigInitialize \/ AssertBudget \/ ReserveNothing
  BY SMT, <1>1 DEF DetectCores, MemoryConfigInitialize, AssertBudget, ReserveNothing, ZonesKnown, claimed
<1>2. CASE CommitContexts
  <2>1. /\ pc = "contexts" /\ pc' = "threads" /\ i = 0 /\ i' = i /\ zones = {}
        /\ slice' = slice /\ DOMAIN slice = {}
        /\ cursor' = ContextArray /\ zones' = zones \cup {[start |-> 0, end |-> 0 + ContextArray]}
        /\ UNCHANGED <<machine, cores>>
    BY SMT, <1>2 DEF CommitContexts, Claim, LayoutInv, Sliced, ZonesKnown
  <2>2. Base(0) = ContextArray /\ [start |-> 0, end |-> 0 + ContextArray] = Contexts
    BY SMT, PlaceValues DEF Base, Contexts
  <2>3. QED
    BY SMT, <2>1, <2>2, PlacesFixed DEF ZonesKnown
<1>3. CASE InitializeThread
  <2>1. /\ pc = "threads" /\ pc' = pc /\ i < cores /\ i' = i + 1 /\ cursor = Base(i)
        /\ DOMAIN slice = 0 .. i - 1
        /\ slice' = [k \in 0 .. i |-> IF k = i THEN cursor ELSE slice[k]]
        /\ cursor' = cursor + VIRT_ZONE_SPACE_LENGTH
        /\ zones' = zones \cup {[start |-> cursor + VIRT_ZONE_TA_OFFSET,
                                 end |-> cursor + VIRT_ZONE_TA_OFFSET + VIRT_ZONE_TA_SIZE]}
        /\ UNCHANGED <<machine, cores>>
    BY SMT, <1>3 DEF InitializeThread, Claim, LayoutInv, Sliced, ZonesKnown
  <2>2. Base(i + 1) = Base(i) + VIRT_ZONE_SPACE_LENGTH
    BY SMT, <1>a, PlaceValues DEF Base
  <2>3. zones' = zones \cup {Transient(i)}
    <3>1. /\ Base(i) \in Nat
          /\ VIRT_ZONE_TA_OFFSET = 0 /\ VIRT_ZONE_TA_SIZE = 2097152
      BY SMT, <1>a, PlaceValues
    <3>2. QED
      BY SMT, <2>1, <3>1 DEF Transient
  <2>4. \A k \in 0 .. i : slice'[k] = Base(k)
    BY SMT, <1>a, <2>1 DEF ZonesKnown
  <2>5. i \in 0 .. cores - 1
    BY SMT, <1>a, <2>1
  <2>6. QED
    BY SMT, <2>1, <2>2, <2>3, <2>4, <2>5, PlacesFixed DEF ZonesKnown
<1>4. CASE InitializeMain
  <2>1. /\ pc = "threads" /\ pc' = "workers" /\ cores > 0 /\ i = cores
        /\ slice' = slice /\ DOMAIN slice = 0 .. i - 1
        /\ zones' = zones \cup {[start |-> slice[0] + MAIN_PS_OFFSET,
                                 end |-> slice[0] + MAIN_PS_OFFSET + MAIN_PS_SIZE]}
        /\ UNCHANGED <<machine, cores>>
    BY SMT, <1>4 DEF InitializeMain, Claim, LayoutInv, Sliced
  <2>2. 0 \in 0 .. cores - 1
    BY SMT, <1>a, <2>1
  <2>3. slice[0] = Base(0)
    BY SMT, <2>1, <2>2 DEF ZonesKnown
  <2>4. zones' = zones \cup {Upper(0)}
    BY SMT, <2>1, <2>3, PlaceValues DEF Upper
  <2>5. QED
    BY SMT, <2>1, <2>2, <2>4, PlacesFixed DEF ZonesKnown
<1>5. CASE InitializeWorker
  <2>1. /\ pc = "workers" /\ pc' = pc /\ i < cores /\ i > 0
        /\ slice' = slice /\ DOMAIN slice = 0 .. cores - 1
        /\ zones' = zones \cup {[start |-> slice[i] + WORKER_QUEUE_OFFSET,
                                 end |-> slice[i] + WORKER_QUEUE_OFFSET + WORKER_QUEUE_SIZE]}
        /\ UNCHANGED <<machine, cores>>
    BY SMT, <1>a, <1>5 DEF InitializeWorker, Claim, LayoutInv, Sliced
  <2>2. i \in 0 .. cores - 1
    BY SMT, <1>a, <2>1
  <2>3. slice[i] = Base(i)
    BY SMT, <2>1, <2>2 DEF ZonesKnown
  <2>4. zones' = zones \cup {Upper(i)}
    <3>1. /\ Base(i) \in Nat
          /\ WORKER_QUEUE_OFFSET = 2097152 /\ WORKER_QUEUE_SIZE = 128
      BY SMT, <1>a, PlaceValues
    <3>2. QED
      BY SMT, <1>a, <2>1, <2>3, <3>1 DEF Upper
  <2>5. QED
    BY SMT, <2>1, <2>2, <2>4, PlacesFixed DEF ZonesKnown
<1>6. CASE AssignMain \/ CreateWorker
  <2>1. /\ pc \in {"workers", "create"} /\ pc' = "create"
        /\ UNCHANGED <<machine, cores, slice, zones>>
    BY SMT, <1>6 DEF AssignMain, CreateWorker, claimed
  <2>2. QED
    BY SMT, <2>1, PlacesFixed DEF ZonesKnown
<1>7. CASE UNCHANGED vars
  <2>1. UNCHANGED <<machine, cores>> /\ UNCHANGED <<pc, i, cursor, slice, zones>>
    BY SMT, <1>7 DEF vars, claimed
  <2>2. QED
    BY SMT, <2>1, PlacesFixed DEF ZonesKnown
<1>8. QED
  BY SMT, <1>1, <1>2, <1>3, <1>4, <1>5, <1>6, <1>7 DEF Next

(* A zone that ends where a page starts, or below, shares no page with one *)
(* that starts there, or above.                                            *)
LEMMA PageBetween ==
  ASSUME pageSize \in Nat \ {0}, NEW y, NEW z, y.end \in Nat, z.start \in Nat,
         NEW m \in Nat, y.end <= m * pageSize, m * pageSize <= z.start
  PROVE  EndPage(y) <= FirstPage(z)
<1> DEFINE p == pageSize  e == y.end + p - 1  q == e \div p  r == z.start \div p
<1>1. p \in Nat \ {0} /\ e \in Nat /\ q \in Nat /\ r \in Nat
  BY SMT
<1>2. q * p <= e /\ z.start < (r + 1) * p
  BY SMT
<1>3. q * p < (m + 1) * p /\ m * p < (r + 1) * p
  BY SMT, <1>2
<1>4. \A a, b \in Nat : a * p < b * p => a < b
  <2> SUFFICES ASSUME NEW a \in Nat, NEW b \in Nat, b <= a PROVE b * p <= a * p
    BY SMT, <1>1
  <2>1. PICK d \in Nat : a = b + d
    BY SMT
  <2>2. QED
    BY SMT, <1>1, <2>1
<1>5. q < m + 1 /\ m < r + 1
  BY SMT, <1>1, <1>3, <1>4
<1>6. QED
  BY SMT, <1>1, <1>5 DEF EndPage, FirstPage

OnPage(b) == \E m \in Nat : b = m * pageSize

(* Rounding up reaches a page.                                             *)
LEMMA PageAlignOnPage ==
  ASSUME pageSize \in Nat \ {0}, NEW bytes \in Nat
  PROVE  OnPage(PageAlign(bytes))
<1> DEFINE p == pageSize  q == bytes \div p  r == bytes % p
<1>1. p \in Nat \ {0} /\ q \in Nat /\ r \in 0 .. p - 1 /\ bytes = q * p + r
  BY SMT
<1>2. CASE r = 0
  <2>1. PageAlign(bytes) = q * p
    BY SMT, <1>1, <1>2 DEF PageAlign
  <2>2. QED
    BY <1>1, <2>1 DEF OnPage
<1>3. CASE r # 0
  <2>1. (p - r) % p = p - r
    BY SMT, <1>1, <1>3
  <2>2. PageAlign(bytes) = (q + 1) * p
    BY SMT, <1>1, <2>1 DEF PageAlign
  <2>3. q + 1 \in Nat
    BY <1>1
  <2>4. QED
    BY <2>2, <2>3 DEF OnPage
<1>4. QED
  BY <1>2, <1>3

(* Where pages divide a gigabyte, every slice starts on a page, and so     *)
(* does what lies above its transient arena.                               *)
LEMMA SlicesOnPages ==
  ASSUME LayoutInv, GB % pageSize = 0, NEW k \in Nat
  PROVE  OnPage(Base(k)) /\ OnPage(Base(k) + 2097152)
<1>1. pageSize \in Nat \ {0} /\ cores \in Nat
  BY MemoryAssumption DEF LayoutInv, LayoutType
<1>2. PICK c \in Nat : ContextArray = c * pageSize
  <2>1. cores * THREAD_EXECUTION_CONTEXT_SIZE \in Nat
    BY SMT, <1>1, ConstantValues DEF Constants
  <2>2. QED
    BY <1>1, <2>1, PageAlignOnPage DEF ContextArray, OnPage
<1>3. PICK g \in Nat : 2097152 = g * pageSize
  <2>1. 2097152 % pageSize = 0
    BY SMT DEF GB, MB
  <2>2. 2097152 = (2097152 \div pageSize) * pageSize /\ 2097152 \div pageSize \in Nat
    BY SMT, <1>1, <2>1
  <2>3. QED
    BY SMT, <2>2
<1>4. k * 67108864 = (k * (32 * g)) * pageSize
  <2>1. 67108864 = (32 * g) * pageSize
    BY SMT, <1>1, <1>3
  <2>2. \A n, a, b \in Nat : n * (a * b) = (n * a) * b
    BY SMT
  <2>3. QED
    BY SMT, <1>1, <2>1, <2>2
<1>5. /\ Base(k) = (c + k * (32 * g)) * pageSize
      /\ Base(k) + 2097152 = (c + k * (32 * g) + g) * pageSize
  <2>1. k * (32 * g) \in Nat
    BY SMT
  <2>2. QED
    BY SMT, <1>1, <1>2, <1>3, <1>4, <2>1 DEF Base
<1>6. c + k * (32 * g) \in Nat /\ c + k * (32 * g) + g \in Nat
  BY SMT
<1>7. QED
  BY SMT, <1>5, <1>6 DEF OnPage

Apart(y, z) == EndPage(y) <= FirstPage(z) \/ EndPage(z) <= FirstPage(y)

OfSlice(z, k) == z = Transient(k) \/ z = Upper(k)

(* The zones of a slice lie in its lower three gigabytes.                  *)
LEMMA ZoneBounds ==
  ASSUME LayoutInv, NEW k \in Nat, NEW z, OfSlice(z, k)
  PROVE  /\ z.start \in Nat /\ z.end \in Nat /\ Base(k) \in Nat
         /\ Base(k) <= z.start /\ z.end <= Base(k) + 6291456
<1>1. Base(k) \in Nat
  BY SMT, PlaceValues
<1>2. QED
  BY SMT, <1>1 DEF OfSlice, Transient, Upper

(* Two zones of the pool never have a page in common.                      *)
LEMMA ZonesOfSlicesApart ==
  ASSUME LayoutInv, GB % pageSize = 0, NEW k \in Nat, NEW l \in Nat, NEW y, NEW z,
         OfSlice(y, k), OfSlice(z, l), y # z
  PROVE  Apart(y, z)
<1>1. pageSize \in Nat \ {0}
  BY MemoryAssumption DEF LayoutInv, LayoutType
<1>2. ASSUME NEW a \in Nat, NEW b \in Nat, NEW u, NEW v, a < b, OfSlice(u, a), OfSlice(v, b)
      PROVE  EndPage(u) <= FirstPage(v)
  <2>1. PICK m \in Nat : Base(b) = m * pageSize
    BY SlicesOnPages DEF OnPage
  <2>2. /\ u.end \in Nat /\ u.end <= Base(a) + 6291456 /\ Base(a) \in Nat
        /\ v.start \in Nat /\ Base(b) <= v.start /\ Base(b) \in Nat
    BY <1>2, ZoneBounds
  <2>3. Base(a) + 67108864 <= Base(b)
    <3>1. ContextArray \in Nat
      BY PlaceValues
    <3>2. QED
      BY SMT, <1>2, <3>1 DEF Base
  <2>4. u.end <= m * pageSize /\ m * pageSize <= v.start
    BY SMT, <1>1, <2>1, <2>2, <2>3
  <2>5. QED
    BY SMT, <1>1, <2>2, <2>4, PageBetween
<1>3. CASE k < l \/ l < k
  BY <1>2, <1>3 DEF Apart
<1>4. CASE k = l
  <2>1. PICK m \in Nat : Base(k) + 2097152 = m * pageSize
    BY SMT, SlicesOnPages DEF OnPage
  <2>2. /\ Transient(k).end = Base(k) + 2097152 /\ Upper(k).start = Base(k) + 2097152
        /\ Base(k) \in Nat
    BY SMT, PlaceValues DEF Transient, Upper
  <2>3. EndPage(Transient(k)) <= FirstPage(Upper(k))
    <3>1. /\ Transient(k).end \in Nat /\ Upper(k).start \in Nat
          /\ Transient(k).end <= m * pageSize /\ m * pageSize <= Upper(k).start
      BY SMT, <1>1, <2>1, <2>2
    <3>2. QED
      BY SMT, <1>1, <3>1, PageBetween
  <2>4. {y, z} = {Transient(k), Upper(k)}
    BY <1>4 DEF OfSlice
  <2>5. QED
    BY <2>3, <2>4 DEF Apart
<1>5. QED
  BY SMT, <1>3, <1>4

(* The array of contexts ends on the page where the first slice starts.    *)
LEMMA ContextsApart ==
  ASSUME LayoutInv, GB % pageSize = 0, NEW k \in Nat, NEW z, OfSlice(z, k)
  PROVE  EndPage(Contexts) <= FirstPage(z)
<1>1. pageSize \in Nat \ {0} /\ ContextArray \in Nat
  BY MemoryAssumption, PlaceValues DEF LayoutInv, LayoutType
<1>2. PICK m \in Nat : Base(0) = m * pageSize
  BY SlicesOnPages DEF OnPage
<1>3. Contexts.end = ContextArray /\ Base(0) = ContextArray /\ Base(0) <= Base(k)
  BY SMT, <1>1 DEF Contexts, Base
<1>4. z.start \in Nat /\ Base(k) <= z.start /\ Base(k) \in Nat
  BY ZoneBounds
<1>5. Contexts.end \in Nat /\ Contexts.end <= m * pageSize /\ m * pageSize <= z.start
  BY SMT, <1>1, <1>2, <1>3, <1>4
<1>6. QED
  BY SMT, <1>1, <1>4, <1>5, PageBetween

(* With pages that divide a gigabyte no page belongs to two of the zones   *)
(* that ThreadContext_Initialize claims, and all of them lie in the master *)
(* pool, for every number of cores.                                        *)
THEOREM ZonesDoNotMeet ==
  ASSUME \A s \in PageSizes : GB % s = 0
  PROVE  Spec => []ZonesApart
<1>1. LayoutInv /\ ZonesKnown => ZonesApart
  <2> SUFFICES ASSUME LayoutInv, ZonesKnown PROVE ZonesApart
    OBVIOUS
  <2>1. GB % pageSize = 0 /\ cores \in Nat
    BY DEF LayoutInv, LayoutType
  <2>2. \A z \in zones : z = Contexts \/ \E k \in 0 .. cores - 1 : OfSlice(z, k)
    BY DEF ZonesKnown, OfSlice, LayoutInv, LayoutType
  <2>3. \A k \in 0 .. cores - 1 : k \in Nat
    BY <2>1
  <2>4. ASSUME NEW y \in zones, NEW z \in zones, y # z PROVE Apart(y, z)
    BY <2>1, <2>2, <2>3, <2>4, ContextsApart, ZonesOfSlicesApart DEF Apart
  <2>5. ASSUME NEW z \in zones PROVE z.end <= MasterPoolSize
    <3>1. MasterPoolSize = 67108864 * cores + ContextArray /\ ContextArray \in Nat
      BY SMT, <2>1, PlaceValues DEF MasterPoolSize, ContextArray
    <3>2. CASE z = Contexts
      BY SMT, <2>1, <3>1, <3>2 DEF Contexts
    <3>3. ASSUME NEW k \in 0 .. cores - 1, OfSlice(z, k) PROVE z.end <= MasterPoolSize
      <4>1. z.end \in Nat /\ z.end <= Base(k) + 6291456
        BY <2>3, <3>3, ZoneBounds
      <4>2. QED
        BY SMT, <2>1, <3>1, <4>1 DEF Base
    <3>4. QED
      BY <2>2, <3>2, <3>3
  <2>6. QED
    BY <2>4, <2>5 DEF ZonesApart, Apart
<1>2. QED
  BY <1>1, InitInv, StepInv, ZonesInit, ZonesStep, PTL DEF Spec

=============================================================================
