---------------------------- MODULE MemoryLayout ----------------------------
(***************************************************************************)
(* What the engine makes of the machine it starts on: the platform layer   *)
(* counts cores, MemoryConfig_Initialize of MemoryConfig.cpp computes a    *)
(* budget, ThreadContext_Initialize of ThreadContext.cpp reserves the      *)
(* master pool and commits the baselines, and every thread is assigned to  *)
(* a core.  The zones are those of MemoryConfig.h that the code makes use  *)
(* of.                                                                     *)
(*                                                                         *)
(* Sizes and addresses are counted in units of 512 bytes; an address is an *)
(* offset in the master pool.  An execution context (384 bytes on amd64)   *)
(* takes one unit.                                                         *)
(***************************************************************************)
EXTENDS Integers, Sequences, FiniteSets

CONSTANTS
  InstalledRam,   \* what getMemoryStatus may say is installed, in units
  Topologies,     \* the machines: for each logical processor, its core
  PageSizes,      \* what osPageSize may be, in units
  SizeModulus,    \* 2^64 bytes in the code; above every sum that is formed
  CountModulus,   \* 2^32 in the code: a count of threads is a uint32_t
  MaskBits,       \* 64 in the code: the width of an affinity mask
  AssertsOn       \* a build with assertions

ASSUME MemoryAssumption ==
  /\ InstalledRam \in SUBSET Nat
  /\ \A t \in Topologies : t \in Seq(Nat)
  /\ PageSizes \in SUBSET (Nat \ {0})
  /\ SizeModulus \in Nat \ {0}
  /\ CountModulus \in Nat \ {0}
  /\ MaskBits \in Nat \ {0}
  /\ AssertsOn \in BOOLEAN

VARIABLES
  ram, coreOf, pageSize,   \* the machine
  cores,                   \* cpuPhysicalCoreCount
  pc,                      \* where Initialize is
  i,                       \* the index of the loops over the threads
  maxAllowedPhysical, activeLockAllocation, globalPoolSize,  \* g_MemoryConfig
  cursor,                  \* runwayCursor
  slice,                   \* virtualAddressBase of the threads initialised
  zones,                   \* what has been claimed: [start, end) of each zone
  committed,               \* how much has been committed
  affinity                 \* the logical processor each thread is bound to

machine == <<ram, coreOf, pageSize>>
config == <<maxAllowedPhysical, activeLockAllocation, globalPoolSize>>
claimed == <<cursor, slice, zones, committed>>
vars == <<machine, cores, pc, i, config, claimed, affinity>>

Unbound == -1

-----------------------------------------------------------------------------
(* MemoryConfig.h, in units *)

MB == 2048
GB == 1024 * MB

THREAD_EXECUTION_CONTEXT_SIZE == 1
VIRT_ZONE_SPACE_LENGTH == 32 * GB

VIRT_ZONE_TA_OFFSET == 0
VIRT_ZONE_TA_SIZE == 1 * GB
VIRT_ZONE_TA_BASELINE == 64 * MB

MAIN_PS_OFFSET == VIRT_ZONE_TA_OFFSET + VIRT_ZONE_TA_SIZE
MAIN_PS_SIZE == 2 * GB
MAIN_PS_BASELINE == 64 * MB
MAIN_BASELINE_SUM == MAIN_PS_SIZE

WORKER_QUEUE_OFFSET == VIRT_ZONE_TA_OFFSET + VIRT_ZONE_TA_SIZE
WORKER_QUEUE_SIZE == MB \div 16
WORKER_BASELINE_SUM == 64 * MB + 128 * MB + 64 * MB

PageAlign(bytes) == bytes + ((pageSize - (bytes % pageSize)) % pageSize)

Init ==
  /\ ram \in InstalledRam
  /\ coreOf \in Topologies
  /\ pageSize \in PageSizes
  /\ cores = 0
  /\ pc = "detect"
  /\ i = 0
  /\ maxAllowedPhysical = 0
  /\ activeLockAllocation = 0
  /\ globalPoolSize = 0
  /\ cursor = 0
  /\ slice = <<>>
  /\ zones = {}
  /\ committed = 0
  /\ affinity = <<>>

-----------------------------------------------------------------------------
(* platform::Initialize walks the records of the cores.  When the query    *)
(* fails there are none, and no core is counted.                           *)

DetectCores ==
  /\ pc = "detect"
  /\ cores' \in {0, Cardinality({coreOf[l] : l \in DOMAIN coreOf})}
  /\ pc' = "config"
  /\ UNCHANGED <<machine, i, config, claimed, affinity>>

-----------------------------------------------------------------------------
(* MemoryConfig_Initialize *)

(* Mutant: only the contexts and the transient arenas are counted.         *)
RawLockBudgetArenas ==
  cores * (THREAD_EXECUTION_CONTEXT_SIZE + VIRT_ZONE_TA_BASELINE)

RawLockBudget ==
  cores * (THREAD_EXECUTION_CONTEXT_SIZE + VIRT_ZONE_TA_BASELINE + WORKER_BASELINE_SUM)
    + MAIN_BASELINE_SUM - WORKER_BASELINE_SUM

MemoryConfigInitialize ==
  /\ pc = "config"
  /\ maxAllowedPhysical' = (ram \div 10) * 7
  /\ activeLockAllocation' = PageAlign(RawLockBudget)
  /\ globalPoolSize' = (maxAllowedPhysical' - activeLockAllocation') % SizeModulus
  /\ pc' = "assert"
  /\ UNCHANGED <<machine, cores, i, claimed, affinity>>

AssertBudget ==
  /\ pc = "assert"
  /\ pc' = IF AssertsOn /\ activeLockAllocation > globalPoolSize
           THEN "aborted" ELSE "contexts"
  /\ UNCHANGED <<machine, cores, i, config, claimed, affinity>>

-----------------------------------------------------------------------------
(* ThreadContext_Initialize *)

MasterPoolSize ==
  VIRT_ZONE_SPACE_LENGTH * cores + PageAlign(cores * THREAD_EXECUTION_CONTEXT_SIZE)

(* A zone of size bytes is claimed, baseline bytes of it are committed.    *)
Claim(start, size, baseline) ==
  /\ zones' = zones \cup {[start |-> start, end |-> start + size]}
  /\ committed' = committed + baseline

(* Mutant: the array is not rounded up to a page.                          *)
ContextArrayUnaligned == cores * THREAD_EXECUTION_CONTEXT_SIZE
ContextArray == PageAlign(cores * THREAD_EXECUTION_CONTEXT_SIZE)

(* VirtualAlloc refuses a reservation of size 0, and then an assertion or  *)
(* the first write to the context of the main thread ends the process.     *)
ReserveNothing ==
  /\ pc = "contexts"
  /\ MasterPoolSize = 0
  /\ pc' = "aborted"
  /\ UNCHANGED <<machine, cores, i, config, claimed, affinity>>

CommitContexts ==
  /\ pc = "contexts"
  /\ MasterPoolSize > 0
  /\ Claim(0, ContextArray, ContextArray)
  /\ cursor' = ContextArray
  /\ pc' = "threads"
  /\ UNCHANGED <<machine, cores, i, config, slice, affinity>>

InitializeThread ==
  /\ pc = "threads"
  /\ i < cores
  /\ slice' = [k \in 0 .. i |-> IF k = i THEN cursor ELSE slice[k]]
  /\ Claim(cursor + VIRT_ZONE_TA_OFFSET, VIRT_ZONE_TA_SIZE, VIRT_ZONE_TA_BASELINE)
  /\ cursor' = cursor + VIRT_ZONE_SPACE_LENGTH
  /\ i' = i + 1
  /\ UNCHANGED <<machine, cores, pc, config, affinity>>

InitializeMain ==
  /\ pc = "threads"
  /\ i = cores
  /\ Claim(slice[0] + MAIN_PS_OFFSET, MAIN_PS_SIZE, MAIN_PS_BASELINE)
  /\ i' = 1
  /\ pc' = "workers"
  /\ UNCHANGED <<machine, cores, config, cursor, slice, affinity>>

(* The task queue; it is committed in whole.                               *)
InitializeWorker ==
  /\ pc = "workers"
  /\ i < cores
  /\ Claim(slice[i] + WORKER_QUEUE_OFFSET, WORKER_QUEUE_SIZE, WORKER_QUEUE_SIZE)
  /\ i' = i + 1
  /\ UNCHANGED <<machine, cores, pc, config, cursor, slice, affinity>>

-----------------------------------------------------------------------------
(* The main thread binds itself, and Worker_Init each thread it creates.   *)

(* Mutant: there is a worker for every thread.                             *)
WorkersForThreads == cores
WorkerCount == (cores - 1) % CountModulus

(* Thread_AssignPhysicalCore expects two logical processors a core.  A     *)
(* shift by more than the width is taken modulo the width on amd64, and a  *)
(* mask without a processor is refused, which nobody notices.              *)
(* Mutant: the index is taken for that of a logical processor.             *)
LogicalCoreItself(coreIndex) == coreIndex
LogicalCore(coreIndex) == coreIndex * 2

AssignPhysicalCore(coreIndex) ==
  LET bit == LogicalCore(coreIndex) % MaskBits
  IN affinity' = Append(affinity, IF bit < Len(coreOf) THEN bit ELSE Unbound)

AssignMain ==
  /\ pc = "workers"
  /\ i >= cores
  /\ AssignPhysicalCore(0)
  /\ i' = 0
  /\ pc' = "create"
  /\ UNCHANGED <<machine, cores, config, claimed>>

CreateWorker ==
  /\ pc = "create"
  /\ i < WorkerCount
  /\ AssignPhysicalCore(i + 1)
  /\ i' = i + 1
  /\ UNCHANGED <<machine, cores, pc, config, claimed>>

Next ==
  \/ DetectCores \/ MemoryConfigInitialize \/ AssertBudget \/ ReserveNothing
  \/ CommitContexts \/ InitializeThread \/ InitializeMain \/ InitializeWorker
  \/ AssignMain \/ CreateWorker

Spec == Init /\ [][Next]_vars

-----------------------------------------------------------------------------
(* Properties *)

(* No page belongs to two zones, even when every arena has grown to its    *)
(* maxCapacity, and every zone lies in the reserved master pool.           *)
FirstPage(z) == z.start \div pageSize
EndPage(z) == (z.end + pageSize - 1) \div pageSize

ZonesApart ==
  /\ \A y, z \in zones : y # z => \/ EndPage(y) <= FirstPage(z)
                                   \/ EndPage(z) <= FirstPage(y)
  /\ \A z \in zones : z.end <= MasterPoolSize

(* The lock budget announced to the system covers what is committed, on    *)
(* every machine (some of what it counts is never committed).              *)
BudgetCoversCommits ==
  pc \notin {"detect", "config", "assert"} => committed <= activeLockAllocation

(* Every thread that exists has a slice of the pool and a context.         *)
EveryThreadHasContext == \A k \in DOMAIN affinity : k - 1 \in DOMAIN slice

(* Two threads bound to processors are on different cores, whichever cores *)
(* have one logical processor and whichever have two, as long as the mask  *)
(* is wide enough.                                                         *)
Core(k) == coreOf[affinity[k] + 1]

BoundApart ==
  \A j, k \in DOMAIN affinity :
    (j # k /\ affinity[j] # Unbound /\ affinity[k] # Unbound) => Core(j) # Core(k)

BoundApartWithinMask == 2 * cores <= MaskBits => BoundApart

(* "physical core": a machine with two logical processors on each core has *)
(* every thread on a core of its own.                                      *)
AllBound == \A k \in DOMAIN affinity : affinity[k] # Unbound

(* The assertion at the end of MemoryConfig_Initialize.                    *)
AssertionHolds == pc = "assert" => activeLockAllocation <= globalPoolSize

(* What passes the assertion is within the "70% of total capacity".        *)
BudgetWithinAllowed ==
  pc \notin {"detect", "config", "assert", "aborted"}
    => activeLockAllocation <= maxAllowedPhysical

=============================================================================
