------------------------------- MODULE Arena -------------------------------
(***************************************************************************)
(* The linear allocators: ThreadArena_Allocate and ThreadArena_Reset of    *)
(* ThreadContext.cpp, with their callers Allocate, Free and Update of      *)
(* engine.cpp, the snapshot that Scheduler_Sync takes around a task and    *)
(* the reset of an idle worker.                                            *)
(*                                                                         *)
(* Every thread has a slice of reserved addresses.  Its transient arena    *)
(* stands at the start of the slice; the main thread's persistent arena,   *)
(* or a worker's task queue, comes right after it.  Addresses are offsets  *)
(* in the slice, which starts on a page.                                   *)
(***************************************************************************)
EXTENDS Integers, Sequences

CONSTANTS
  Workers,      \* the worker threads
  Main,         \* the main thread
  Ids,          \* names for blocks in use: a bound on how many are
  PageSize,
  Baseline,     \* bytes of an arena that are committed at the start
  ZoneSize,     \* maxCapacity of the transient arena (VIRT_ZONE_TA_SIZE)
  PersistentZone,  \* maxCapacity of the persistent one (VIRT_ZONE_PS_SIZE)
  Sizes,        \* the sizes, and the alignments, that are asked for
  Alignments,
  MaxDepth,     \* a bound: how deep tasks call Scheduler_Sync in one another
  CommitCanFail,   \* may Memory_Commit return nullptr?
  AssertsOn     \* a build with assertions, where an overflown arena aborts

ASSUME ArenaAssumption ==
  /\ Main \notin Workers
  /\ PageSize \in Nat \ {0}
  /\ Baseline \in Nat \ {0}
  /\ ZoneSize \in Nat /\ Baseline <= ZoneSize
  /\ PersistentZone \in Nat /\ Baseline <= PersistentZone
  /\ Sizes \in SUBSET (Nat \ {0})
  /\ Alignments \in SUBSET (Nat \ {0})
  /\ MaxDepth \in Nat
  /\ CommitCanFail \in BOOLEAN
  /\ AssertsOn \in BOOLEAN

Threads == Workers \cup {Main}
Transient(p) == <<p, "transient">>
Persistent == <<Main, "persistent">>
Arenas == {Transient(p) : p \in Threads} \cup {Persistent}

VARIABLES
  offset, capacity,   \* of each arena
  committed,   \* the pages of each thread's slice that are committed
  blocks,      \* the blocks in use
  saved,       \* snapshots of the main thread's Scheduler_Sync calls
  inTask,      \* is the worker running a task?
  frame,       \* changes when Update ends a frame
  aborted      \* an assertion failed

vars == <<offset, capacity, committed, blocks, saved, inTask, frame, aborted>>

(* backingMemory and maxCapacity of an arena *)
Base(a) == IF a = Persistent THEN ZoneSize ELSE 0
MaxCapacity(a) == IF a = Persistent THEN PersistentZone ELSE ZoneSize

PagesOf(start, bytes) == {n \in 0 .. (start + bytes) \div PageSize :
                            n * PageSize < start + bytes /\ (n + 1) * PageSize > start}

Init ==
  /\ offset = [a \in Arenas |-> 0]
  /\ capacity = [a \in Arenas |-> Baseline]
  /\ committed = [p \in Threads |->
                    PagesOf(0, Baseline)
                      \cup IF p = Main THEN PagesOf(ZoneSize, Baseline) ELSE {}]
  /\ blocks = {}
  /\ saved = <<>>
  /\ inTask = [w \in Workers |-> FALSE]
  /\ frame = 0
  /\ aborted = FALSE

-----------------------------------------------------------------------------
(* ThreadArena_Allocate *)

(* alignedAddress - currentAddress *)
Padding(address, alignment) == (alignment - (address % alignment)) % alignment

PageAlign(bytes) == bytes + Padding(bytes, PageSize)

(* The pointer goes to the client, which uses size bytes from it.          *)
HandOut(a, id, start, size) ==
  blocks' = blocks \cup
    {[id |-> id, arena |-> a, start |-> start, end |-> start + size,
      depth |-> IF a = Transient(Main) THEN Len(saved) ELSE 0]}

(* Mutants: the offset leaves the padding out, or goes the wrong way.       *)
OffsetUnpadded(a, padding, size) == offset[a] + size
OffsetDown(a, padding, size) == offset[a] - padding - size
NewOffset(a, padding, size) == offset[a] + padding + size

Bump(a, id, padding, size) ==
  /\ offset' = [offset EXCEPT ![a] = NewOffset(a, padding, size)]
  /\ HandOut(a, id, Base(a) + offset[a] + padding, size)

(* Mutant: the test forgets the offset, as the one for capacity does.      *)
OverflownAlone(a, total) == total > MaxCapacity(a)

Overflown(a, total) == offset[a] + total > MaxCapacity(a)

(* More pages are committed; the test of Memory_Lock is that of the code:  *)
(* when the new pages can be locked, nullptr is returned.                  *)
Grow(a, id, padding, size) ==
  LET bytesNeeded == padding + size - capacity[a]
      spaceInPages == PageAlign(bytesNeeded) * 2
      pages == PagesOf(Base(a) + capacity[a], spaceInPages)
  IN \E commits, locks \in BOOLEAN :
       /\ commits \/ CommitCanFail
       /\ committed' = IF commits
                       THEN [committed EXCEPT ![a[1]] = @ \cup pages]
                       ELSE committed
       /\ IF commits /\ locks
          THEN UNCHANGED <<offset, capacity, blocks>>
          ELSE /\ capacity' = [capacity EXCEPT ![a] = @ + spaceInPages]
               /\ Bump(a, id, padding, size)

ThreadArenaAllocate(a, id, size, alignment) ==
  LET padding == Padding(Base(a) + offset[a], alignment)
      total == padding + size
  IN /\ \A b \in blocks : b.id # id
     /\ \/ /\ Overflown(a, total) /\ AssertsOn
           /\ aborted' = TRUE
           /\ UNCHANGED <<offset, capacity, committed, blocks>>
        \/ /\ Overflown(a, total) => ~ AssertsOn
           /\ IF total > capacity[a]
              THEN Grow(a, id, padding, size)
              ELSE Bump(a, id, padding, size) /\ UNCHANGED <<capacity, committed>>
           /\ UNCHANGED aborted
     /\ UNCHANGED <<saved, inTask, frame>>

-----------------------------------------------------------------------------
(* The callers.  Free of an arena's block does nothing but end its use.    *)

AllocateTransient(p, id, size, alignment) ==
  /\ p \in Workers => inTask[p]
  /\ ThreadArenaAllocate(Transient(p), id, size, alignment)

AllocatePersistent(id, size, alignment) ==
  ThreadArenaAllocate(Persistent, id, size, alignment)

(* "Workers cannot allocate persistent memory": an assertion, then nullptr. *)
PersistentOnWorker(w) ==
  /\ inTask[w]
  /\ aborted' = AssertsOn
  /\ UNCHANGED <<offset, capacity, committed, blocks, saved, inTask, frame>>

Free(b) ==
  /\ blocks' = blocks \ {b}
  /\ UNCHANGED <<offset, capacity, committed, saved, inTask, frame, aborted>>

(* ThreadArena_Reset: the offset goes back, and no block is in use.        *)
Reset(p) ==
  /\ offset' = [offset EXCEPT ![Transient(p)] = 0]
  /\ blocks' = {b \in blocks : b.arena # Transient(p)}

(* Engine::Update, on the main thread, outside any task.                   *)
Update ==
  /\ saved = <<>>
  /\ Reset(Main)
  /\ frame' = 1 - frame
  /\ UNCHANGED <<capacity, committed, saved, inTask, aborted>>

(* WorkerProc: a task begins, ends, or Pop finds no task.                  *)
WorkerTask(w) ==
  /\ inTask' = [inTask EXCEPT ![w] = ~ @]
  /\ UNCHANGED <<offset, capacity, committed, blocks, saved, frame, aborted>>

WorkerIdle(w) ==
  /\ ~ inTask[w]
  /\ Reset(w)
  /\ UNCHANGED <<capacity, committed, saved, inTask, frame, aborted>>

(* Scheduler_Sync: snapshot, task, restore.  A task may call it again.     *)
SyncTaskBegins ==
  /\ Len(saved) < MaxDepth
  /\ saved' = Append(saved, offset[Transient(Main)])
  /\ UNCHANGED <<offset, capacity, committed, blocks, inTask, frame, aborted>>

RestoreTo(snapshot) ==
  /\ offset' = [offset EXCEPT ![Transient(Main)] = snapshot]
  /\ blocks' = {b \in blocks :
                  ~ (b.arena = Transient(Main) /\ b.depth = Len(saved))}
  /\ saved' = SubSeq(saved, 1, Len(saved) - 1)

(* Mutant: the outermost snapshot is restored.                             *)
Outermost == saved[1]
Innermost == saved[Len(saved)]

SyncTaskEnds ==
  /\ saved # <<>>
  /\ RestoreTo(Innermost)
  /\ UNCHANGED <<capacity, committed, inTask, frame, aborted>>

Next ==
  /\ ~ aborted
  /\ \/ \E p \in Threads, id \in Ids, size \in Sizes, alignment \in Alignments :
          AllocateTransient(p, id, size, alignment)
     \/ \E id \in Ids, size \in Sizes, alignment \in Alignments :
          AllocatePersistent(id, size, alignment)
     \/ \E w \in Workers : PersistentOnWorker(w) \/ WorkerTask(w) \/ WorkerIdle(w)
     \/ \E b \in blocks : Free(b)
     \/ Update
     \/ SyncTaskBegins
     \/ SyncTaskEnds

Spec == Init /\ [][Next]_vars

-----------------------------------------------------------------------------
(* Properties *)

Block == [id : Ids, arena : Arenas, start : Nat, end : Nat, depth : Nat]

TypeOK ==
  /\ offset \in [Arenas -> Nat]
  /\ capacity \in [Arenas -> Nat]
  /\ committed \in [Threads -> SUBSET Nat]
  /\ blocks \in SUBSET Block
  /\ saved \in Seq(Nat)
  /\ inTask \in [Workers -> BOOLEAN]
  /\ frame \in {0, 1}
  /\ aborted \in BOOLEAN

(* Two blocks in use never share a byte, whatever was reset, restored or   *)
(* allocated in between, also when they come from neighbouring arenas.     *)
LiveBlocksDisjoint ==
  \A b, c \in blocks :
    (b # c /\ b.arena[1] = c.arena[1]) => b.end <= c.start \/ c.end <= b.start

(* A block never reaches out of its arena's zone, into the persistent      *)
(* arena of the main thread or the task queue of a worker.                 *)
BlocksInZone ==
  \A b \in blocks :
    /\ Base(b.arena) <= b.start
    /\ b.end <= Base(b.arena) + MaxCapacity(b.arena)

(* Restoring a snapshot gives no block away that is older than it.         *)
SnapshotsNest ==
  \A b \in blocks : b.arena = Transient(Main) =>
    /\ b.depth <= Len(saved)
    /\ \A d \in b.depth + 1 .. Len(saved) : b.end <= saved[d]

(* What these three rest on: blocks lie below their arena's offset, and    *)
(* the snapshots below the offset too, the older ones lower.               *)
BlocksBelowOffset ==
  \A b \in blocks : b.start <= b.end /\ b.end <= Base(b.arena) + offset[b.arena]

OffsetsInZone == \A a \in Arenas : offset[a] <= MaxCapacity(a)

SavedAscend ==
  /\ \A d \in 1 .. Len(saved) : saved[d] <= offset[Transient(Main)]
  /\ \A d, e \in 1 .. Len(saved) : d <= e => saved[d] <= saved[e]

ArenaInv ==
  /\ BlocksBelowOffset
  /\ OffsetsInZone
  /\ SavedAscend
  /\ LiveBlocksDisjoint
  /\ BlocksInZone
  /\ SnapshotsNest

(* "We don't allow accessing uncommitted memory": a block handed out is    *)
(* backed by committed pages.                                              *)
BlocksCommitted ==
  \A b \in blocks : PagesOf(b.start, b.end - b.start) \subseteq committed[b.arena[1]]

(* "Frame-based temporary storage": what a worker's task left in its       *)
(* transient arena is not given to others before the frame ends.           *)
WorkerStorageLastsFrame ==
  [][\A b \in blocks :
       (b.arena[1] \in Workers /\ offset'[b.arena] < b.end) => frame' # frame]_vars

=============================================================================
