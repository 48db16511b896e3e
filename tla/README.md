# Verification of Project Delta

TLA+ models, TLC configurations and TLAPS proofs kept beside Project Delta, a
game engine in C++ for Windows on amd64. Every definition is translated from
the source; `PROJECT.json` ("map") names the lines each one stands for.

Short names used below: TC = `Engine/src/delta/core/ThreadContext.cpp`,
Worker = `.../core/Worker.cpp`, engine = `.../core/engine.cpp`,
os = `Engine/src/delta/platform/os_win32.cpp`.

## 1. The system

### Components

| component | state | operations | who calls them |
|---|---|---|---|
| task queue (TC:41-62, 196-267) | `top`, `bottom`, slots in one committed region | `Push`, `Pop`, `Steal` | main pushes and steals, worker *w* pops queue *w* |
| scheduler and workers (Worker:31-60, TC:269-314) | `isAsleep`, semaphore, `depCounter`, a loop per worker | `Scheduler_ProcessTaskBatch`, `Scheduler_Sync`, `WorkerProc` | the engine's client on the main thread; each worker |
| linear allocators (TC:323-361, engine:63-90) | `offset`, `capacity` of each arena, pages committed | `Allocate`, `Free`, reset, snapshot and restore | everybody, through `operator new` |
| memory map and budget (MemoryConfig.h/.cpp, TC:89-174) | `g_MemoryConfig`, the master pool | `MemoryConfig_Initialize`, `ThreadContext_Initialize` | `Engine::Initialize` |
| life cycle (engine:31-61, Worker:62-89) | threads, contexts, `tl_CurrentThreadContext` | `Initialize`, `Worker_Init`, `Update`, `Shutdown` | the launcher |
| launcher (Launcher/main.cpp) | module handle, three function pointers, `isRunning` | load, unload, reload, the frame loop | the user |
| DeltaTrigger (trigger.cpp) | a UDP socket on the loopback interface | `StartServer`, `CheckForSignal`, `Send` | launcher; developer's build |
| platform layer (os) | system handles, the count of cores | memory, thread, semaphore, affinity calls | all of the above |
| example game (HelloWorldGame/game.cpp) | none of its own | `Game_OnInit`, `Game_OnUpdate`, `Game_OnShutdown` | the launcher, through function pointers |

Shared state is what couples them: the queues are shared by the main thread
and one worker each, `isAsleep` and the semaphore wake a worker, the main
thread's transient arena carries both frame data and the start information of
threads, the master pool holds every context and is released by `Shutdown`,
the module file is shared by the launcher and the developer's linker.

### What is hard

* **Lock-free queue**: plain slot accesses between atomic index accesses; the
  last entry is contended; `bottom` runs one below `top` for a while.
* **Sleep and wake-up**: flag, semaphore and queue are three separate writes.
* **Arenas**: reset by frames, by idle workers and by `Scheduler_Sync`, while
  blocks are in use; zones of one thread are neighbours in the address space.
* **Start and shutdown**: threads start at a time of their own; nothing tells
  a worker to stop; the system may refuse the pool, a thread or a semaphore,
  and the code notices at a distance or not at all.
* **Hot reload**: signal, file and module change independently; signals get
  lost, merged, or come too early; loading can fail half way.
* **Unsigned arithmetic** in the memory budget, the count of workers and the
  affinity masks, all of which start from a count of cores that may be wrong.

`PROJECT.json` ("hazards") lists each place with its line, and the properties
that would catch it going wrong.

### What makes each component correct

* queue: a task is taken once, whole, and none is lost;
* scheduler: tasks go through it whole and once, a push that sees a sleeping
  worker wakes it, a synchronised client finds nothing queued and has all its
  tasks run, also those nobody was woken for;
* allocators: blocks in use never overlap, never leave their zone, survive
  the restoring of younger snapshots, and are backed by memory;
* memory map: zones are apart, the lock budget covers what is committed,
  every thread has a slice, no two threads are bound to one core;
* life cycle: one thread per context, every worker gets onto its own;
* launcher: no call into an unloaded module, no old module goes on
  unnoticed, every build is loaded;
* the process as a whole: the game is called only while the engine is up,
  frames go on, a game that wants to quit ends the process.

## 2. The modules

| module | models | composed of |
|---|---|---|
| `TaskBag` | abstract: what a queue promises | |
| `TaskQueue` | Push, Pop, Steal, one step per shared access | refines `TaskBag` |
| `Scheduler` | WorkerProc, ProcessTaskBatch, Sync | `Q == INSTANCE TaskQueue`, a queue per worker |
| `Arena` | ThreadArena_Allocate/Reset and all their callers | |
| `MemoryLayout` | the machine as the platform layer reports it, MemoryConfig_Initialize, ThreadContext_Initialize, the assignment of threads to cores | |
| `Lifecycle` | Initialize, Worker_Init, thread start, Update, Shutdown | |
| `Launcher` | Launcher/main.cpp, trigger.cpp, the developer | |
| `Process` | the launcher's process: main calls engine and game, workers run beside it | extends `Lifecycle`, `L == INSTANCE Launcher`; implements both |
| `TaskQueueProofs` | theorems on types and indices, lemmas for the callers of the queues | extends `TaskQueue` |
| `TaskQueueEntryProofs` | theorems on slots and tasks, the refinement of `TaskBag` | extends `TaskQueueProofs` |
| `SchedulerProofs` | theorems | extends `Scheduler`; `QP == INSTANCE TaskQueueEntryProofs` brings the queues' lemmas |
| `ArenaProofs`, `MemoryLayoutProofs`, `LifecycleProofs`, `LauncherProofs`, `ProcessProofs` | theorems | extend the module they are named after |
| `MC...` | values of the constants for TLC | extend the module |

Where a bug in the code would be one changed line, the module gives that line
an operator of its own, with a changed form before it marked as a mutant
(`Counted` and `Uncounted`, for example). The mutants
listed in `PROJECT.json` put the one in the place of the other; the property
they are listed for must then fail.

### TaskQueue

`pc[p]` is the place of thread `p` inside an operation, `on[p]` the queue it
works on, `locB`, `locT`, `fn`, `arg` its locals. `cell[q]` is the committed
region of a queue in pointer-sized cells: function slots start at cell 0,
payload slots at cell `QueueSize \div PtrSize`, because the code adds
`queue.size` *bytes* (TC:59). Index arithmetic is unbounded: a 64-bit index
does not wrap in practice. Atomic accesses are sequentially consistent. amd64
reorders only a store with a later load; inside `Pop` the fence at TC:221
forbids that, and `Push` and `Steal` have no such pair. `Run` has no step for a
thread that holds no function: it is lost, as the real one is.

`MayPush`, `MayPop`, `MaySteal` say who calls what. `OwnerOnly` with
`ThievesOnly` is the discipline a Chase-Lev queue is made for; `MainOnly` with
`OwnerOnly` is what the engine does. `MaxQueued` bounds the client, not the
code.

A task is in the bag of `TaskBag` from the store that publishes it until a
call returns it.

### Scheduler

Thread 0 is the main thread, worker *w* owns queue *w*. `mpc` and `wpc` are
the places in the scheduler's functions; inside a queue operation the place is
`pc`. `shouldClose` is never set by the code and therefore not a variable.
`linked` tells whether the queues point to a counter. `FALSE` is the code:
`depCounterPtr` is never stored, and the end of the first task a worker runs is
a fault that ends the process. `TRUE` is the code with that one assignment. `CounterLinks`
says which of the two are looked at; `sched_run` looks at both at once, so
whatever it checks holds of the code as it stands, up to the fault, and would
go on to hold if the pointer were stored.

Nothing in the repository calls the scheduler yet, so its client is external. With
`CautiousClient` it submits a batch only when every worker is `Idle`: its last `Pop`
found the queue empty, and it sleeps, or has still to store `isAsleep`. The code
enforces nothing of the kind; without it the race of `queue_race` shows at once
and hides everything else. The discipline keeps `Push` and `Pop` of one queue
apart and nothing more. In particular a push may come between a failed `Pop`
(Worker:44) and the store of `isAsleep` (Worker:52), and then its worker goes to sleep
on a task: `NoLostWakeup` says that this does not happen, and `sched_wakeup`
refutes it.

The order of tasks is of no consequence, so a push takes any task that was not
submitted (`NextItem`). `CounterModulus` stands for 2^32.

### Arena

An address is an offset in a thread's slice, which starts on a page, so that
`Base` is 0 for the transient arena and `ZoneSize` for the persistent one.
`blocks` is a history of what clients hold; the code keeps no such list.
`Reset` and `RestoreTo` end the use of the blocks they give away: a client that
keeps one breaks the allocator's contract. `Grow` has the inverted test of
`Memory_Lock` as it stands: success returns nullptr. `AssertsOn` tells a build
with assertions from one without; the safety runs and the theorems about
`ArenaInv` are about the former, in which an overflow stops the process.
`CommitCanFail` lets `Memory_Commit` return nullptr.

### MemoryLayout

A machine is `ram`, `pageSize` and `coreOf`, which gives the core of each logical
processor. `DetectCores` counts the cores, or none when the query of the
platform layer fails (its failure is only printed). From there on the code's
own arithmetic decides: the budget, the reservation (`VirtualAlloc` refuses a
size of 0, `ReserveNothing`), the slice and the zones of each thread, the number of
workers (`WorkerCount` wraps at `CountModulus`, 2^32 in the code), and the affinity
mask, which has the one bit `2 * coreIndex` modulo the width: the thread is bound
to that logical processor, or left `Unbound` where there is none and the system
refuses the mask.

Units of 512 bytes let the real constants fit TLC's integers; `SizeModulus`
stands for 2^64 and only has to exceed every true sum, so that a wrapped
difference is huge as in the code. An execution context is 384 bytes and takes
one unit. Zones that the code declares and never uses (component pool, scene
arena, IO, the worker's second transient zone) are not claimed.

### Lifecycle

`stage` and `i` are the main thread's place in the engine and in
`Worker_Init`'s loop. `args[w]` is the `ThreadCreateInfo` of worker *w*,
`Garbage` before it is filled in and once an allocation of a later frame may
have overwritten it. A new thread (`"created"`) starts whenever the system likes. With
`SystemMayFail` the system may refuse the pool (`PoolRefused`), any semaphore
(`semaphore[w]` is then a null handle, dereferenced when that worker first
sleeps), or any thread (`ThreadRefused`: the null handle goes straight to
`Thread_AssignPhysicalCore`). `Join` does not wait: `Thread_JoinMultiple` hands
the system pointers instead of handles, which it rejects at once; the result
is ignored. `Release` takes the pool away with all contexts in it, and a
worker that goes on faults. Any fault ends the process.

### Launcher

`disk` is the file at `modulePath`: absent, partial, or whole with a version
and the symbols it exports. The developer (external) builds in two steps and
then runs DeltaTrigger, and up to `MaxSignals` times at any other moment. The
socket holds `BufferSize` datagrams. The game may clear `isRunning` in `initFn` and in
`updateFn`; in `shutdownFn` it may too, but nobody reads it after. `FileLocked` is Windows,
where a loaded
module cannot be written; `FALSE` is the POSIX branch of the same source.

### Process

One state of `Process` is a state of the launcher and one of the engine.
`LauncherStep` are the launcher's own steps; in `InitializeEngine` main stays at its
call until the engine's last step, which returns; `UpdateEngine` is a single step of
both. In `ShutdownEngine` main goes through the engine's shutdown, and `MainReturns` is a
step of its own: between the release of the pool and the return of main a worker may
still run, and fault. `GameStep` is any of the game's three functions: the launcher's
part says what main does next, and the game may allocate transient memory
meanwhile. The example game only prints. A fault of any thread (`Faulted`), and main's
return, end everything.

## 3. What TLC checks

These runs are the ones listed in `PROJECT.json`:

| run | shows | bounds |
|---|---|---|
| `queue_owner` | each task once, whole, none lost; the inductive invariant `IndexInv` | owner, 2 thieves, 5 tasks on 4 slots so that indices wrap round; at most 2 queued, what the overlapping arrays bear |
| `queue_bag` | the queue implements a fair bag (`TaskBag`), every task is run | same, 3 tasks, no symmetry |
| `sched_run` | types, four safety invariants of the scheduler; a push that sees `isAsleep` wakes the worker; `Scheduler_Sync`, once called, gets all tasks run | 2 workers, 4 tasks in batches of 1 and 2, so that batches follow one another, on sleeping and on half-asleep workers, and a task can wait unseen while others are pushed; the counter pointer null or stored |
| `arena_blocks` | blocks apart, in their zone, snapshots nest; the inductive invariant `ArenaInv` | main and a worker, 2 blocks, 2-byte pages, zones of 6 and 5 bytes with 4 committed, requests of 1 and 5 bytes: growing, padding and overflow all occur; 2 nested syncs |
| `memory_layout` | zones share no page, the budget covers the commits, every thread has a slice, bound threads are on different cores | 276 machines: 6 sizes of memory from 2 to 64 GB, 23 topologies of 1 to 12 cores (all mixtures of one and two processors a core up to 4 cores), 4 KB and 64 KB pages, real zone sizes; the count of cores may fail on each; masks of 16 bits, so that 12 cores exceed them |
| `process_run` | one thread per context, the game only with the engine up; every worker starts, frames go on, the game can quit | 2 workers, 2 builds, 1 extra signal, a buffer of 1, a system that refuses anything; with 2 workers one can be late, or without a semaphore, while the other is not |
| `launcher_reload` | pointers belong to the loaded module, no stale frame, every complete build is loaded | 3 builds, 2 extra signals, a buffer of 2, so that signals are dropped, merged and early |
| `queue_race`, `queue_soa`, `arena_commit`, `memory_assert`, `launcher_stays_up` | counterexamples, see findings | the smallest instance that shows them |

The bounds are enough for the cases they are to contain: one queue has one
owner whatever the number of queues, and thieves only differ in where they
stand, so two of them give every pair of a winner and a loser; a third worker
or build repeats what the second can do. The theorems of section 4 remove the bounds where
it was possible.

`CHECK_DEADLOCK FALSE` is said only where the system really may stop: a thread
that runs a pointer that is no function (`queue_race`) or has used up its
tasks, a process ended by a fault or an assertion (`arena_*`, `memory_*`), a
process that has exited (`life_*`, `process_run`, `launcher_*`).

These runs took at most two minutes each on two cores.

### Fairness

* queue, scheduler: every thread goes on with the operation it is in, a
  worker's loop goes on, the main thread finishes the call it is in - threads of
  one process on a preemptive system. Nobody has to steal, submit or
  synchronise: `SyncRunsAll` speaks only of a `Scheduler_Sync` that was called.
* process: the main thread and each worker go on while the process lasts. No
  choice within a step is fair: the game need not quit, the system need not
  grant anything, and the developer may leave a build half done.
* launcher: the main thread is fair; a build that began ends and is followed
  by DeltaTrigger. Nobody has to build.

### Findings

Five runs expect a violation; each states what a comment, an assertion or
the repository's README says, and `PROJECT.json` ("findings") quotes it:

1. `queue_race`: main pushes to a queue that a worker pops; tasks are taken twice.
2. `queue_soa`: the payload array overlaps the task array (TC:59); in the trace a
   function pointer is pushed over the payload of an older entry.
3. `arena_commit`: blocks in uncommitted pages (TC:336).
4. `memory_assert`: 8 GB and 8 cores, all counted, fail the start-up assertion: the
   budget is 4352 MB, and 1382 MB are left of the 70%.
5. `launcher_stays_up`: a failed reload calls a null `shutdownFn`.

### Further configurations

Each of these repeats one question outside the list above. `queue_full`
passes: a client that overfills the queue gets one entry too many in, never
two. The others end in a counterexample:

| configuration | deviation it shows |
|---|---|
| `queue_full_guard` | a full queue takes one more entry, which overwrites the oldest (TC:201); TC:203 says "execute immadietely if the queue is full" |
| `sched_crash` | `depCounterPtr` is never stored and the first finished task dereferences null (Worker:47) |
| `sched_wakeup` | a push between a worker's failed `Pop` and its store of `isAsleep` signals nobody, and the worker sleeps with a task in its queue (Worker:44-52, TC:278-281). No document promises otherwise, and `SyncRunsAll` says what makes up for it |
| `arena_frame` | an idle worker resets its arena within a frame (Worker:51); the README promises "frame-based temporary storage" |
| `memory_allowed` | with too little memory the budget exceeds the "70% of total capacity" of MemoryConfig.cpp:29, and the assertion passes because the difference wraps |
| `memory_unbound` | without two logical processors on each core some threads get a mask the system refuses (os:338) |
| `memory_bound` | beyond half the width of the mask the shift wraps round and two threads share a core (os:338) |
| `life_frame` | a late thread reads its `ThreadCreateInfo` from storage of a past frame (Worker:69) |
| `life_release` | contexts are released under running workers, since the join never waits (os:387) |
| `life_handle` | the handle is stored after the thread may run (Worker:80); TC:159 says "Initialized when thread starts" |
| `launcher_locked` | the shadow copy is not what is loaded (Launcher/main.cpp:96): on Windows the next build does not get in. This one runs under `BuilderSpec`, a developer who keeps trying to build, which makes its counterexample stronger |

## 4. What is proved

For every value of the constants that satisfies the modules' assumptions and
the ones named here. Each proof has the same plan: the initial states satisfy an
inductive invariant, each action preserves it, and the property follows.

**TaskQueue, indices.** `TypeCorrect` holds whoever calls the operations. If each queue
has one owner that alone pushes and pops (`SingleOwner`), `IndicesAreSound` gives
`IndexInv` and `UncontendedPopIsSafe`: an entry that `Pop` takes without a CAS
is out of reach of every thief. That property is not inductive. It needs where
the owner's `b` stands relative to `bottom` (`OwnerKnowsBottom`), that `top`
passes `bottom` by at most one and only inside a `Pop` (`TopBehindBottom`), and
that a thief past its emptiness test either aims at a queued entry or will
fail its CAS (`StealAimsAtEntry`): together `IndexInv`. Its step needs of the
discipline only that no two threads are inside `Push` or `Pop` of one queue
(`OneInside`); `SingleOwner` is one way to see to that, and the scheduler's
client below is another. `PopOutcome` adds what the callers of the queues can
rely on: a `Pop` or a `Steal` that answers "empty" found the queue drained.

**TaskQueue, entries.** `EntriesAreSound` states the inductive invariant of the
tasks themselves, `EntryInv`: each task submitted is in exactly one place - in
one hand, in one live slot, or run (`OnePlace`), and a thread that is between two
accesses to a slot reads or writes the two halves of one entry (`SlotsRead` and
its companions). From it follow `WholeTasksOnly`, `NoTaskTwice`, `NoTaskLost`, and,
step by step, `QueueIsABag`: the refinement of `TaskBag`, without its fairness.
Three assumptions:

* `SingleOwner`, the discipline of a Chase-Lev queue. The engine's use is not
  of that kind (main pushes what a worker pops), and `queue_race` shows what
  comes of it when nothing else keeps the two apart;
* `PtrSize >= 2` and `MaxQueued <= QueueSize \div PtrSize`: since the payload
  array starts `QueueSize \div PtrSize` cells behind the task array, so many
  entries never share a cell, neither with each other nor across the two arrays
  (`SlotsApart`), and while a thread pushes there is room for one more (`Room`).
  `queue_soa` shows that more entries do. With pointers of 8 bytes the
  bound is an eighth of the slots;
* the assumption of the module that no task is the null pointer.

**Scheduler.** `TypeCorrect`, and `SchedulerIsAClient` - the scheduler touches its
queues only as `TaskQueue` lets its callers - hold for every client. The others hold for
the cautious client, if it submits no more tasks at
once than there are workers (`Cautious`). That is a real boundary, not a
convenience: a longer batch comes round to a worker that it has already woken, which may
be inside `Pop` when `Push` changes the same `bottom`, and then `queue_race`
repeats itself. `SchedulerIsSound` proves the inductive invariant `SchedInv`:

* `Control`: where each thread can be - a worker pops its own queue from its
  loop only, main pushes to `Target` or steals from `workerIx`, and the workers
  the loop of `ProcessTaskBatch` has not come to are still quiet: they sleep, or
  are about to (`OthersQuiet`). So the target of a push is in no queue
  operation, though it may store `isAsleep` at any moment, and no two threads are
  ever inside `Push` or `Pop` of one queue;
* `QueueInv`: `IndexInv`, `PopOutcome` and `EntryInv` of the queues, which are kept by
  the lemmas above, since `QueueStep` maps each step of the scheduler to a step
  of the queues;
* `Entries`: a queue has at most one entry, the queues a batch has yet to come to
  are drained (`AheadDrained`), so `Push` finds its queue drained, and the queues that
  `Scheduler_Sync` has counted as empty are drained and stay so until a push.

From it: `SchedulerHandsOutWhole`, `SchedulerRunsOnce`, `SchedulerIsABag` (the
refinement of `TaskBag` again, now by the scheduler as a whole), and
`SyncDrainsQueues`. None of them rests on `linked`. Since a queue never holds more than one entry, `PtrSize >= 2` is all
that is left of the assumption on sizes. `CounterNeverShort` adds `CounterInv`:
the counter is at least the tasks of the batch that have not run, those still to
be pushed, and the workers between the end of a task and their
`fetch_sub`. It needs `WorkerCount < CounterModulus`, or the count of a batch
would wrap. A task that `Scheduler_Sync` itself runs is never counted down: the
counter can only be too high, never too low.

**Arena.** `TypeCorrect` always; with assertions on, `ArenaInvariance`, and from it
`BlocksAreApart`, `BlocksStayInZone` and `SnapshotsAreNested`. `ArenaInv` adds
to them that blocks lie below their arena's offset, offsets in their zone, and
snapshots ascend below the offset. Growing may fail or return nullptr at any
time: the theorems do not need committed memory, which is just what
`arena_commit` refutes.

**MemoryLayout.** `ThreadsHaveContexts`: by `LayoutInv`, the loops have got as far
as the slices and the affinities say, and a pool can be reserved only when a core
was counted, so the wrapped number of workers is never reached.
`ThreadsBoundApart` needs that the system numbers the siblings of a core one after
the other, two at most (`SiblingsAdjacent`), and that the mask is wide enough.
`ZonesDoNotMeet`, for pages that divide 1 GB (those of amd64 do): `ZonesKnown` lists all
zones there can be - the array of contexts, and for each thread its transient
arena and what lies above it - and where the runway cursor stands; between any two
of them lies the start of a page (`SlicesOnPages`, `PageBetween`), since the array is
rounded up to a page and all offsets are multiples of 1 GB.
`BudgetIsEnough`, for pages of at most 1 GB: `CommittedSoFar` says what is
committed after each step; the 2 GB that the budget counts for the persistent
arena and the code never commits is what absorbs the rounding of the contexts.

**Lifecycle.** `ContextsAreOwn` from `LifecycleInv`: a
worker is told its own context or garbage (`OwnContext`), infos of created
threads are intact until the first `Update` (`InfoLastsFrame`), and the place in
`Worker_Init` tells which threads there are (`CreatedInOrder`).

**Launcher.** `PointersAreValid`, `LoopIsSafe` and `NoBuildUnnoticed` from
`LauncherInv`, whose core is `SignalOnItsWay`: from a load to the next unload,
if the module is not the one on disk then a build is under way, a datagram is
in the buffer, or one has just been received. Since a datagram is dropped only when the
buffer is full, `BufferSize` does not matter.

**Process.** `ProcessImplementsParts`: each step of the process is a step, or a
stutter, of `Lifecycle` and of `Launcher`, so that their theorems hold in the process
(`WorkersInProcess` states one of them). `GameIsServed` adds the one fact that
neither part has: while main is past `Initialize` and before `Shutdown`, the
engine's `stage` is `"up"` (`EngineUp`).

TLC checked the invariants that carry these proofs, `SchedInv` and `ZonesKnown` among
them, on the constants of the runs before they were proved. Every invariant of a passing
run is stated by a theorem. Only model-checked: everything with fairness, which the
prover cannot handle -
`ImplementsFairBag` beyond its safety part, `EveryTaskRuns`, `SleeperIsWoken`, `SyncRunsAll`, `EveryWorkerStarts`, `GameCanQuit`, `FramesGoOn` and `BuildsAreLoaded`.

## 5. Not modelled

Timers (conversions nothing calls after initialisation), thread names (for a
debugger only), CPU features and strings, compiler macros, precompiled headers
and build files have no state another part depends on. The privilege and the
working set limit that `Memory_Lock` needs are requested at start-up and their
failure only printed; the effect, a lock that fails, is in `Arena`. Platform
functions that nobody calls (`Memory_Decommit`, `Thread_Join`,
`Sync_DestroySemaphore`) are left out.

Within modelled parts:

* the heap: `malloc` for threads without a context, and `free` for pointers
  outside the pool (`Free`'s range test includes the byte after the pool);
* a machine with one core, on which `Scheduler_ProcessTaskBatch` would divide by
  zero: `Scheduler` assumes a worker;
* the semaphore's limit of 1000000 and `size_t` wrap-around of one huge request;
* memory orders weaker than amd64 gives (the README of the engine names arm64
  as a candidate), and two store buffers of amd64: main's, in which the `bottom` of a
  `Push` may still be when `isAsleep` is loaded, one more way to lose a
  wake-up; and that of a worker whose failed `Pop` has just restored `bottom`,
  which counts as `Idle` only once that store can be seen;
* the launcher's command line: without `argv[1]` main returns at once, just as
  when `StartServer` fails.

## 6. Plan

Done: all parts with state of their own, their composition in a process, and
a theorem for each invariant the runs check. Next, in this order:

1. Proofs: what holds of the scheduler for a client that is not cautious, beyond
   its types; the action properties behind the liveness runs (a task that was run
   stays run, a sleeping worker wakes only by a token).
2. Models: main's store buffer; the heap path.
