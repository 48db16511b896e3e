----------------------------- MODULE Lifecycle -----------------------------
(***************************************************************************)
(* The engine from Initialize to Shutdown: the thread contexts are claimed,*)
(* Worker_Init creates the worker threads from a ThreadCreateInfo array in *)
(* the main thread's transient arena, the threads start whenever the       *)
(* system likes, Update resets that arena every frame, and Shutdown joins  *)
(* the workers and releases the master pool with every context in it.      *)
(* Nothing is submitted, so a worker that runs finds no task and sleeps.   *)
(***************************************************************************)
EXTENDS Naturals

CONSTANTS
  WorkerCount,
  SystemMayFail   \* may the system refuse memory, threads and semaphores?

ASSUME LifecycleAssumption ==
  /\ WorkerCount \in Nat \ {0}
  /\ SystemMayFail \in BOOLEAN

Main == 0
Workers == 1 .. WorkerCount
Threads == 0 .. WorkerCount

VARIABLES
  stage, i,   \* where the main thread is in the engine, Worker_Init's index
  pool,       \* the master pool: "none", "held" or "released"
  args,       \* the context in each ThreadCreateInfo, Garbage if overwritten
  inFrame,    \* are the infos still live storage of the current frame?
  handle,     \* ctx.threadHandle of each worker: is it set?
  semaphore,  \* ctx.sleepSemaphore of each worker: is it not null?
  thread,     \* each worker thread
  current     \* tl_CurrentThreadContext of each thread, None if null

contexts == <<handle, semaphore>>
infos == <<args, inFrame>>
workers == <<thread, current>>
vars == <<stage, i, pool, infos, contexts, workers>>

None == WorkerCount + 1
Garbage == WorkerCount + 2

Init ==
  /\ stage = "down"
  /\ i = 0
  /\ pool = "none"
  /\ args = [w \in Workers |-> Garbage]
  /\ inFrame = FALSE
  /\ handle = [w \in Workers |-> FALSE]
  /\ semaphore = [w \in Workers |-> FALSE]
  /\ thread = [w \in Workers |-> "none"]
  /\ current = [p \in Threads |-> None]

(* An access through a null or released pointer ends the process.          *)
Fault(w) == thread' = [thread EXCEPT ![w] = "faulted"]
Faulted == stage = "faulted" \/ \E w \in Workers : thread[w] = "faulted"

-----------------------------------------------------------------------------
(* Engine::Initialize.  Without a pool it fails an assertion or writes to  *)
(* a null pointer; a null semaphore is stored like any other.              *)

InitializeContexts ==
  /\ stage = "down"
  /\ stage' = "create"
  /\ pool' = "held"
  /\ inFrame' = TRUE
  /\ semaphore' \in IF SystemMayFail THEN [Workers -> BOOLEAN] ELSE [Workers -> {TRUE}]
  /\ current' = [current EXCEPT ![Main] = Main]
  /\ UNCHANGED <<i, args, handle, thread>>

PoolRefused ==
  /\ stage = "down"
  /\ SystemMayFail
  /\ stage' = "faulted"
  /\ UNCHANGED <<i, pool, infos, contexts, workers>>

(* The context of Worker_Init's k-th thread, and the info worker w reads.  *)
(* Mutants: the index is the loop's; there is one info for all threads.    *)
ContextAtLoopIndex(k) == k
ContextFor(k) == k + 1

SharedInfo(w) == 1
Info(w) == w

CreateThread ==
  /\ stage = "create"
  /\ i < WorkerCount
  /\ args' = [args EXCEPT ![Info(i + 1)] = ContextFor(i)]
  /\ thread' = [thread EXCEPT ![i + 1] = "created"]
  /\ stage' = "store"
  /\ UNCHANGED <<i, pool, inFrame, contexts, current>>

(* Thread_Create returns nullptr, and Thread_AssignPhysicalCore is handed  *)
(* that.                                                                   *)
ThreadRefused ==
  /\ stage = "create"
  /\ i < WorkerCount
  /\ SystemMayFail
  /\ args' = [args EXCEPT ![Info(i + 1)] = ContextFor(i)]
  /\ stage' = "faulted"
  /\ UNCHANGED <<i, pool, inFrame, contexts, workers>>

(* The new thread may run before its handle is stored.                     *)
StoreHandle ==
  /\ stage = "store"
  /\ handle' = [handle EXCEPT ![i + 1] = TRUE]
  /\ i' = i + 1
  /\ stage' = "create"
  /\ UNCHANGED <<pool, infos, semaphore, workers>>

InitializeSteps ==
  InitializeContexts \/ PoolRefused \/ CreateThread \/ ThreadRefused \/ StoreHandle

InitializeReturns ==
  /\ stage = "create"
  /\ i = WorkerCount
  /\ stage' = "up"
  /\ UNCHANGED <<i, pool, infos, contexts, workers>>

-----------------------------------------------------------------------------
(* The frames.  Update ends one: the arena's offset goes back to 0, and    *)
(* from then on an allocation of the game may overwrite the infos.         *)

Update ==
  /\ stage = "up"
  /\ inFrame' = FALSE
  /\ UNCHANGED <<stage, i, pool, args, contexts, workers>>

AllocateTransient ==
  /\ stage = "up"
  /\ ~ inFrame
  /\ \E k \in Workers : args' = [w \in Workers |-> IF w <= k THEN Garbage ELSE args[w]]
  /\ UNCHANGED <<stage, i, pool, inFrame, contexts, workers>>

-----------------------------------------------------------------------------
(* A worker thread: DeltaThreadProc reads the info, WorkerProc sets the    *)
(* thread's context, reads shouldClose and the queue, and blocks on the    *)
(* semaphore of that context; all but the blocking is done in the pool.    *)

ThreadStarts(w) ==
  /\ thread[w] = "created"
  /\ IF args[Info(w)] = Garbage \/ pool = "released"
     THEN Fault(w) /\ UNCHANGED current
     ELSE /\ thread' = [thread EXCEPT ![w] = "running"]
          /\ current' = [current EXCEPT ![w] = args[Info(w)]]
  /\ UNCHANGED <<stage, i, pool, infos, contexts>>

WorkerSleeps(w) ==
  /\ thread[w] = "running"
  /\ IF pool = "released" \/ ~ semaphore[current[w]]
     THEN Fault(w)
     ELSE thread' = [thread EXCEPT ![w] = "asleep"]
  /\ UNCHANGED <<stage, i, pool, infos, contexts, current>>

Worker(w) == ThreadStarts(w) \/ WorkerSleeps(w)

-----------------------------------------------------------------------------
(* Engine::Shutdown *)

CallShutdown ==
  /\ stage = "up"
  /\ stage' = "join"
  /\ UNCHANGED <<i, pool, infos, contexts, workers>>

(* Thread_JoinMultiple passes pointers to Thread objects where the system  *)
(* wants handles: the wait fails at once, and its result is not looked at. *)
(* Mutant: the join waits until every thread has ended.                    *)
JoinWaits == \A w \in Workers : thread[w] = "ended"
JoinDone == TRUE

Join ==
  /\ stage = "join"
  /\ JoinDone
  /\ stage' = "release"
  /\ UNCHANGED <<i, pool, infos, contexts, workers>>

Release ==
  /\ stage = "release"
  /\ pool' = "released"
  /\ stage' = "gone"
  /\ UNCHANGED <<i, infos, contexts, workers>>

Engine ==
  \/ InitializeSteps \/ InitializeReturns
  \/ Update \/ AllocateTransient
  \/ CallShutdown \/ Join \/ Release

Next == ~ Faulted /\ (Engine \/ \E w \in Workers : Worker(w))

Spec == Init /\ [][Next]_vars

-----------------------------------------------------------------------------
(* Properties *)

TypeOK ==
  /\ stage \in {"down", "create", "store", "up", "join", "release", "gone", "faulted"}
  /\ i \in 0 .. WorkerCount
  /\ pool \in {"none", "held", "released"}
  /\ args \in [Workers -> Workers \cup {Garbage}]
  /\ inFrame \in BOOLEAN
  /\ handle \in [Workers -> BOOLEAN]
  /\ semaphore \in [Workers -> BOOLEAN]
  /\ thread \in [Workers -> {"none", "created", "running", "asleep", "faulted"}]
  /\ current \in [Threads -> Threads \cup {None}]

(* No two threads ever run on one context, however late a thread starts    *)
(* while Worker_Init goes on filling in the next thread's information.     *)
OneThreadPerContext ==
  \A p, q \in Threads : (p # q /\ current[p] = current[q]) => current[p] = None

(* "Frame-based temporary storage": no thread is still to read transient   *)
(* storage of a frame that has ended.                                      *)
TransientReadWithinFrame ==
  \A w \in Workers : thread[w] = "created" => inFrame

(* "threadHandle ... Initialized when thread starts": a worker that runs    *)
(* finds its handle in its context.                                        *)
HandleSetWhenRunning ==
  \A w \in Workers : thread[w] = "running" => handle[w]

(* A finished Worker API: no worker is running when the pool with its      *)
(* context is released.                                                    *)
ReleasedAfterJoin ==
  pool = "released" => \A w \in Workers : thread[w] # "running"

=============================================================================
