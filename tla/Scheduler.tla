----------------------------- MODULE Scheduler -----------------------------
(***************************************************************************)
(* The task scheduler: WorkerProc of Worker.cpp on every worker thread,    *)
(* Scheduler_ProcessTaskBatch and Scheduler_Sync of ThreadContext.cpp on   *)
(* the main thread, composed with the task queue of each worker.  Thread 0 *)
(* is the main thread; worker w owns queue w, sleeps on its own semaphore  *)
(* and tells by isAsleep that it does.                                     *)
(*                                                                         *)
(* Which calls the main thread makes is the engine's client.  It may call  *)
(* either function at any time, or, with CautiousClient, submit only when  *)
(* every worker is idle: it has found its queue empty and is going to      *)
(* sleep, or sleeps.  That keeps Push and Pop of one queue apart; it does  *)
(* not keep a push away from a worker that has yet to store isAsleep.      *)
(***************************************************************************)
EXTENDS Integers, FiniteSets

CONSTANTS
  WorkerCount,     \* g_WorkerCount
  Items, NULL, QueueSize, PtrSize,
  BatchLengths,    \* the lengths of the batches the client submits
  CautiousClient,  \* the client's discipline, see above
  CounterLinks,    \* may queue.depCounterPtr point to the counter?  {FALSE}
                   \* is the code: InitializeQueue never stores the pointer
  CounterModulus   \* 2^32 in the code: the counter is a uint32_t

ASSUME SchedulerAssumption ==
  /\ WorkerCount \in Nat \ {0}
  /\ QueueSize \in Nat \ {0}
  /\ PtrSize \in Nat \ {0}
  /\ QueueSize % PtrSize = 0
  /\ NULL \notin {"fn", "arg"} \X Items
  /\ BatchLengths \in SUBSET Nat
  /\ CautiousClient \in BOOLEAN
  /\ CounterLinks \in SUBSET BOOLEAN
  /\ CounterModulus \in Nat \ {0}

Main == 0
Workers == 1 .. WorkerCount
Threads == 0 .. WorkerCount

VARIABLES
  top, bottom, cell, submitted, runs, pc, on, locB, locT, fn, arg,
                \* the queues and the threads inside their operations
  wpc,          \* where each worker is in WorkerProc
  isAsleep,     \* ctx.isAsleep of each worker
  tokens,       \* the count of each worker's semaphore
  mpc,          \* where the main thread is in the Scheduler_ function
  length, i,    \* Scheduler_ProcessTaskBatch's parameter and loop index
  workerIx, consecutiveEmptyQueues,   \* Scheduler_Sync's locals
  depCounter,   \* the counter in the main thread's context
  linked,       \* do the queues point to it?
  batch,        \* the items of the last batch
  faulted       \* the process was ended by an access violation

queueVars == <<top, bottom, cell, submitted, runs, pc, on, locB, locT, fn, arg>>
workerVars == <<wpc, isAsleep>>
batchVars == <<length, i, batch>>
syncVars == <<workerIx, consecutiveEmptyQueues>>
mainVars == <<mpc, batchVars, syncVars>>
vars == <<queueVars, workerVars, tokens, mainVars, depCounter, linked, faulted>>

Q == INSTANCE TaskQueue WITH
       Queues <- Workers,
       MaxQueued <- QueueSize + 2,   \* never reached: Push is not held up
       MayPush <- [w \in Workers |-> {Main}],
       MayPop <- [w \in Workers |-> {w}],
       MaySteal <- [w \in Workers |-> {Main}]

(* The queue operation or the task a thread was in has come to its end.    *)
Returned(p) == pc[p] \in Q!Ready

Init ==
  /\ Q!Init
  /\ wpc = [w \in Workers |-> "loop"]
  /\ isAsleep = [w \in Workers |-> FALSE]
  /\ tokens = [w \in Workers |-> 0]
  /\ mpc = "client"
  /\ length = 0
  /\ i = 0
  /\ workerIx = 1
  /\ consecutiveEmptyQueues = 0
  /\ depCounter = 0
  /\ linked \in CounterLinks
  /\ batch = {}
  /\ faulted = FALSE

(* A step of a queue operation, or the task a thread runs.                 *)
Operate(p) ==
  /\ Q!Inside(p)
  /\ UNCHANGED <<workerVars, tokens, mainVars, depCounter, linked, faulted>>

-----------------------------------------------------------------------------
(* WorkerProc.  shouldClose is FALSE for ever: nothing in the code sets it. *)

GoWorker(w, label) == wpc' = [wpc EXCEPT ![w] = label]

CallPop(w) ==
  /\ wpc[w] = "loop"
  /\ Q!PopBegin(w, w)
  /\ GoWorker(w, "popping")
  /\ UNCHANGED <<isAsleep, tokens, mainVars, depCounter, linked, faulted>>

(* After task(payload): fetch_sub through the queue's counter pointer,     *)
(* which as the code stands is null.                                       *)
CountDown(w) ==
  /\ wpc[w] = "popping"
  /\ pc[w] = "idle"
  /\ GoWorker(w, "loop")
  /\ IF linked
     THEN /\ depCounter' = (depCounter - 1) % CounterModulus
          /\ UNCHANGED faulted
     ELSE faulted' = TRUE /\ UNCHANGED depCounter
  /\ UNCHANGED <<queueVars, isAsleep, tokens, mainVars, linked>>

FallAsleep(w) ==
  /\ wpc[w] = "popping"
  /\ pc[w] = "empty"
  /\ isAsleep' = [isAsleep EXCEPT ![w] = TRUE]
  /\ GoWorker(w, "waiting")
  /\ UNCHANGED <<queueVars, tokens, mainVars, depCounter, linked, faulted>>

(* Sync_WaitSemaphore *)
TakeToken(w) ==
  /\ wpc[w] = "waiting"
  /\ tokens[w] > 0
  /\ tokens' = [tokens EXCEPT ![w] = @ - 1]
  /\ GoWorker(w, "woken")
  /\ UNCHANGED <<queueVars, isAsleep, mainVars, depCounter, linked, faulted>>

WakeUp(w) ==
  /\ wpc[w] = "woken"
  /\ isAsleep' = [isAsleep EXCEPT ![w] = FALSE]
  /\ GoWorker(w, "loop")
  /\ UNCHANGED <<queueVars, tokens, mainVars, depCounter, linked, faulted>>

Worker(w) == CallPop(w) \/ CountDown(w) \/ FallAsleep(w) \/ TakeToken(w) \/ WakeUp(w)

-----------------------------------------------------------------------------
(* Scheduler_ProcessTaskBatch *)

(* The worker has found its queue empty and nothing was pushed since.      *)
Quiet(w) ==
  /\ wpc[w] = "waiting" \/ (wpc[w] = "popping" /\ pc[w] = "empty")
  /\ tokens[w] = 0

Idle(w) == Quiet(w) /\ top[w] >= bottom[w]

(* Mutant: the counter is not set for the new batch.                       *)
Uncounted(n) == depCounter
Counted(n) == n % CounterModulus

Submit(n) ==
  /\ mpc = "client"
  /\ CautiousClient => \A w \in Workers : Idle(w)
  /\ n <= Cardinality(Items \ submitted)
  /\ depCounter' = Counted(n)
  /\ mpc' = "batch"
  /\ length' = n
  /\ i' = 0
  /\ batch' = {}
  /\ UNCHANGED <<queueVars, workerVars, tokens, syncVars, linked, faulted>>

Target == 1 + (i % WorkerCount)

(* A task is only a name: any that was not submitted will do.              *)
NextItem == CHOOSE x \in Items : x \notin submitted

CallPush ==
  /\ mpc = "batch"
  /\ i < length
  /\ \E x \in Items :
       /\ x = NextItem
       /\ Q!PushBegin(Main, Target, x)
       /\ batch' = batch \cup {x}
  /\ mpc' = "pushing"
  /\ UNCHANGED <<workerVars, tokens, length, i, syncVars, depCounter, linked, faulted>>

(* The load of isAsleep after the push; the signal is a step of its own.   *)
LookAsleep ==
  /\ mpc = "pushing"
  /\ Returned(Main)
  /\ IF isAsleep[Target]
     THEN mpc' = "signal" /\ UNCHANGED i
     ELSE mpc' = "batch" /\ i' = i + 1
  /\ UNCHANGED <<queueVars, workerVars, tokens, length, batch, syncVars, depCounter, linked, faulted>>

(* Mutant: the wrong worker is woken, because i was advanced first.        *)
WokenNext == 1 + ((i + 1) % WorkerCount)
Woken == Target

Signal ==
  /\ mpc = "signal"
  /\ tokens' = [tokens EXCEPT ![Woken] = @ + 1]
  /\ i' = i + 1
  /\ mpc' = "batch"
  /\ UNCHANGED <<queueVars, workerVars, length, batch, syncVars, depCounter, linked, faulted>>

(* The locals of a function that has returned read as they did at first.   *)
BatchReturns ==
  /\ mpc = "batch"
  /\ i = length
  /\ mpc' = "client"
  /\ length' = 0
  /\ i' = 0
  /\ UNCHANGED <<queueVars, workerVars, tokens, batch, syncVars, depCounter, linked, faulted>>

-----------------------------------------------------------------------------
(* Scheduler_Sync *)

CallSync ==
  /\ mpc = "client"
  /\ mpc' = "sync"
  /\ workerIx' = 1
  /\ consecutiveEmptyQueues' = 0
  /\ UNCHANGED <<queueVars, workerVars, tokens, batchVars, depCounter, linked, faulted>>

CallSteal ==
  /\ mpc = "sync"
  /\ consecutiveEmptyQueues < WorkerCount + 1
  /\ Q!StealBegin(Main, workerIx)
  /\ mpc' = "stealing"
  /\ UNCHANGED <<workerVars, tokens, batchVars, syncVars, depCounter, linked, faulted>>

(* Mutants: the next index is taken modulo the number of threads, or skips *)
(* a worker.                                                               *)
NextIxOfThreads == 1 + (workerIx % (WorkerCount + 1))
NextIxSkips == 1 + ((workerIx + 1) % WorkerCount)
NextIx == 1 + (workerIx % WorkerCount)

NextVictim ==
  /\ mpc = "stealing"
  /\ Returned(Main)
  /\ consecutiveEmptyQueues' =
       IF pc[Main] = "empty" THEN consecutiveEmptyQueues + 1 ELSE 0
  /\ workerIx' = NextIx
  /\ mpc' = "sync"
  /\ UNCHANGED <<queueVars, workerVars, tokens, batchVars, depCounter, linked, faulted>>

SyncReturns ==
  /\ mpc = "sync"
  /\ consecutiveEmptyQueues = WorkerCount + 1
  /\ mpc' = "synced"
  /\ UNCHANGED <<queueVars, workerVars, tokens, batchVars, syncVars, depCounter, linked, faulted>>

(* The caller goes on.                                                     *)
AfterSync ==
  /\ mpc = "synced"
  /\ mpc' = "client"
  /\ workerIx' = 1
  /\ consecutiveEmptyQueues' = 0
  /\ UNCHANGED <<queueVars, workerVars, tokens, batchVars, depCounter, linked, faulted>>

MainCalled ==
  \/ CallPush \/ LookAsleep \/ Signal \/ BatchReturns
  \/ CallSteal \/ NextVictim \/ SyncReturns \/ AfterSync

Running(p) == ~ faulted /\ Operate(p)

Next ==
  \/ \E p \in Threads : Running(p)
  \/ \E w \in Workers : ~ faulted /\ Worker(w)
  \/ ~ faulted /\ (MainCalled \/ CallSync \/ \E n \in BatchLengths : Submit(n))

Spec == Init /\ [][Next]_vars

(* Threads are scheduled fairly; nobody has to call the scheduler.         *)
Fairness ==
  /\ \A p \in Threads : WF_vars(Running(p))
  /\ \A w \in Workers : WF_vars(~ faulted /\ Worker(w))
  /\ WF_vars(~ faulted /\ MainCalled)

LiveSpec == Spec /\ Fairness

-----------------------------------------------------------------------------
(* Properties *)

TypeOK ==
  /\ Q!TypeOK
  /\ wpc \in [Workers -> {"loop", "popping", "waiting", "woken"}]
  /\ isAsleep \in [Workers -> BOOLEAN]
  /\ tokens \in [Workers -> Nat]
  /\ mpc \in {"client", "batch", "pushing", "signal", "sync", "stealing", "synced"}
  /\ length \in Nat /\ i \in 0 .. length
  /\ workerIx \in Workers
  /\ consecutiveEmptyQueues \in 0 .. WorkerCount + 1
  /\ depCounter \in 0 .. CounterModulus - 1
  /\ linked \in BOOLEAN
  /\ batch \in SUBSET submitted
  /\ faulted \in BOOLEAN

(* Through the scheduler too, every task handed out is whole and is run by *)
(* one thread only.                                                        *)
HandedOutWhole == Q!HandedOutWhole
AtMostOnce == Q!AtMostOnce

(* When Scheduler_Sync returns, no task submitted before it still waits in *)
(* a queue: it has been run or is in the hands of the worker that took it. *)
Taking(w, x) ==
  \/ fn[w] = Q!FnWord(x)
  \/ pc[w] \in {"pop_top", "pop_fn"} /\ cell[w][Q!FnCell(locB[w])] = Q!FnWord(x)

SyncLeavesNothingQueued ==
  mpc = "synced" =>
    \A x \in submitted : runs[x] >= 1 \/ \E w \in Workers : Taking(w, x)

(* The counter never reads less than the tasks of the batch that are still *)
(* to be pushed or run, so a zero means that the batch is done.            *)
CounterCoversBatch ==
  depCounter >= Cardinality({x \in batch : runs[x] = 0})
                  + (length - i) - (IF mpc \in {"pushing", "signal"} THEN 1 ELSE 0)

(* The push that comes between a worker's failed Pop and its store of      *)
(* isAsleep wakes nobody; a push to a worker that has said it sleeps does: *)
(* the worker goes back to its queue.                                      *)
SleeperIsWoken ==
  \A w \in Workers :
    (mpc = "pushing" /\ Target = w /\ isAsleep[w]) ~> (wpc[w] = "loop" \/ faulted)

(* Scheduler_Sync makes up for every wake-up that was missed: once it is   *)
(* called, all that was submitted gets run, by it or by the worker that    *)
(* was first, unless the null counter ends the process before.             *)
SyncRunsAll == mpc = "sync" ~> ((\A x \in submitted : runs[x] >= 1) \/ faulted)

(* The workers go on working: no access violation ends the process.        *)
WorkersSurvive == ~ faulted

(* No worker sleeps for good with a task in its queue, even if nobody      *)
(* calls Scheduler_Sync.                                                   *)
NoLostWakeup ==
  \A w \in Workers :
    (Quiet(w) /\ isAsleep[w] /\ top[w] < bottom[w])
      => mpc \in {"pushing", "signal"} /\ Target = w

=============================================================================
