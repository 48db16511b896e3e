-------------------------- MODULE SchedulerProofs --------------------------
(***************************************************************************)
(* Theorems about Scheduler, for every number of workers, tasks and batch  *)
(* lengths and every queue size.                                           *)
(***************************************************************************)
EXTENDS Scheduler, FiniteSetTheorems, TLAPS

(* The theorems about the queues, for the queues of this scheduler.        *)
QP == INSTANCE TaskQueueEntryProofs WITH
        Queues <- Workers,
        MaxQueued <- QueueSize + 2,
        MayPush <- [w \in Workers |-> {Main}],
        MayPop <- [w \in Workers |-> {w}],
        MaySteal <- [w \in Workers |-> {Main}]

(* The queues of the scheduler meet the assumptions of TaskQueue.          *)
LEMMA QueuesFit == QP!QueueAssumption
<1>1. 1 \in Workers
  BY SchedulerAssumption DEF Workers
<1>2. Main \in Threads /\ Workers \subseteq Threads
  BY SchedulerAssumption DEF Workers, Threads, Main
<1>3. QueueSize + 2 \in Nat
  BY SchedulerAssumption
<1>4. QED
  BY <1>1, <1>2, <1>3, SchedulerAssumption DEF QP!QueueAssumption

(* The scheduler's instance of TaskQueue and the one its theorems come     *)
(* from agree on types, initial states, calls and steps.                   *)
LEMMA SameTypes == (Q!TypeOK <=> QP!TypeOK) /\ (Q!TypeOK' <=> QP!TypeOK')
BY DEF Q!TypeOK, QP!TypeOK, Q!Word, QP!Word, Q!Cells, QP!Cells, Q!Label, QP!Label, Q!Ready, QP!Ready,
       Q!PushLabel, QP!PushLabel, Q!PopLabel, QP!PopLabel, Q!StealLabel, QP!StealLabel

(* ... on the queues as InitializeQueue leaves them,                       *)
LEMMA SameInit == Q!Init <=> QP!Init
BY DEF Q!Init, QP!Init, Q!Cells, QP!Cells

(* ... on where a call of Push, Pop or Steal begins,                       *)
LEMMA SameBegins ==
  ASSUME NEW p \in Threads, NEW q \in Workers
  PROVE  /\ \A x \in Items : Q!PushBegin(p, q, x) <=> QP!PushBegin(p, q, x)
         /\ Q!PopBegin(p, q) <=> QP!PopBegin(p, q)
         /\ Q!StealBegin(p, q) <=> QP!StealBegin(p, q)
BY DEF Q!PushBegin, QP!PushBegin, Q!PopBegin, QP!PopBegin, Q!StealBegin, QP!StealBegin,
       Q!Ready, QP!Ready, Q!FnWord, QP!FnWord, Q!ArgWord, QP!ArgWord, Q!Goto, QP!Goto,
       Q!memory, QP!memory, Q!history, QP!history

(* ... on the steps of TaskQueue_Push,                                     *)
LEMMA SamePush ==
  ASSUME NEW p \in Threads
  PROVE  Q!Push(p) <=> QP!Push(p)
BY DEF Q!Push, QP!Push, Q!PushTop, QP!PushTop, Q!PushFn, QP!PushFn, Q!PushArg, QP!PushArg,
       Q!PushBottom, QP!PushBottom, Q!Leave, QP!Leave, Q!Goto, QP!Goto, Q!Discard, QP!Discard,
       Q!memory, QP!memory, Q!history, QP!history, Q!FnCell, QP!FnCell, Q!ArgCell, QP!ArgCell

(* ... of TaskQueue_Pop,                                                   *)
LEMMA SamePop ==
  ASSUME NEW p \in Threads
  PROVE  Q!Pop(p) <=> QP!Pop(p)
BY DEF Q!Pop, QP!Pop, Q!PopStore, QP!PopStore, Q!PopTop, QP!PopTop, Q!PopFn, QP!PopFn,
       Q!PopArg, QP!PopArg, Q!PopCas, QP!PopCas, Q!PopWon, QP!PopWon, Q!PopLost, QP!PopLost,
       Q!LastEntry, QP!LastEntry, Q!Compared, QP!Compared, Q!Exchanged, QP!Exchanged,
       Q!Restored, QP!Restored,
       Q!Leave, QP!Leave, Q!Goto, QP!Goto, Q!Discard, QP!Discard,
       Q!memory, QP!memory, Q!history, QP!history, Q!FnCell, QP!FnCell, Q!ArgCell, QP!ArgCell

(* ... of TaskQueue_Steal,                                                 *)
LEMMA SameSteal ==
  ASSUME NEW p \in Threads
  PROVE  Q!Steal(p) <=> QP!Steal(p)
BY DEF Q!Steal, QP!Steal, Q!StealBottom, QP!StealBottom, Q!StealFn, QP!StealFn,
       Q!StealArg, QP!StealArg, Q!StealCas, QP!StealCas, Q!FoundEmpty, QP!FoundEmpty,
       Q!Compared, QP!Compared, Q!Exchanged, QP!Exchanged,
       Q!Leave, QP!Leave, Q!Goto, QP!Goto, Q!Discard, QP!Discard,
       Q!memory, QP!memory, Q!history, QP!history, Q!FnCell, QP!FnCell, Q!ArgCell, QP!ArgCell

(* ... on running what was handed out,                                     *)
LEMMA SameRun ==
  ASSUME NEW p \in Threads
  PROVE  Q!Run(p) <=> QP!Run(p)
BY DEF Q!Run, QP!Run, Q!FnWord, QP!FnWord, Q!Goto, QP!Goto, Q!Discard, QP!Discard,
       Q!memory, QP!memory

(* ... and so on every step inside an operation.                           *)
LEMMA SameInside ==
  ASSUME NEW p \in Threads
  PROVE  Q!Inside(p) <=> QP!Inside(p)
BY SamePush, SamePop, SameSteal, SameRun DEF Q!Inside, QP!Inside

-----------------------------------------------------------------------------
(* The control of the scheduler.                                           *)
Submitting == mpc \in {"pushing", "signal"}

(* The loops' tests keep their indices in range until the iteration ends.  *)
MainInLoop ==
  /\ Submitting => i < length
  /\ mpc = "stealing" => consecutiveEmptyQueues <= WorkerCount
  /\ mpc = "synced" => consecutiveEmptyQueues = WorkerCount + 1

(* Indices taken modulo the number of workers name a worker.               *)
LEMMA IndicesNameWorkers ==
  ASSUME TypeOK
  PROVE  /\ Target \in Workers /\ NextIx \in Workers
         /\ i < WorkerCount => Target = i + 1
         /\ NextIx = IF workerIx < WorkerCount THEN workerIx + 1 ELSE 1
<1>1. /\ WorkerCount \in Nat \ {0} /\ i \in Nat
      /\ workerIx \in Nat /\ 1 <= workerIx /\ workerIx <= WorkerCount
  BY SchedulerAssumption DEF TypeOK, Workers
<1>2. \A n \in Nat : n % WorkerCount \in 0 .. WorkerCount - 1
  BY <1>1
<1>3. \A n \in Nat : n < WorkerCount => n % WorkerCount = n
  BY <1>1
<1>4. WorkerCount % WorkerCount = 0
  BY <1>1
<1>5. QED
  BY <1>1, <1>2, <1>3, <1>4 DEF Target, NextIx, Workers

(* What the scheduler does to the queues is what their callers may do.     *)
LEMMA QueueStep ==
  ASSUME TypeOK, [Next]_vars
  PROVE  [QP!Next]_(QP!vars)
<1> USE DEF queueVars, QP!vars, QP!memory, QP!history, QP!locals
<1>1. ASSUME NEW p \in Threads, Operate(p)
      PROVE  QP!Next
  BY <1>1, SameInside DEF Operate, QP!Next
<1>2. ASSUME NEW w \in Workers, CallPop(w)
      PROVE  QP!Next
  <2>1. w \in Threads /\ QP!PopBegin(w, w)
    BY <1>2, SameBegins, QueuesFit DEF CallPop, Workers, Threads
  <2>2. QP!CallPop(w)
    BY <2>1 DEF QP!CallPop
  <2>3. QED
    BY <2>1, <2>2 DEF QP!Next
<1>3. CASE CallPush
  <2>1. Main \in Threads /\ Target \in Workers
    BY IndicesNameWorkers, SchedulerAssumption DEF Main, Threads
  <2>2. PICK x \in Items : QP!PushBegin(Main, Target, x)
    BY <1>3, <2>1, SameBegins DEF CallPush
  <2>3. QP!CallPush(Main)
    BY <2>1, <2>2 DEF QP!CallPush
  <2>4. QED
    BY <2>1, <2>3 DEF QP!Next
<1>4. CASE CallSteal
  <2>1. Main \in Threads /\ workerIx \in Workers
    BY SchedulerAssumption DEF Main, Threads, TypeOK
  <2>2. QP!StealBegin(Main, workerIx)
    BY <1>4, <2>1, SameBegins DEF CallSteal
  <2>3. QP!CallSteal(Main)
    BY <2>1, <2>2 DEF QP!CallSteal
  <2>4. QED
    BY <2>1, <2>3 DEF QP!Next
<1>5. ASSUME NEW w \in Workers, CountDown(w) \/ FallAsleep(w) \/ TakeToken(w) \/ WakeUp(w)
      PROVE  UNCHANGED QP!vars
  BY <1>5 DEF CountDown, FallAsleep, TakeToken, WakeUp
<1>6. CASE \/ LookAsleep \/ Signal \/ BatchReturns \/ NextVictim \/ SyncReturns \/ AfterSync
           \/ CallSync \/ \E n \in BatchLengths : Submit(n)
  BY <1>6 DEF LookAsleep, Signal, BatchReturns, NextVictim, SyncReturns, AfterSync, CallSync, Submit
<1>7. CASE UNCHANGED vars
  BY <1>7 DEF vars
<1>8. QED
  BY <1>1, <1>2, <1>3, <1>4, <1>5, <1>6, <1>7 DEF Next, Running, Worker, MainCalled

(* Every variable of the scheduler keeps its type, whatever the client     *)
(* does: the loops never leave the workers' indices.                       *)
LEMMA TypeStep ==
  ASSUME TypeOK, MainInLoop, [Next]_vars
  PROVE  TypeOK' /\ MainInLoop'
<1> USE DEF MainInLoop, Submitting, workerVars, batchVars, syncVars, mainVars, GoWorker
<1>1. /\ WorkerCount \in Nat \ {0} /\ CounterModulus \in Nat \ {0} /\ BatchLengths \subseteq Nat
      /\ \A n \in Int : n % CounterModulus \in 0 .. CounterModulus - 1
      /\ 1 \in Workers /\ 0 \in 0 .. WorkerCount + 1 /\ 0 \in 0 .. CounterModulus - 1
  BY SchedulerAssumption DEF Workers
<1>2. Q!TypeOK'
  BY SameTypes, QueueStep, QueuesFit, QP!TypeStep DEF TypeOK
<1>3. ASSUME submitted' = submitted, batch' = batch
      PROVE  batch' \in SUBSET submitted'
  BY <1>3 DEF TypeOK
<1>4. ASSUME NEW p \in Threads, Operate(p)
      PROVE  TypeOK' /\ MainInLoop'
  <2>1. submitted' = submitted
    BY <1>4, SameInside, SameTypes, QP!InsideFrame, QueuesFit DEF Operate, TypeOK
  <2>2. QED
    BY <1>2, <1>3, <1>4, <2>1 DEF Operate, TypeOK
<1>5. ASSUME NEW w \in Workers, Worker(w)
      PROVE  TypeOK' /\ MainInLoop'
  <2>1. submitted' = submitted
    BY <1>5 DEF Worker, CallPop, CountDown, FallAsleep, TakeToken, WakeUp, queueVars,
                Q!PopBegin, Q!history
  <2>2. CASE CallPop(w) \/ FallAsleep(w) \/ WakeUp(w)
    BY <1>2, <1>3, <2>1, <2>2 DEF CallPop, FallAsleep, WakeUp, TypeOK
  <2>3. CASE CountDown(w)
    <3>1. depCounter \in Int /\ faulted \in BOOLEAN /\ linked \in BOOLEAN
      BY <1>1 DEF TypeOK
    <3>2. (depCounter - 1) % CounterModulus \in 0 .. CounterModulus - 1
      BY <1>1, <3>1
    <3>3. depCounter' \in 0 .. CounterModulus - 1
      BY <2>3, <3>2 DEF CountDown, TypeOK
    <3>4. faulted' \in BOOLEAN /\ linked' \in BOOLEAN
      BY <2>3, <3>1 DEF CountDown
    <3>5. QED
      BY <1>2, <1>3, <2>1, <2>3, <3>3, <3>4 DEF CountDown, TypeOK
  <2>4. CASE TakeToken(w)
    BY <1>2, <1>3, <2>1, <2>4 DEF TakeToken, TypeOK
  <2>5. QED
    BY <1>5, <2>2, <2>3, <2>4 DEF Worker
<1>6. ASSUME NEW n \in BatchLengths, Submit(n)
      PROVE  TypeOK' /\ MainInLoop'
  BY <1>1, <1>2, <1>6 DEF Submit, Counted, TypeOK
<1>7. CASE CallPush
  BY <1>2, <1>7 DEF CallPush, Q!PushBegin, TypeOK
<1>8. CASE LookAsleep \/ Signal
  BY <1>2, <1>3, <1>8, IndicesNameWorkers DEF LookAsleep, Signal, Woken, queueVars, TypeOK
<1>9. CASE CallSteal
  <2>1. submitted' = submitted
    BY <1>9 DEF CallSteal, Q!StealBegin, Q!history
  <2>2. consecutiveEmptyQueues <= WorkerCount
    BY <1>1, <1>9 DEF CallSteal, TypeOK
  <2>3. QED
    BY <1>2, <1>3, <1>9, <2>1, <2>2 DEF CallSteal, TypeOK
<1>10. CASE NextVictim
  BY <1>1, <1>2, <1>3, <1>10, IndicesNameWorkers DEF NextVictim, queueVars, TypeOK
<1>11. CASE CallSync
  BY <1>1, <1>2, <1>3, <1>11 DEF CallSync, queueVars, Workers, TypeOK
<1>12. CASE BatchReturns \/ SyncReturns \/ AfterSync
  BY <1>1, <1>2, <1>3, <1>12 DEF BatchReturns, SyncReturns, AfterSync, queueVars, TypeOK
<1>13. CASE UNCHANGED vars
  BY <1>2, <1>13 DEF vars, queueVars, TypeOK
<1>14. QED
  BY <1>4, <1>5, <1>6, <1>7, <1>8, <1>9, <1>10, <1>11, <1>12, <1>13 DEF Next, Running, MainCalled

(* ThreadContext_Initialize leaves every variable with a value of its      *)
(* type.                                                                   *)
LEMMA TypeInit == Init => TypeOK /\ MainInLoop
<1>1. Init => Q!TypeOK
  BY SameInit, SameTypes, QueuesFit, QP!TypeInit DEF Init
<1>2. 1 \in Workers /\ 0 \in 0 .. WorkerCount + 1 /\ 0 \in 0 .. CounterModulus - 1
  BY SchedulerAssumption DEF Workers
<1>3. Init => isAsleep \in [Workers -> BOOLEAN] /\ faulted \in BOOLEAN /\ linked \in BOOLEAN
  BY SchedulerAssumption DEF Init
<1>4. QED
  BY <1>1, <1>2, <1>3 DEF Init, TypeOK, MainInLoop, Submitting

(* Whatever workers there are, however batches are cut and whatever the    *)
(* client waits for, the variables of WorkerProc,                          *)
(* Scheduler_ProcessTaskBatch, Scheduler_Sync and the queues keep their    *)
(* types.                                                                  *)
THEOREM TypeCorrect == Spec => []TypeOK
<1>1. Init => TypeOK /\ MainInLoop
  BY TypeInit
<1>2. TypeOK /\ MainInLoop /\ [Next]_vars => TypeOK' /\ MainInLoop'
  BY TypeStep
<1>3. QED
  BY <1>1, <1>2, PTL DEF Spec
-----------------------------------------------------------------------------
(* Where each thread can be.  A worker is inside Pop on its own queue, or  *)
(* runs what it popped, only in its loop; isAsleep is set from the failed  *)
(* Pop until after the wait.                                               *)
WorkerControl ==
  \A w \in Workers :
    /\ pc[w] \in QP!Ready \cup QP!PopLabel \cup {"run"}
    /\ wpc[w] # "popping" => pc[w] \in QP!Ready
    /\ pc[w] \in QP!PopLabel => on[w] = w
    /\ isAsleep[w] <=> wpc[w] \in {"waiting", "woken"}

(* The main thread is inside Push on the target's queue or inside Steal on *)
(* the queue of workerIx, in the iteration that made the call.             *)
MainControl ==
  /\ pc[Main] \notin QP!PopLabel
  /\ pc[Main] \in QP!PushLabel => mpc = "pushing" /\ on[Main] = Target
  /\ pc[Main] \in QP!StealLabel => mpc = "stealing" /\ on[Main] = workerIx
  /\ mpc \notin {"pushing", "stealing"} => pc[Main] \in QP!Ready

(* A thread is the main thread or a worker.                                *)
LEMMA ThreadKinds ==
  Main \in Threads /\ Main \notin Workers /\ Threads = Workers \cup {Main}
BY SchedulerAssumption DEF Main, Threads, Workers

(* What a step inside a queue operation leaves alone.                      *)
LEMMA OperateFrame ==
  ASSUME TypeOK, NEW p \in Threads, Operate(p)
  PROVE  /\ QP!Inside(p) /\ QP!Alone(p) /\ on' = on /\ submitted' = submitted
         /\ pc[p] \notin QP!Ready
         /\ \A s \in Threads : s # p => pc'[s] = pc[s] /\ locB'[s] = locB[s] /\ locT'[s] = locT[s]
         /\ pc[p] \in QP!PushLabel => pc'[p] \in QP!PushLabel \cup {"run", "idle"}
         /\ pc[p] \in QP!PopLabel => pc'[p] \in QP!PopLabel \cup {"run", "empty"}
         /\ pc[p] \in QP!StealLabel => pc'[p] \in QP!StealLabel \cup {"run", "empty"}
         /\ pc[p] = "run" => pc'[p] = "idle"
         /\ pc'[p] \in QP!StealLabel => locT'[p] = locT[p]
         /\ pc[p] # "run" => runs' = runs
         /\ UNCHANGED <<wpc, isAsleep, tokens, mpc, length, i, batch, workerIx,
                        consecutiveEmptyQueues, depCounter, faulted>>
<1>1. QP!TypeOK /\ QP!Inside(p)
  BY SameTypes, SameInside DEF TypeOK, Operate
<1>2. QP!Alone(p) => \A s \in Threads : s # p => pc'[s] = pc[s] /\ locB'[s] = locB[s] /\ locT'[s] = locT[s]
  BY DEF QP!Alone
<1>3. QED
  BY <1>1, <1>2, QP!InsideFrame, QueuesFit DEF Operate, workerVars, mainVars, batchVars, syncVars

(* No step takes a thread out of the loop or the function its queue        *)
(* operation was called from.                                              *)
LEMMA ControlStep ==
  ASSUME TypeOK, MainInLoop, WorkerControl, MainControl, [Next]_vars
  PROVE  WorkerControl' /\ MainControl'
<1> USE DEF QP!Ready, QP!PushLabel, QP!PopLabel, QP!StealLabel, GoWorker
<1>1. /\ pc \in [Threads -> QP!Label] /\ on \in [Threads -> Workers]
      /\ wpc \in [Workers -> {"loop", "popping", "waiting", "woken"}]
      /\ isAsleep \in [Workers -> BOOLEAN]
  BY SameTypes DEF TypeOK, QP!TypeOK
<1>2. ASSUME NEW p \in Threads, Operate(p)
      PROVE  WorkerControl' /\ MainControl'
  <2>1. WorkerControl'
    BY <1>2, OperateFrame, ThreadKinds DEF WorkerControl
  <2>2. MainControl'
    <3>1. pc[Main] \in QP!Ready \cup {"run"} \cup QP!PushLabel \cup QP!PopLabel \cup QP!StealLabel
      BY <1>1, ThreadKinds DEF QP!Label
    <3>2. QED
      BY <1>2, <3>1, OperateFrame, ThreadKinds DEF MainControl, Target
  <2>3. QED
    BY <2>1, <2>2
<1>3. ASSUME NEW w \in Workers, Worker(w)
      PROVE  WorkerControl' /\ MainControl'
  <2>1. CASE CallPop(w)
    <3>1. /\ pc' = [pc EXCEPT ![w] = "pop_store"] /\ on' = [on EXCEPT ![w] = w]
          /\ wpc' = [wpc EXCEPT ![w] = "popping"] /\ isAsleep' = isAsleep /\ wpc[w] = "loop"
          /\ UNCHANGED <<mpc, i, workerIx>>
      BY <2>1 DEF CallPop, Q!PopBegin, Q!Goto, mainVars, batchVars, syncVars
    <3>2. QED
      BY <1>1, <3>1, ThreadKinds DEF WorkerControl, MainControl, Target
  <2>2. CASE CountDown(w) \/ FallAsleep(w) \/ TakeToken(w) \/ WakeUp(w)
    <3>1. UNCHANGED <<pc, on, mpc, i, workerIx>>
      BY <2>2 DEF CountDown, FallAsleep, TakeToken, WakeUp, queueVars, mainVars, batchVars, syncVars
    <3>2. WorkerControl'
      BY <1>1, <2>2, <3>1 DEF CountDown, FallAsleep, TakeToken, WakeUp, WorkerControl
    <3>3. QED
      BY <3>1, <3>2 DEF MainControl, Target
  <2>3. QED
    BY <1>3, <2>1, <2>2 DEF Worker
<1>4. CASE CallPush
  <2>1. /\ pc' = [pc EXCEPT ![Main] = "push_top"] /\ on' = [on EXCEPT ![Main] = Target]
        /\ mpc' = "pushing" /\ UNCHANGED <<wpc, isAsleep, i, workerIx>>
    BY <1>4 DEF CallPush, Q!PushBegin, Q!Goto, workerVars, syncVars
  <2>2. QED
    BY <1>1, <2>1, ThreadKinds, IndicesNameWorkers DEF WorkerControl, MainControl, Target
<1>5. CASE CallSteal
  <2>1. /\ pc' = [pc EXCEPT ![Main] = "steal_bottom"] /\ on' = [on EXCEPT ![Main] = workerIx]
        /\ mpc' = "stealing" /\ UNCHANGED <<wpc, isAsleep, i, workerIx>>
    BY <1>5 DEF CallSteal, Q!StealBegin, Q!Goto, workerVars, syncVars, batchVars
  <2>2. QED
    BY <1>1, <2>1, ThreadKinds DEF WorkerControl, MainControl, Target
<1>6. CASE \/ LookAsleep \/ Signal \/ BatchReturns \/ NextVictim \/ SyncReturns \/ AfterSync
           \/ CallSync \/ \E n \in BatchLengths : Submit(n)
  <2>1. UNCHANGED <<pc, on, wpc, isAsleep>> /\ pc[Main] \in QP!Ready
    BY <1>6 DEF LookAsleep, Signal, BatchReturns, NextVictim, SyncReturns, AfterSync, CallSync,
                Submit, queueVars, workerVars, MainControl, Returned, Q!Ready
  <2>2. QED
    BY <2>1 DEF WorkerControl, MainControl
<1>7. CASE UNCHANGED vars
  BY <1>7 DEF vars, queueVars, workerVars, mainVars, batchVars, syncVars, WorkerControl,
              MainControl, Target
<1>8. QED
  BY <1>2, <1>3, <1>4, <1>5, <1>6, <1>7 DEF Next, Running, MainCalled
-----------------------------------------------------------------------------
(* The client that the scheduler is safe for: it submits when all workers  *)
(* are idle, and no more tasks than there are workers, so that none gets a *)
(* second one while it works on the first.                                 *)
Cautious == CautiousClient /\ \A n \in BatchLengths : n <= WorkerCount

(* The workers that the loop has not come to are still quiet.              *)
OthersQuiet ==
  /\ length <= WorkerCount
  /\ mpc \in {"batch", "pushing", "signal"} => \A w \in Workers : w > i => Quiet(w)

(* A worker that is quiet only goes to sleep by itself.                    *)
LEMMA QuietStays ==
  ASSUME TypeOK, [Next]_vars, ~ Signal, NEW w \in Workers, Quiet(w)
  PROVE  Quiet(w)'
<1> USE DEF Quiet, GoWorker
<1>1. /\ tokens \in [Workers -> Nat] /\ pc \in [Threads -> QP!Label]
      /\ wpc \in [Workers -> {"loop", "popping", "waiting", "woken"}]
  BY SameTypes DEF TypeOK, QP!TypeOK
<1>2. ASSUME NEW v \in Workers, Worker(v)
      PROVE  Quiet(w)'
  <2>1. CASE CallPop(v)
    BY <1>1, <2>1, ThreadKinds DEF CallPop, Q!PopBegin, Q!Goto
  <2>2. CASE CountDown(v) \/ FallAsleep(v) \/ TakeToken(v) \/ WakeUp(v)
    BY <1>1, <2>2 DEF CountDown, FallAsleep, TakeToken, WakeUp, queueVars
  <2>3. QED
    BY <1>2, <2>1, <2>2 DEF Worker
<1>3. ASSUME NEW p \in Threads, Operate(p)
      PROVE  Quiet(w)'
  BY <1>3, OperateFrame, ThreadKinds DEF QP!Ready
<1>4. CASE CallPush \/ CallSteal
  BY <1>1, <1>4, ThreadKinds DEF CallPush, CallSteal, Q!PushBegin, Q!StealBegin, Q!Goto, workerVars
<1>5. CASE \/ LookAsleep \/ BatchReturns \/ NextVictim \/ SyncReturns \/ AfterSync \/ CallSync
           \/ \E n \in BatchLengths : Submit(n)
  BY <1>5 DEF LookAsleep, BatchReturns, NextVictim, SyncReturns, AfterSync, CallSync, Submit,
              queueVars, workerVars
<1>6. CASE UNCHANGED vars
  BY <1>6 DEF vars, queueVars, workerVars
<1>7. QED
  BY <1>2, <1>3, <1>4, <1>5, <1>6 DEF Next, Running, MainCalled

(* Push and signal wake a worker only when the loop of ProcessTaskBatch    *)
(* reaches it.                                                             *)
LEMMA OthersQuietStep ==
  ASSUME Cautious, TypeOK, MainInLoop, OthersQuiet, [Next]_vars
  PROVE  OthersQuiet'
<1> USE DEF Submitting, OthersQuiet
<1>1. /\ tokens \in [Workers -> Nat] /\ length \in Nat /\ i \in Nat /\ WorkerCount \in Nat
      /\ \A w \in Workers : w \in Nat
  BY SchedulerAssumption DEF TypeOK, Workers
<1>2. CASE Signal
  <2>1. i < WorkerCount /\ Target = i + 1
    BY <1>1, <1>2, IndicesNameWorkers DEF MainInLoop, Signal
  <2>2. /\ UNCHANGED <<wpc, pc, length>> /\ i' = i + 1 /\ mpc' = "batch" /\ mpc = "signal"
        /\ \A v \in Workers : v # Target => tokens'[v] = tokens[v]
    BY <1>1, <1>2 DEF Signal, Woken, workerVars, queueVars
  <2>3. \A v \in Workers : v > i' => v > i /\ v # Target
    BY <1>1, <2>1, <2>2
  <2>4. QED
    BY <2>2, <2>3 DEF Quiet
<1>3. ASSUME ~ Signal
      PROVE  OthersQuiet'
  <2>1. \A w \in Workers : Quiet(w) => Quiet(w)'
    BY <1>3, QuietStays
  <2>2. ASSUME NEW n \in BatchLengths, Submit(n)
        PROVE  OthersQuiet'
    BY <2>1, <2>2 DEF Submit, Cautious, Idle
  <2>3. CASE LookAsleep
    <3>1. length' = length /\ mpc = "pushing" /\ i' \in {i, i + 1}
      BY <2>3 DEF LookAsleep
    <3>2. \A v \in Workers : v > i' => v > i
      BY <1>1, <3>1
    <3>3. QED
      BY <2>1, <3>1, <3>2
  <2>4. CASE CallPush
    BY <2>1, <2>4 DEF CallPush
  <2>5. CASE BatchReturns
    BY <1>1, <2>5 DEF BatchReturns
  <2>6. CASE CallSteal \/ NextVictim \/ SyncReturns \/ AfterSync \/ CallSync
    BY <2>6 DEF CallSteal, NextVictim, SyncReturns, AfterSync, CallSync, batchVars
  <2>7. ASSUME NEW w \in Workers, Worker(w)
        PROVE  OthersQuiet'
    BY <2>1, <2>7 DEF Worker, CallPop, CountDown, FallAsleep, TakeToken, WakeUp, mainVars, batchVars
  <2>8. ASSUME NEW p \in Threads, Operate(p)
        PROVE  OthersQuiet'
    BY <2>1, <2>8 DEF Operate, mainVars, batchVars
  <2>9. CASE UNCHANGED vars
    BY <2>1, <2>9 DEF vars, mainVars, batchVars
  <2>10. QED
    BY <1>3, <2>2, <2>3, <2>4, <2>5, <2>6, <2>7, <2>8, <2>9 DEF Next, Running, MainCalled
<1>4. QED
  BY <1>2, <1>3

Control == MainInLoop /\ WorkerControl /\ MainControl /\ OthersQuiet

(* So a push goes to the queue of a quiet worker, and nobody else is       *)
(* inside an operation of its owner there.                                 *)
LEMMA TargetIsQuiet ==
  ASSUME TypeOK, Control
  PROVE  /\ Submitting => Target = i + 1 /\ Quiet(Target)
         /\ mpc = "batch" /\ i < length => Target = i + 1 /\ Quiet(Target)
         /\ QP!OneInside
<1>1. ASSUME mpc \in {"batch", "pushing", "signal"}, i < length
      PROVE  Target = i + 1 /\ Target \in Workers /\ Quiet(Target)
  <2>1. i \in Nat /\ length \in Nat /\ length <= WorkerCount /\ WorkerCount \in Nat
    BY SchedulerAssumption DEF TypeOK, Control, OthersQuiet
  <2>2. Target = i + 1 /\ Target \in Workers
    BY <1>1, <2>1, IndicesNameWorkers
  <2>3. QED
    BY <1>1, <2>1, <2>2 DEF Control, OthersQuiet
<1>2. Submitting => Target = i + 1 /\ Quiet(Target)
  BY <1>1 DEF Control, MainInLoop, Submitting
<1>3. ASSUME NEW p \in Threads, NEW r \in Threads, on[p] = on[r],
             pc[p] \in QP!PushLabel \cup QP!PopLabel, pc[r] \in QP!PushLabel \cup QP!PopLabel
      PROVE  p = r
  <2>1. \A w \in Workers : pc[w] \in QP!PushLabel \cup QP!PopLabel =>
          on[w] = w /\ ~ Quiet(w)
    BY DEF Control, WorkerControl, QP!PushLabel, QP!PopLabel, QP!Ready, Quiet
  <2>2. pc[Main] \in QP!PushLabel \cup QP!PopLabel => Quiet(on[Main])
    BY <1>2 DEF Control, MainControl, Submitting
  <2>3. QED
    BY <1>3, <2>1, <2>2, ThreadKinds
<1>4. QED
  BY <1>1, <1>2, <1>3 DEF QP!OneInside
-----------------------------------------------------------------------------
(* What is in the queues.  The queues that the loop of ProcessTaskBatch    *)
(* has not come to are as empty as they were when it was called.           *)
Ahead(w) == (mpc = "batch" /\ w > i) \/ (Submitting /\ w > i + 1)

AheadDrained == \A w \in Workers : Ahead(w) => QP!Drained(w)

(* So a queue never holds more than one entry, is empty when it is pushed  *)
(* to, and a Steal that fails has seen it empty.                           *)
OneEntry == \A w \in Workers : QP!Limit(w) <= top[w] + 1
PushesToDrained == pc[Main] \in QP!PushLabel => QP!Drained(Target)
StealsTheOne == pc[Main] \in QP!StealLabel => QP!Limit(workerIx) <= locT[Main] + 1
FalseDrained == mpc = "stealing" /\ pc[Main] = "empty" => QP!Drained(workerIx)

(* How many steps of the loop ago Scheduler_Sync was at a worker's queue:  *)
(* those it has found empty since the last task it stole still are.        *)
Behind(w) == IF w < workerIx THEN workerIx - w ELSE workerIx - w + WorkerCount

SyncSees ==
  mpc \in {"sync", "stealing", "synced"} =>
    \A w \in Workers : Behind(w) <= consecutiveEmptyQueues => QP!Drained(w)

Entries == /\ AheadDrained /\ OneEntry /\ PushesToDrained
           /\ StealsTheOne /\ FalseDrained /\ SyncSees

QueueInv == QP!IndexInv /\ QP!PopOutcome /\ QP!EntryInv

(* What any step but the one that publishes an entry does to the queues.   *)
LEMMA QueuesOnlyDrain ==
  ASSUME TypeOK, Control, QueueInv, [Next]_vars, ~ QP!PushBottom(Main)
  PROVE  \A w \in Workers : /\ top[w] <= top'[w] /\ QP!Limit(w)' <= QP!Limit(w)
                            /\ QP!Drained(w) => QP!Drained(w)'
                            /\ top[w] \in Nat /\ top'[w] \in Nat
                            /\ QP!Limit(w) \in Int /\ QP!Limit(w)' \in Int
<1>1. QP!TypeOK /\ [QP!Next]_(QP!vars) /\ QP!OneInside /\ QP!IndexInv /\ QP!PopOutcome
  BY SameTypes, QueueStep, TargetIsQuiet DEF TypeOK, QueueInv
<1>2. QP!TypeOK'
  BY <1>1, QP!TypeStep, QueuesFit
<1>3. \A p \in Threads : ~ QP!PushBottom(p)
  BY ThreadKinds DEF Control, WorkerControl, QP!PushBottom, QP!Ready, QP!PopLabel
<1>4. \A w \in Workers : /\ top[w] <= top'[w] /\ QP!Limit(w)' <= QP!Limit(w)
                         /\ QP!Drained(w) => QP!Drained(w)'
  BY <1>1, <1>3, QueuesFit, QP!OnlyPushFills
<1>5. \A w \in Workers : /\ top[w] \in Nat /\ top'[w] \in Nat
                         /\ QP!Limit(w) \in Int /\ QP!Limit(w)' \in Int
  BY <1>1, <1>2 DEF QP!TypeOK, QP!Limit
<1>6. QED
  BY <1>4, <1>5

(* The step that publishes an entry, of the main thread.                   *)
LEMMA PublishingKeepsEntries ==
  ASSUME TypeOK, Control, QueueInv, Entries, Operate(Main), QP!PushBottom(Main)
  PROVE  Entries'
<1>1. QP!TypeOK /\ QP!OneInside /\ QP!IndexInv
  BY SameTypes, TargetIsQuiet DEF TypeOK, QueueInv
<1>2. /\ pc[Main] = "push_bottom" /\ mpc = "pushing" /\ on[Main] = Target /\ Target \in Workers
      /\ QP!Drained(Target)
  BY IndicesNameWorkers DEF QP!PushBottom, QP!PushLabel, Control, MainControl, Entries,
                            PushesToDrained
<1>3. pc'[Main] = "idle"
  BY <1>1, ThreadKinds DEF QP!PushBottom, QP!Leave, QP!Goto, QP!TypeOK
<1>4. /\ \A w \in Workers : pc'[w] = pc[w]
      /\ UNCHANGED <<wpc, tokens, mpc, i>>
  BY OperateFrame, ThreadKinds
<1>5. \A w \in Workers : /\ top'[w] = top[w] /\ QP!Limit(w)' <= QP!Limit(w) + 1
                         /\ w # Target => QP!Limit(w)' = QP!Limit(w) /\ bottom'[w] = bottom[w]
                         /\ w = Target => QP!Limit(w)' = bottom[w] + 1
  BY <1>1, <1>2, QueuesFit, ThreadKinds, QP!PushFillsByOne
<1>6. \A w \in Workers : top[w] \in Nat /\ bottom[w] \in Int /\ QP!Limit(w) \in Int
  BY <1>1 DEF QP!TypeOK, QP!Limit
<1>7. AheadDrained'
  <2>1. \A w \in Workers : w # Target => (QP!Drained(w) => QP!Drained(w)')
    BY <1>5, <1>6 DEF QP!Drained
  <2>2. Target = i + 1 /\ i \in Int /\ \A w \in Workers : w \in Int
    BY <1>2, TargetIsQuiet DEF Submitting, TypeOK, Workers
  <2>3. \A w \in Workers : Ahead(w)' => Ahead(w) /\ w # Target
    BY <1>2, <1>4, <2>2 DEF Ahead, Submitting
  <2>4. QED
    BY <2>1, <2>3 DEF Entries, AheadDrained
<1>8. OneEntry'
  <2>1. \A w \in Workers : w = Target => QP!Limit(w)' <= top'[w] + 1
    BY <1>2, <1>5, <1>6 DEF QP!Drained
  <2>2. \A w \in Workers : w # Target => QP!Limit(w)' <= top'[w] + 1
    BY <1>5 DEF Entries, OneEntry
  <2>3. QED
    BY <2>1, <2>2 DEF OneEntry
<1>9. PushesToDrained' /\ StealsTheOne' /\ FalseDrained' /\ SyncSees'
  BY <1>2, <1>3, <1>4 DEF PushesToDrained, StealsTheOne, FalseDrained, SyncSees, QP!PushLabel,
                          QP!StealLabel
<1>10. QED
  BY <1>7, <1>8, <1>9 DEF Entries

(* What Scheduler_Sync knows of a queue moves one step behind.             *)
LEMMA BehindNext ==
  ASSUME TypeOK, workerIx' = NextIx, NEW w \in Workers
  PROVE  /\ Behind(w) \in 1 .. WorkerCount
         /\ Behind(w)' = IF w = workerIx THEN 1 ELSE Behind(w) + 1
<1>1. /\ WorkerCount \in Nat \ {0} /\ w \in 1 .. WorkerCount /\ workerIx \in 1 .. WorkerCount
      /\ workerIx' = IF workerIx < WorkerCount THEN workerIx + 1 ELSE 1
  BY SchedulerAssumption, IndicesNameWorkers DEF TypeOK, Workers
<1>2. QED
  BY <1>1 DEF Behind

(* A step inside an operation that publishes nothing.                      *)
LEMMA OperatingKeepsEntries ==
  ASSUME TypeOK, Control, QueueInv, Entries, [Next]_vars, NEW p \in Threads, Operate(p),
         ~ QP!PushBottom(Main)
  PROVE  Entries'
<1> USE DEF QP!Ready, QP!PushLabel, QP!PopLabel, QP!StealLabel
<1>1. QP!TypeOK /\ QP!OneInside /\ QP!IndexInv /\ QP!PopOutcome
  BY SameTypes, TargetIsQuiet DEF TypeOK, QueueInv
<1>2. /\ QP!Inside(p) /\ on' = on /\ pc[p] \notin QP!Ready
      /\ \A s \in Threads : s # p => pc'[s] = pc[s] /\ locT'[s] = locT[s]
      /\ UNCHANGED <<wpc, tokens, mpc, length, i, workerIx, consecutiveEmptyQueues>>
      /\ pc[p] \in QP!PushLabel => pc'[p] \in QP!PushLabel \cup {"run", "idle"}
      /\ pc[p] \in QP!PopLabel => pc'[p] \in QP!PopLabel \cup {"run", "empty"}
      /\ pc[p] \in QP!StealLabel => pc'[p] \in QP!StealLabel \cup {"run", "empty"}
      /\ pc[p] = "run" => pc'[p] = "idle"
      /\ pc'[p] \in QP!StealLabel => locT'[p] = locT[p]
      /\ pc[p] \in QP!Ready \cup {"run"} \cup QP!PushLabel \cup QP!PopLabel \cup QP!StealLabel
  BY <1>1, OperateFrame DEF QP!TypeOK, QP!Label
<1>3. Target' = Target /\ (Submitting' <=> Submitting)
      /\ \A w \in Workers : Behind(w)' = Behind(w)
  BY <1>2 DEF Target, Submitting, Behind
<1>4. \A w \in Workers : /\ top[w] <= top'[w] /\ QP!Limit(w)' <= QP!Limit(w)
                         /\ QP!Drained(w) => QP!Drained(w)'
                         /\ top[w] \in Nat /\ top'[w] \in Nat
                         /\ QP!Limit(w) \in Int /\ QP!Limit(w)' \in Int
  BY QueuesOnlyDrain
<1>5. /\ pc[Main] \in QP!PushLabel => mpc = "pushing" /\ on[Main] = Target
      /\ pc[Main] \in QP!StealLabel => mpc = "stealing" /\ on[Main] = workerIx
      /\ pc[Main] \notin QP!PopLabel
      /\ \A w \in Workers : /\ pc[w] \in QP!Ready \cup QP!PopLabel \cup {"run"}
                            /\ wpc[w] # "popping" => pc[w] \in QP!Ready
                            /\ pc[w] \in QP!PopLabel => on[w] = w
  BY DEF Control, WorkerControl, MainControl
<1>6. pc[Main] \in QP!StealLabel => QP!Limit(on[Main]) <= locT[Main] + 1
  BY <1>5 DEF Entries, StealsTheOne
<1>7. \A w \in Workers : pc'[p] = "empty" /\ on[p] = w => QP!Drained(w)'
  <2>1. pc[p] \in QP!StealLabel => p = Main
    BY <1>5, ThreadKinds
  <2>2. pc'[p] = "empty" => QP!Drained(on[p])'
    BY <1>1, <1>2, <1>6, <2>1, QueuesFit, QP!FalseMeansEmpty
  <2>3. QED
    BY <1>2, <2>2
<1>8. AheadDrained'
  BY <1>2, <1>3, <1>4 DEF Entries, AheadDrained, Ahead
<1>9. OneEntry'
  BY <1>4 DEF Entries, OneEntry
<1>10. PushesToDrained'
  <2>1. pc'[Main] \in QP!PushLabel => pc[Main] \in QP!PushLabel
    BY <1>2, ThreadKinds
  <2>2. \A w \in Workers : w = Target /\ pc[Main] \in QP!PushLabel => QP!Drained(w)'
    BY <1>4 DEF Entries, PushesToDrained
  <2>3. QED
    BY <1>3, <2>1, <2>2, IndicesNameWorkers DEF PushesToDrained
<1>11. StealsTheOne'
  <2>1. pc'[Main] \in QP!StealLabel => pc[Main] \in QP!StealLabel /\ locT'[Main] = locT[Main]
    BY <1>2, ThreadKinds
  <2>2. workerIx \in Workers /\ locT[Main] \in Int
    BY <1>1, ThreadKinds DEF TypeOK, QP!TypeOK
  <2>3. \A w \in Workers : w = workerIx /\ pc[Main] \in QP!StealLabel => QP!Limit(w)' <= locT[Main] + 1
    BY <1>4, <2>2 DEF Entries, StealsTheOne
  <2>4. QED
    BY <1>2, <2>1, <2>2, <2>3 DEF StealsTheOne
<1>12. FalseDrained'
  <2> SUFFICES ASSUME mpc = "stealing", pc'[Main] = "empty", NEW w \in Workers, w = workerIx
               PROVE  QP!Drained(w)'
    BY <1>2 DEF FalseDrained, TypeOK
  <2>1. CASE p = Main
    BY <1>2, <1>5, <1>7, <2>1
  <2>2. CASE p # Main
    BY <1>2, <1>4, <2>2, ThreadKinds DEF Entries, FalseDrained
  <2>3. QED
    BY <2>1, <2>2
<1>13. SyncSees'
  BY <1>2, <1>3, <1>4 DEF Entries, SyncSees
<1>14. QED
  BY <1>8, <1>9, <1>10, <1>11, <1>12, <1>13 DEF Entries

(* The steps of a worker's loop.                                           *)
LEMMA LoopKeepsEntries ==
  ASSUME TypeOK, Control, QueueInv, Entries, [Next]_vars, NEW v \in Workers, Worker(v)
  PROVE  Entries'
<1> USE DEF QP!Ready, QP!PushLabel, QP!StealLabel, GoWorker
<1>1. /\ pc \in [Threads -> QP!Label] /\ locT \in [Threads -> Int]
      /\ wpc \in [Workers -> {"loop", "popping", "waiting", "woken"}]
      /\ tokens \in [Workers -> Nat]
  BY SameTypes DEF TypeOK, QP!TypeOK
<1>2. /\ pc' = pc \/ (pc' = [pc EXCEPT ![v] = "pop_store"])
      /\ UNCHANGED <<locT, mpc, length, i, workerIx, consecutiveEmptyQueues>>
  <2>1. CASE CallPop(v)
    BY <1>1, <2>1, ThreadKinds DEF CallPop, Q!PopBegin, Q!Goto, mainVars, batchVars, syncVars
  <2>2. CASE CountDown(v) \/ FallAsleep(v) \/ TakeToken(v) \/ WakeUp(v)
    BY <1>1, <2>2 DEF CountDown, FallAsleep, TakeToken, WakeUp, queueVars, mainVars, batchVars,
                      syncVars
  <2>3. QED
    BY <2>1, <2>2 DEF Worker
<1>3. pc'[Main] = pc[Main] /\ locT'[Main] = locT[Main]
  BY <1>1, <1>2, ThreadKinds
<1>4. ~ QP!PushBottom(Main)
  BY <1>1, <1>3, ThreadKinds DEF QP!PushBottom, QP!Leave, QP!Goto
<1>5. Target' = Target /\ (Submitting' <=> Submitting)
      /\ \A w \in Workers : Behind(w)' = Behind(w)
  BY <1>2 DEF Target, Submitting, Behind
<1>6. \A w \in Workers : /\ top[w] <= top'[w] /\ QP!Limit(w)' <= QP!Limit(w)
                         /\ QP!Drained(w) => QP!Drained(w)'
                         /\ top[w] \in Nat /\ top'[w] \in Nat
                         /\ QP!Limit(w) \in Int /\ QP!Limit(w)' \in Int
  BY <1>4, QueuesOnlyDrain
<1>7. AheadDrained' /\ OneEntry' /\ SyncSees'
  BY <1>2, <1>5, <1>6 DEF Entries, AheadDrained, Ahead, OneEntry, SyncSees
<1>8. Target \in Workers /\ workerIx \in Workers /\ locT[Main] \in Int
  BY <1>1, ThreadKinds, IndicesNameWorkers DEF TypeOK
<1>9. \A w \in Workers : /\ w = Target /\ pc[Main] \in QP!PushLabel => QP!Drained(w)'
                         /\ w = workerIx /\ pc[Main] \in QP!StealLabel
                              => QP!Limit(w)' <= locT[Main] + 1
                         /\ w = workerIx /\ mpc = "stealing" /\ pc[Main] = "empty"
                              => QP!Drained(w)'
  BY <1>6, <1>8 DEF Entries, PushesToDrained, StealsTheOne, FalseDrained
<1>10. PushesToDrained' /\ StealsTheOne' /\ FalseDrained'
  BY <1>2, <1>3, <1>5, <1>8, <1>9 DEF PushesToDrained, StealsTheOne, FalseDrained
<1>11. QED
  BY <1>7, <1>10 DEF Entries

(* The steps of the functions on the main thread.                          *)
MainStep ==
  \/ CallPush \/ LookAsleep \/ Signal \/ BatchReturns \/ CallSteal \/ NextVictim
  \/ SyncReturns \/ AfterSync \/ CallSync \/ \E n \in BatchLengths : Submit(n)

(* What the main thread does between its queue operations leaves the count *)
(* of queued entries and tokens as it should be.                           *)
LEMMA MainKeepsEntries ==
  ASSUME Cautious, TypeOK, Control, QueueInv, Entries, [Next]_vars, MainStep
  PROVE  Entries'
<1> USE DEF QP!Ready, QP!PushLabel, QP!StealLabel, workerVars, mainVars, batchVars, syncVars
<1>1. /\ pc \in [Threads -> QP!Label] /\ locT \in [Threads -> Int] /\ tokens \in [Workers -> Nat]
      /\ workerIx \in Workers /\ Target \in Workers
  BY SameTypes, IndicesNameWorkers DEF TypeOK, QP!TypeOK
<1>a. i \in Nat /\ WorkerCount \in Nat /\ \A w \in Workers : w \in Nat /\ w <= WorkerCount /\ w > 0
  BY SchedulerAssumption DEF Workers, TypeOK
<1>2. pc[Main] \in QP!Ready
  BY DEF MainStep, CallPush, LookAsleep, Signal, BatchReturns, CallSteal, NextVictim, SyncReturns,
         AfterSync, CallSync, Submit, Returned, Q!Ready, Control, MainControl
<1>3. ~ QP!PushBottom(Main)
  BY <1>2 DEF QP!PushBottom
<1>4. \A w \in Workers : /\ top[w] <= top'[w] /\ QP!Limit(w)' <= QP!Limit(w)
                         /\ QP!Drained(w) => QP!Drained(w)'
                         /\ top[w] \in Nat /\ top'[w] \in Nat
                         /\ QP!Limit(w) \in Int /\ QP!Limit(w)' \in Int
  BY <1>3, QueuesOnlyDrain
<1>5. OneEntry'
  BY <1>4 DEF Entries, OneEntry
<1>7. AheadDrained'
  <2>1. ASSUME NEW w \in Workers, Ahead(w)'
        PROVE  QP!Drained(w)
    <3>1. ASSUME NEW n \in BatchLengths, Submit(n)
          PROVE  QP!Drained(w)
      BY <3>1 DEF Submit, Cautious, Idle, QP!Drained
    <3>2. CASE CallPush
      BY <1>a, <2>1, <3>2 DEF CallPush, Ahead, Submitting, Entries, AheadDrained
    <3>3. CASE LookAsleep \/ Signal
      BY <1>a, <2>1, <3>3 DEF LookAsleep, Signal, Ahead, Submitting, Entries, AheadDrained
    <3>4. CASE \/ BatchReturns \/ CallSteal \/ NextVictim \/ SyncReturns \/ AfterSync \/ CallSync
      BY <2>1, <3>4 DEF BatchReturns, CallSteal, NextVictim, SyncReturns, AfterSync, CallSync,
                        Ahead, Submitting
    <3>5. QED
      BY <3>1, <3>2, <3>3, <3>4 DEF MainStep
  <2>2. QED
    BY <1>4, <2>1 DEF AheadDrained
<1>8. PushesToDrained'
  <2>1. CASE CallPush
    <3>1. Target' = Target /\ Target = i + 1 /\ mpc = "batch"
      BY <2>1, TargetIsQuiet DEF CallPush, Target
    <3>a. Ahead(Target)
      BY <1>a, <3>1 DEF Ahead
    <3>b. QP!Drained(Target)
      BY <1>1, <3>a DEF Entries, AheadDrained
    <3>2. \A w \in Workers : w = Target => QP!Drained(w)'
      BY <1>4, <3>b
    <3>3. QED
      BY <1>1, <3>1, <3>2 DEF PushesToDrained
  <2>2. CASE ~ CallPush
    BY <1>1, <1>2, <2>2, ThreadKinds
       DEF MainStep, LookAsleep, Signal, BatchReturns, CallSteal, NextVictim, SyncReturns,
           AfterSync, CallSync, Submit, queueVars, Q!StealBegin, Q!Goto, PushesToDrained
  <2>3. QED
    BY <2>1, <2>2
<1>9. StealsTheOne' /\ FalseDrained'
  <2>1. CASE CallSteal
    <3>1. /\ pc'[Main] = "steal_bottom" /\ workerIx' = workerIx /\ locT'[Main] = top[workerIx]
      BY <1>1, <2>1, ThreadKinds DEF CallSteal, Q!StealBegin, Q!Goto
    <3>2. \A w \in Workers : w = workerIx => QP!Limit(w)' <= locT'[Main] + 1
      BY <1>4, <3>1 DEF Entries, OneEntry
    <3>3. QED
      BY <1>1, <3>1, <3>2 DEF StealsTheOne, FalseDrained
  <2>2. CASE CallPush
    BY <1>1, <2>2, ThreadKinds DEF CallPush, Q!PushBegin, Q!Goto, StealsTheOne, FalseDrained
  <2>3. CASE ~ CallSteal /\ ~ CallPush
    BY <1>2, <2>3
       DEF MainStep, LookAsleep, Signal, BatchReturns, NextVictim, SyncReturns, AfterSync,
           CallSync, Submit, queueVars, StealsTheOne, FalseDrained
  <2>4. QED
    BY <2>1, <2>2, <2>3
<1>10. SyncSees'
  <2>1. CASE CallSync
    <3>1. \A w \in Workers : ~ (Behind(w)' <= consecutiveEmptyQueues')
      BY <1>a, <2>1 DEF CallSync, Behind
    <3>2. QED
      BY <3>1 DEF SyncSees
  <2>2. CASE NextVictim
    <3>1. /\ workerIx' = NextIx /\ mpc = "stealing"
          /\ consecutiveEmptyQueues' =
               IF pc[Main] = "empty" THEN consecutiveEmptyQueues + 1 ELSE 0
      BY <2>2 DEF NextVictim
    <3>2. SUFFICES ASSUME NEW w \in Workers, Behind(w)' <= consecutiveEmptyQueues'
                   PROVE  QP!Drained(w)'
      BY DEF SyncSees
    <3>3. /\ Behind(w) \in 1 .. WorkerCount /\ consecutiveEmptyQueues \in Nat
          /\ Behind(w)' = IF w = workerIx THEN 1 ELSE Behind(w) + 1
      BY <3>1, BehindNext, SchedulerAssumption DEF TypeOK
    <3>4. pc[Main] = "empty"
      BY <3>1, <3>2, <3>3
    <3>5. w = workerIx \/ Behind(w) <= consecutiveEmptyQueues
      BY <3>1, <3>2, <3>3, <3>4
    <3>6. QP!Drained(w)
      BY <3>1, <3>4, <3>5 DEF Entries, FalseDrained, SyncSees
    <3>7. QED
      BY <1>4, <3>6
  <2>3. CASE CallSteal \/ SyncReturns
    BY <1>4, <2>3 DEF CallSteal, SyncReturns, Entries, SyncSees, Behind
  <2>4. CASE ~ CallSync /\ ~ NextVictim /\ ~ CallSteal /\ ~ SyncReturns
    BY <2>4 DEF MainStep, CallPush, LookAsleep, Signal, BatchReturns, AfterSync, Submit, SyncSees
  <2>5. QED
    BY <2>1, <2>2, <2>3, <2>4
<1>11. QED
  BY <1>5, <1>7, <1>8, <1>9, <1>10 DEF Entries

(* A push to an empty queue overwrites nothing, so the queues do what they *)
(* promise their owner.                                                    *)
LEMMA QueueInvStep ==
  ASSUME PtrSize >= 2, TypeOK, Control, QueueInv, Entries, [Next]_vars
  PROVE  QueueInv'
<1>1. QP!TypeOK /\ [QP!Next]_(QP!vars) /\ QP!OneInside /\ QP!IndexInv /\ QP!PopOutcome /\ QP!EntryInv
  BY SameTypes, QueueStep, TargetIsQuiet DEF TypeOK, QueueInv
<1>2. QP!Gap \in Nat \ {0}
  BY QueuesFit, QP!GapFits
<1>3. QP!Room
  <2> SUFFICES ASSUME NEW p \in Threads, pc[p] \in QP!PushLabel
               PROVE  bottom[on[p]] - top[on[p]] < QP!Gap
    BY DEF QP!Room
  <2>1. p = Main
    BY ThreadKinds DEF Control, WorkerControl, QP!PushLabel, QP!PopLabel, QP!Ready
  <2>2. on[p] = Target /\ top[Target] >= bottom[Target]
    BY <2>1 DEF Control, MainControl, Entries, PushesToDrained, QP!Drained
  <2>3. top[Target] \in Int /\ bottom[Target] \in Int
    BY <1>1, IndicesNameWorkers DEF QP!TypeOK
  <2>4. QED
    BY <1>2, <2>2, <2>3
<1>4. QP!IndexInv'
  BY <1>1, QueuesFit, QP!IndexInvInductive
<1>5. QP!PopOutcome'
  BY <1>1, QueuesFit, QP!OutcomeInductive
<1>6. QP!EntryInv'
  BY <1>1, <1>3, QueuesFit, QP!EntryInvInductive
<1>7. QED
  BY <1>4, <1>5, <1>6 DEF QueueInv

(* Every step of the scheduler keeps the count of queued entries and       *)
(* tokens.                                                                 *)
LEMMA EntriesStep ==
  ASSUME Cautious, TypeOK, Control, QueueInv, Entries, [Next]_vars
  PROVE  Entries'
<1>1. ASSUME NEW p \in Threads, Operate(p)
      PROVE  Entries'
  <2>1. CASE QP!PushBottom(Main)
    <3>1. p = Main
      <4>1. pc[Main] \notin QP!Ready /\ pc'[Main] # pc[Main]
        BY <2>1, SameTypes, ThreadKinds DEF QP!PushBottom, QP!Leave, QP!Goto, QP!Ready, TypeOK, QP!TypeOK
      <4>2. QED
        BY <1>1, <4>1, OperateFrame, ThreadKinds
    <3>2. QED
      BY <1>1, <2>1, <3>1, PublishingKeepsEntries
  <2>2. CASE ~ QP!PushBottom(Main)
    BY <1>1, <2>2, OperatingKeepsEntries
  <2>3. QED
    BY <2>1, <2>2
<1>2. ASSUME NEW w \in Workers, Worker(w)
      PROVE  Entries'
  BY <1>2, LoopKeepsEntries
<1>3. CASE MainStep
  BY <1>3, MainKeepsEntries
<1>4. CASE UNCHANGED vars
  BY <1>4 DEF vars, queueVars, workerVars, mainVars, batchVars, syncVars, Entries, AheadDrained,
              OneEntry, PushesToDrained, StealsTheOne, FalseDrained, SyncSees, Ahead,
              Submitting, Target, Behind, QP!Drained, QP!Limit, QP!InWindow
<1>5. QED
  BY <1>1, <1>2, <1>3, <1>4 DEF Next, Running, MainCalled, MainStep

(* Everything above, together.                                             *)
SchedInv == TypeOK /\ Control /\ QueueInv /\ Entries

(* All of it holds when the engine has started its workers.                *)
LEMMA SchedInit == Init => SchedInv
<1> SUFFICES ASSUME Init PROVE SchedInv
  OBVIOUS
<1>1. QP!Init /\ QP!TypeOK /\ TypeOK
  <2>1. QP!Init
    BY SameInit DEF Init
  <2>2. QP!TypeOK
    BY <2>1, QueuesFit, QP!TypeInit
  <2>3. TypeOK /\ MainInLoop
    BY TypeInit
  <2>4. QED
    BY <2>1, <2>2, <2>3
<1>2. /\ \A p \in Threads : pc[p] = "idle"
      /\ \A w \in Workers : top[w] = 0 /\ bottom[w] = 0
  BY <1>1 DEF QP!Init
<1>3. /\ mpc = "client" /\ length = 0
      /\ \A w \in Workers : wpc[w] = "loop" /\ isAsleep[w] = FALSE
  BY DEF Init
<1>4. Control
  <2>1. MainInLoop
    BY TypeInit
  <2>2. WorkerControl /\ MainControl
    BY <1>2, <1>3, ThreadKinds DEF WorkerControl, MainControl, QP!Ready, QP!PopLabel,
                                   QP!PushLabel, QP!StealLabel
  <2>3. OthersQuiet
    BY <1>3, SchedulerAssumption DEF OthersQuiet
  <2>4. QED
    BY <2>1, <2>2, <2>3 DEF Control
<1>5. QueueInv
  <2>1. QP!PopOutcome
    BY <1>2 DEF QP!PopOutcome
  <2>2. QED
    BY <1>1, <2>1, QueuesFit, QP!IndexInit, QP!EntryInit DEF QueueInv
<1>6. Entries
  <2>1. \A w \in Workers : QP!Drained(w) /\ QP!Limit(w) <= top[w] + 1
    BY <1>2 DEF QP!Drained, QP!Limit, QP!InWindow, QP!PopWindow
  <2>2. QED
    BY <1>2, <1>3, <2>1, ThreadKinds
       DEF Entries, AheadDrained, OneEntry, PushesToDrained, StealsTheOne, FalseDrained, SyncSees,
           QP!PushLabel, QP!StealLabel
<1>7. QED
  BY <1>1, <1>4, <1>5, <1>6 DEF SchedInv

(* All of it is kept by every step while the client is cautious.           *)
LEMMA SchedInvStep ==
  ASSUME Cautious, PtrSize >= 2, SchedInv, [Next]_vars
  PROVE  SchedInv'
<1> USE DEF SchedInv
<1>1. TypeOK' /\ MainInLoop'
  BY TypeStep DEF Control
<1>2. Control'
  BY <1>1, ControlStep, OthersQuietStep DEF Control
<1>3. QED
  BY <1>1, <1>2, QueueInvStep, EntriesStep

(* For the cautious client the queues have one user at a time and never    *)
(* more than one entry, for any number of workers, tasks and batches.      *)
THEOREM SchedulerIsSound ==
  ASSUME Cautious, PtrSize >= 2
  PROVE  Spec => []SchedInv
BY SchedInit, SchedInvStep, PTL DEF Spec

(* What worker threads and Scheduler_Sync run is one whole task each, once *)
(* (the queues' promises, through the scheduler's calls).                  *)
LEMMA SameHandedOut ==
  /\ Q!HandedOutWhole <=> QP!HandedOutWhole
  /\ Q!AtMostOnce <=> QP!AtMostOnce
BY DEF Q!HandedOutWhole, QP!HandedOutWhole, Q!AtMostOnce, QP!AtMostOnce, Q!Holds, QP!Holds,
       Q!FnWord, QP!FnWord, Q!ArgWord, QP!ArgWord, Q!Cardinality, QP!Cardinality

(* What a worker pops and what Scheduler_Sync steals is one task with its  *)
(* own payload.                                                            *)
THEOREM SchedulerHandsOutWhole ==
  ASSUME Cautious, PtrSize >= 2
  PROVE  Spec => []HandedOutWhole
<1>1. SchedInv => HandedOutWhole
  BY SameHandedOut, QueuesFit, QP!WholeInHand DEF SchedInv, QueueInv, HandedOutWhole
<1>2. QED
  BY <1>1, SchedulerIsSound, PTL

(* No task is taken by both its worker and Scheduler_Sync, and none is run *)
(* twice.                                                                  *)
THEOREM SchedulerRunsOnce ==
  ASSUME Cautious, PtrSize >= 2
  PROVE  Spec => []AtMostOnce
<1>1. SchedInv => AtMostOnce
  BY SameHandedOut, QueuesFit, QP!OnceInHand DEF SchedInv, QueueInv, AtMostOnce
<1>2. QED
  BY <1>1, SchedulerIsSound, PTL

(* An entry left in a queue that reads as empty is being taken by the      *)
(* queue's worker.                                                         *)
LEMMA LastEntryIsTaken ==
  ASSUME SchedInv, NEW w \in Workers, QP!Drained(w), NEW n \in Int, NEW x \in Items,
         QP!Queued(w, n, x)
  PROVE  Taking(w, x)
<1> USE DEF QP!PopWindow, QP!PopLabel, QP!PushLabel, QP!Ready
<1>1. /\ QP!TypeOK /\ QP!OwnerKnowsBottom /\ QP!PopOutcome /\ QP!SlotsRead
      /\ WorkerControl /\ MainControl
  BY SameTypes DEF SchedInv, TypeOK, QueueInv, QP!IndexInv, QP!EntryInv, Control
<1>2. /\ top[w] \in Int /\ bottom[w] \in Int /\ top[w] >= bottom[w]
      /\ top[w] <= n /\ n <= QP!Limit(w) - 1 /\ cell[w][QP!FnCell(n)] = QP!FnWord(x)
  BY <1>1 DEF QP!TypeOK, QP!Drained, QP!Queued, QP!Live, QP!FnAt, QP!Limit
<1>3. QP!InWindow(w) /\ n = top[w] /\ n = bottom[w]
  BY <1>2 DEF QP!Limit
<1>4. pc[w] \in QP!PopWindow /\ on[w] = w
  BY <1>1, <1>3, ThreadKinds DEF QP!InWindow, WorkerControl, MainControl
<1>5. w \in Threads /\ locB[w] = n
  BY <1>1, <1>3, <1>4, ThreadKinds DEF QP!OwnerKnowsBottom
<1>6. pc[w] \notin {"pop_won", "pop_lost"}
  <2>1. ~ (locB[w] < top[w])
    BY <1>2, <1>3, <1>5
  <2>2. QED
    BY <1>1, <1>4, <1>5, <2>1 DEF QP!PopOutcome
<1>7. pc[w] \in {"pop_arg", "pop_cas"} => fn[w] = QP!FnWord(x)
  BY <1>1, <1>2, <1>4, <1>5 DEF QP!SlotsRead, QP!FnAt
<1>8. QED
  BY <1>2, <1>4, <1>5, <1>6, <1>7 DEF Taking, Q!FnWord, QP!FnWord, Q!FnCell, QP!FnCell

(* Scheduler_Sync's walk over the queues misses none, although workers and *)
(* the main thread contend for the entries while it goes round: when it    *)
(* returns, each task has been run or is in the hands of a worker.         *)
THEOREM SyncDrainsQueues ==
  ASSUME Cautious, PtrSize >= 2
  PROVE  Spec => []SyncLeavesNothingQueued
<1>1. ASSUME SchedInv, mpc = "synced", NEW x \in submitted
      PROVE  runs[x] >= 1 \/ \E w \in Workers : Taking(w, x)
  <2>1. QP!TypeOK /\ QP!EntryInv /\ x \in Items
    BY <1>1, SameTypes DEF SchedInv, TypeOK, QueueInv, QP!TypeOK
  <2>2. \A w \in Workers : QP!Drained(w)
    <3>1. consecutiveEmptyQueues = WorkerCount + 1 /\ WorkerCount \in Nat /\ workerIx \in 1 .. WorkerCount
      BY <1>1, SchedulerAssumption DEF SchedInv, Control, MainInLoop, TypeOK, Workers
    <3>2. \A w \in Workers : Behind(w) <= consecutiveEmptyQueues
      BY <3>1 DEF Behind, Workers
    <3>3. QED
      BY <1>1, <3>2 DEF SchedInv, Entries, SyncSees
  <2>3. \/ runs[x] = 1
        \/ \E p \in Threads : QP!Has(p, x)
        \/ \E w \in Workers, n \in Int : QP!Queued(w, n, x)
    BY <2>1 DEF QP!EntryInv, QP!OnePlace, QP!Accounted
  <2>4. ASSUME NEW p \in Threads, QP!Has(p, x)
        PROVE  \E w \in Workers : Taking(w, x)
    <3>1. p # Main
      BY <1>1, <2>4 DEF SchedInv, Control, MainControl, QP!Has, QP!Handling, QP!PushLabel, QP!Ready
    <3>2. p \in Workers /\ Taking(p, x)
      BY <2>4, <3>1, ThreadKinds DEF QP!Has, Taking, Q!FnWord, QP!FnWord
    <3>3. QED
      BY <3>2
  <2>5. ASSUME NEW w \in Workers, NEW n \in Int, QP!Queued(w, n, x)
        PROVE  Taking(w, x)
    BY <1>1, <2>1, <2>2, <2>5, LastEntryIsTaken
  <2>6. QED
    BY <2>3, <2>4, <2>5
<1>2. SchedInv => SyncLeavesNothingQueued
  BY <1>1 DEF SyncLeavesNothingQueued
<1>3. QED
  BY <1>2, SchedulerIsSound, PTL
-----------------------------------------------------------------------------
(* The counter of the batch.  Besides the tasks to be pushed and to be run *)
(* it counts the workers that have run one and not yet counted down; all   *)
(* earlier batches have been run when a batch begins.                      *)
Unrun == {x \in batch : runs[x] = 0}
Finishing == {w \in Workers : wpc[w] = "popping" /\ pc[w] = "idle"}
ToPush == (length - i) - (IF Submitting THEN 1 ELSE 0)

EarlierRun == \A x \in submitted : x \in batch \/ runs[x] = 1
CounterInv ==
  /\ EarlierRun
  /\ IsFiniteSet(batch)
  /\ depCounter >= Cardinality(Unrun) + ToPush + Cardinality(Finishing)

(* What the counter is compared with is finite.                            *)
LEMMA CountsAreNat ==
  ASSUME TypeOK, MainInLoop, IsFiniteSet(batch)
  PROVE  /\ IsFiniteSet(Unrun) /\ Cardinality(Unrun) \in Nat
         /\ IsFiniteSet(Finishing) /\ Cardinality(Finishing) \in Nat
         /\ ToPush \in Nat
<1>1. IsFiniteSet(Unrun)
  BY FS_Subset DEF Unrun
<1>2. IsFiniteSet(Finishing)
  <2>1. IsFiniteSet(Workers)
    BY FS_Interval, SchedulerAssumption DEF Workers
  <2>2. QED
    BY <2>1, FS_Subset DEF Finishing
<1>3. ToPush \in Nat
  BY DEF ToPush, TypeOK, MainInLoop
<1>4. QED
  BY <1>1, <1>2, <1>3, FS_CardinalityType

(* Submitting a batch sets the counter when nothing is left to count.      *)
LEMMA SubmitCounts ==
  ASSUME Cautious, WorkerCount < CounterModulus, SchedInv, CounterInv,
         NEW n \in BatchLengths, Submit(n)
  PROVE  CounterInv'
<1>1. \A w \in Workers : Idle(w)
  BY DEF Submit, Cautious
<1>2. /\ \A w \in Workers : /\ ~ (wpc'[w] = "popping" /\ pc'[w] = "idle")
                            /\ pc[w] \in QP!Ready /\ QP!Drained(w)
      /\ pc[Main] \in QP!Ready
  BY <1>1 DEF Submit, workerVars, queueVars, Idle, Quiet, QP!Drained, QP!Ready, SchedInv, Control,
              WorkerControl, MainControl
<1>3. QP!NothingLost /\ QP!RunFromHand /\ submitted \subseteq Items
  BY SameTypes, QueuesFit, QP!EmptyMeansRun
     DEF SchedInv, TypeOK, QueueInv, QP!EntryInv, QP!OnePlace, QP!TypeOK
<1>4. \A x \in submitted : runs[x] = 1
  <2>1. \A x \in submitted : runs[x] >= 1
    BY <1>2, <1>3, ThreadKinds DEF QP!NothingLost, QP!Drained
  <2>2. \A x \in submitted : runs[x] \in {0, 1}
    BY <1>3 DEF QP!RunFromHand
  <2>3. QED
    BY <2>1, <2>2
<1>5. /\ batch' = {} /\ runs' = runs /\ submitted' = submitted
      /\ depCounter' = n % CounterModulus /\ length' = n /\ i' = 0 /\ mpc' = "batch"
  BY DEF Submit, Counted, queueVars
<1>6. n \in Nat /\ n < CounterModulus /\ CounterModulus \in Nat \ {0} /\ n % CounterModulus = n
  <2>1. n \in Nat /\ n <= WorkerCount /\ CounterModulus \in Nat \ {0} /\ WorkerCount \in Nat
    BY SchedulerAssumption DEF Cautious
  <2>2. QED
    BY <2>1
<1>7. Unrun' = {} /\ Finishing' = {} /\ ToPush' = n
  BY <1>2, <1>5, <1>6 DEF Unrun, Finishing, ToPush, Submitting
<1>8. QED
  BY <1>4, <1>5, <1>6, <1>7, FS_EmptySet DEF CounterInv, EarlierRun

(* A push takes one from the tasks to be pushed to those to be run.        *)
LEMMA PushCounts ==
  ASSUME SchedInv, CounterInv, CallPush
  PROVE  CounterInv'
<1>1. PICK x \in Items : Q!PushBegin(Main, Target, x) /\ batch' = batch \cup {x}
  BY DEF CallPush
<1>2. /\ x \notin submitted /\ submitted' = submitted \cup {x} /\ runs' = runs
      /\ pc' = [pc EXCEPT ![Main] = "push_top"]
  BY <1>1 DEF Q!PushBegin, Q!Goto
<1>3. /\ mpc = "batch" /\ mpc' = "pushing"
      /\ UNCHANGED <<wpc, length, i, depCounter>>
  BY DEF CallPush, workerVars
<1>4. runs[x] = 0 /\ x \notin batch
  <2>1. runs[x] # 1 /\ runs[x] \in {0, 1}
    BY <1>2 DEF SchedInv, QueueInv, QP!EntryInv, QP!OnePlace, QP!Accounted, QP!RunFromHand
  <2>2. QED
    BY <1>2, <2>1 DEF SchedInv, TypeOK
<1>5. Unrun' = Unrun \cup {x} /\ x \notin Unrun
  BY <1>1, <1>2, <1>4 DEF Unrun
<1>6. Finishing' = Finishing
  <2>1. pc \in [Threads -> QP!Label]
    BY SameTypes DEF SchedInv, TypeOK, QP!TypeOK
  <2>2. \A w \in Workers : pc'[w] = pc[w]
    BY <1>2, <2>1, ThreadKinds
  <2>3. QED
    BY <1>3, <2>2 DEF Finishing
<1>7. /\ IsFiniteSet(Unrun) /\ Cardinality(Unrun) \in Nat /\ Cardinality(Finishing) \in Nat
      /\ ToPush \in Nat /\ depCounter \in Int
      /\ depCounter >= Cardinality(Unrun) + ToPush + Cardinality(Finishing)
  BY CountsAreNat DEF SchedInv, Control, CounterInv, TypeOK
<1>8. ToPush' = ToPush - 1
  BY <1>3 DEF ToPush, Submitting, SchedInv, TypeOK
<1>9. Cardinality(Unrun)' = Cardinality(Unrun) + 1
  BY <1>5, <1>7, FS_AddElement
<1>10. depCounter' >= Cardinality(Unrun)' + ToPush' + Cardinality(Finishing)'
  BY <1>3, <1>6, <1>7, <1>8, <1>9
<1>11. EarlierRun' /\ IsFiniteSet(batch')
  BY <1>1, <1>2, FS_AddElement DEF CounterInv, EarlierRun
<1>12. QED
  BY <1>10, <1>11 DEF CounterInv

(* A worker that has run a task counts it down, so the counter is at least *)
(* one and does not wrap.                                                  *)
LEMMA CountDownCounts ==
  ASSUME SchedInv, CounterInv, NEW w \in Workers, CountDown(w)
  PROVE  CounterInv'
<1>1. /\ wpc[w] = "popping" /\ pc[w] = "idle" /\ wpc' = [wpc EXCEPT ![w] = "loop"]
      /\ UNCHANGED <<submitted, runs, pc, batch, length, i, mpc>>
  BY DEF CountDown, GoWorker, queueVars, mainVars, batchVars
<1>2. /\ IsFiniteSet(Finishing) /\ Cardinality(Unrun) \in Nat /\ Cardinality(Finishing) \in Nat
      /\ ToPush \in Nat /\ depCounter \in Nat /\ depCounter <= CounterModulus - 1
      /\ depCounter >= Cardinality(Unrun) + ToPush + Cardinality(Finishing)
      /\ CounterModulus \in Nat \ {0}
  BY CountsAreNat, SchedulerAssumption DEF SchedInv, Control, CounterInv, TypeOK
<1>3. Finishing' = Finishing \ {w} /\ w \in Finishing
  BY <1>1 DEF Finishing, SchedInv, TypeOK
<1>4. Cardinality(Finishing)' = Cardinality(Finishing) - 1 /\ Cardinality(Finishing)' \in Nat
  BY <1>2, <1>3, FS_RemoveElement, FS_CardinalityType
<1>5. Unrun' = Unrun /\ ToPush' = ToPush
  BY <1>1 DEF Unrun, ToPush, Submitting
<1>6. depCounter' = depCounter \/ depCounter' = depCounter - 1
  <2>1. depCounter >= 1
    BY <1>2, <1>4
  <2>2. depCounter - 1 \in Nat /\ depCounter - 1 < CounterModulus
    BY <1>2, <2>1
  <2>3. (depCounter - 1) % CounterModulus = depCounter - 1
    BY <1>2, <2>2
  <2>4. QED
    BY <2>3 DEF CountDown
<1>7. depCounter' >= Cardinality(Unrun)' + ToPush' + Cardinality(Finishing)'
  BY <1>2, <1>4, <1>5, <1>6
<1>8. QED
  BY <1>1, <1>7 DEF CounterInv, EarlierRun

(* A task that comes to its end was counted as one of the batch.           *)
LEMMA RunCounts ==
  ASSUME SchedInv, CounterInv, NEW p \in Threads, Operate(p), pc[p] = "run"
  PROVE  CounterInv'
<1>1. /\ pc'[p] = "idle" /\ \A s \in Threads : s # p => pc'[s] = pc[s]
      /\ submitted' = submitted
      /\ UNCHANGED <<wpc, mpc, length, i, batch, depCounter>>
  BY OperateFrame DEF SchedInv
<1>2. QP!Run(p)
  BY OperateFrame DEF SchedInv, QP!Inside, QP!Push, QP!PushTop, QP!PushFn, QP!PushArg, QP!PushBottom,
     QP!Pop, QP!PopStore, QP!PopTop, QP!PopFn, QP!PopArg, QP!PopCas, QP!PopWon, QP!PopLost,
     QP!Steal, QP!StealBottom, QP!StealFn, QP!StealArg, QP!StealCas
<1>3. PICK x \in Items : fn[p] = QP!FnWord(x) /\ runs' = [runs EXCEPT ![x] = @ + 1]
  BY <1>2 DEF QP!Run
<1>4. runs[x] = 0 /\ x \in submitted
  BY <1>3 DEF SchedInv, QueueInv, QP!EntryInv, QP!OnePlace, QP!Accounted, QP!RunFromHand, QP!Has,
              QP!Handling
<1>5. runs \in [Items -> Nat] /\ x \in batch /\ batch \subseteq Items
  BY <1>4, SameTypes DEF SchedInv, TypeOK, QP!TypeOK, CounterInv, EarlierRun
<1>6. Unrun' = Unrun \ {x} /\ x \in Unrun
  BY <1>1, <1>3, <1>4, <1>5 DEF Unrun
<1>7. /\ IsFiniteSet(Unrun) /\ Cardinality(Unrun) \in Nat
      /\ IsFiniteSet(Finishing) /\ Cardinality(Finishing) \in Nat
      /\ ToPush \in Nat /\ depCounter \in Int
      /\ depCounter >= Cardinality(Unrun) + ToPush + Cardinality(Finishing)
  BY CountsAreNat DEF SchedInv, Control, CounterInv, TypeOK
<1>8. Cardinality(Unrun)' = Cardinality(Unrun) - 1
  BY <1>6, <1>7, FS_RemoveElement
<1>9. /\ Cardinality(Finishing)' \in Nat
      /\ Cardinality(Finishing)' <= Cardinality(Finishing) + 1
  <2>1. CASE p \in Workers
    <3>1. wpc[p] = "popping"
      BY <2>1 DEF SchedInv, Control, WorkerControl, QP!Ready
    <3>2. /\ \A w \in Workers :
               (wpc'[w] = "popping" /\ pc'[w] = "idle") <=> (w \in Finishing \/ w = p)
          /\ p \notin Finishing
      BY <1>1, <2>1, <3>1, ThreadKinds DEF Finishing
    <3>3. Finishing' = Finishing \cup {p}
      BY <2>1, <3>2 DEF Finishing
    <3>4. Cardinality(Finishing)' = Cardinality(Finishing) + 1
      BY <1>7, <3>2, <3>3, FS_AddElement
    <3>5. QED
      BY <1>7, <3>4
  <2>2. CASE p = Main
    <3>1. Finishing' = Finishing
      BY <1>1, <2>2, ThreadKinds DEF Finishing
    <3>2. QED
      BY <1>7, <3>1
  <2>3. QED
    BY <2>1, <2>2, ThreadKinds
<1>10. ToPush' = ToPush
  BY <1>1 DEF ToPush, Submitting
<1>11. depCounter' >= Cardinality(Unrun)' + ToPush' + Cardinality(Finishing)'
  BY <1>1, <1>7, <1>8, <1>9, <1>10
<1>12. EarlierRun'
  BY <1>1, <1>3, <1>4, <1>5 DEF CounterInv, EarlierRun
<1>13. QED
  BY <1>1, <1>11, <1>12 DEF CounterInv

(* No other step changes what is to be counted.                            *)
LEMMA OthersCount ==
  ASSUME CounterInv, UNCHANGED <<submitted, runs, batch, depCounter>>,
         ToPush' = ToPush, Finishing' = Finishing
  PROVE  CounterInv'
BY DEF CounterInv, EarlierRun, Unrun

(* No step lets the counter fall below what is still to run of the batch.  *)
LEMMA CounterStep ==
  ASSUME Cautious, WorkerCount < CounterModulus, SchedInv, CounterInv, [Next]_vars
  PROVE  CounterInv'
<1> USE DEF mainVars, batchVars, workerVars, GoWorker
<1>1. /\ pc \in [Threads -> QP!Label] /\ length \in Nat /\ i \in Nat
      /\ wpc \in [Workers -> {"loop", "popping", "waiting", "woken"}]
      /\ TypeOK /\ WorkerControl /\ MainControl /\ MainInLoop
  BY SameTypes DEF SchedInv, TypeOK, QP!TypeOK, Control
<1>2. ASSUME NEW p \in Threads, Operate(p), pc[p] # "run"
      PROVE  CounterInv'
  <2>1. /\ UNCHANGED <<submitted, runs, batch, depCounter, wpc, mpc, length, i>>
        /\ \A s \in Threads : s # p => pc'[s] = pc[s]
        /\ pc[p] \in QP!PopLabel => pc'[p] \in QP!PopLabel \cup {"run", "empty"}
        /\ pc[p] \notin QP!Ready
    BY <1>1, <1>2, OperateFrame
  <2>2. \A w \in Workers : pc'[w] = "idle" <=> pc[w] = "idle"
    BY <1>1, <1>2, <2>1, ThreadKinds DEF WorkerControl, QP!PopLabel, QP!Ready
  <2>3. QED
    BY <2>1, <2>2, OthersCount DEF ToPush, Submitting, Finishing
<1>3. ASSUME NEW w \in Workers, CallPop(w) \/ FallAsleep(w) \/ TakeToken(w) \/ WakeUp(w)
      PROVE  CounterInv'
  <2>1. UNCHANGED <<submitted, runs, batch, depCounter, mpc, length, i>>
    BY <1>3 DEF CallPop, FallAsleep, TakeToken, WakeUp, queueVars, Q!PopBegin, Q!history
  <2>2. Finishing' = Finishing
    BY <1>1, <1>3, ThreadKinds DEF CallPop, FallAsleep, TakeToken, WakeUp, queueVars, Q!PopBegin,
                                   Q!Goto, Finishing
  <2>3. QED
    BY <2>1, <2>2, OthersCount DEF ToPush, Submitting
<1>4. CASE \/ LookAsleep \/ Signal \/ BatchReturns \/ CallSteal \/ NextVictim
           \/ SyncReturns \/ AfterSync \/ CallSync
  <2>1. UNCHANGED <<submitted, runs, batch, depCounter, wpc>>
    BY <1>4 DEF LookAsleep, Signal, BatchReturns, CallSteal, NextVictim, SyncReturns, AfterSync,
                CallSync, queueVars, Q!StealBegin, Q!history
  <2>2. ToPush' = ToPush
    BY <1>1, <1>4 DEF LookAsleep, Signal, BatchReturns, CallSteal, NextVictim, SyncReturns,
                      AfterSync, CallSync, ToPush, Submitting
  <2>3. \A w \in Workers : pc'[w] = pc[w]
    BY <1>1, <1>4, ThreadKinds
       DEF LookAsleep, Signal, BatchReturns, CallSteal, NextVictim, SyncReturns, AfterSync,
           CallSync, queueVars, Q!StealBegin, Q!Goto
  <2>4. QED
    BY <2>1, <2>2, <2>3, OthersCount DEF Finishing
<1>5. CASE UNCHANGED vars
  BY <1>5, OthersCount DEF vars, queueVars, ToPush, Submitting, Finishing
<1>6. QED
  BY <1>2, <1>3, <1>4, <1>5, RunCounts, CountDownCounts, PushCounts, SubmitCounts
     DEF Next, Running, Worker, MainCalled

(* The counter never reads zero before the batch has been pushed and run:  *)
(* nothing that the main thread or a worker does in between takes it below *)
(* the tasks outstanding, and no decrement wraps it.                       *)
THEOREM CounterNeverShort ==
  ASSUME Cautious, PtrSize >= 2, WorkerCount < CounterModulus
  PROVE  Spec => []CounterCoversBatch
<1>1. Init => CounterInv
  <2>1. Init => Unrun = {} /\ Finishing = {} /\ batch = {}
    BY DEF Init, Unrun, Finishing
  <2>a. Init => length = 0 /\ i = 0 /\ mpc = "client" /\ depCounter = 0
    BY DEF Init
  <2>b. Init => ToPush = 0
    BY <2>a DEF ToPush, Submitting
  <2>c. Init => submitted = {}
    BY DEF Init, Q!Init
  <2>3. QED
    BY <2>1, <2>a, <2>b, <2>c, FS_EmptySet DEF CounterInv, EarlierRun
<1>2. SchedInv /\ CounterInv /\ [Next]_vars => CounterInv'
  BY CounterStep
<1>3. SchedInv /\ CounterInv => CounterCoversBatch
  <2> SUFFICES ASSUME SchedInv, CounterInv PROVE CounterCoversBatch
    OBVIOUS
  <2>1. /\ Cardinality(Unrun) \in Nat /\ Cardinality(Finishing) \in Nat /\ ToPush \in Nat
        /\ depCounter \in Int
        /\ depCounter >= Cardinality(Unrun) + ToPush + Cardinality(Finishing)
    BY CountsAreNat DEF SchedInv, Control, CounterInv, TypeOK
  <2>2. depCounter >= Cardinality(Unrun) + ToPush
    BY <2>1
  <2>3. QED
    BY <2>1, <2>2 DEF CounterCoversBatch, Unrun, ToPush, Submitting, SchedInv, TypeOK
<1>4. QED
  BY <1>1, <1>2, <1>3, SchedulerIsSound, PTL DEF Spec

-----------------------------------------------------------------------------
(* Workers, Scheduler_ProcessTaskBatch and Scheduler_Sync use the queues   *)
(* only through Push, Pop and Steal, one call of each thread at a time:    *)
(* what is true of all clients of the queues is true here.                 *)
THEOREM SchedulerIsAClient == Spec => QP!Spec
<1>1. Init => QP!Init
  BY SameInit DEF Init
<1>2. QED
  BY <1>1, QueueStep, TypeCorrect, PTL DEF Spec, QP!Spec

(* For the cautious client the scheduler with its queues is a bag of       *)
(* tasks: each is put in, taken whole by a worker or by Scheduler_Sync,    *)
(* and finished.                                                           *)
THEOREM SchedulerIsABag ==
  ASSUME Cautious, PtrSize >= 2
  PROVE  Spec => QP!ImplementsBag
<1>1. Init => QP!Bag!Init
  BY SameInit, QueuesFit, QP!BagInit DEF Init
<1>2. SchedInv /\ SchedInv' /\ [Next]_vars => [QP!Bag!Next]_(QP!Bag!bagVars)
  <2> SUFFICES ASSUME SchedInv, SchedInv', [Next]_vars
               PROVE  [QP!Bag!Next]_(QP!Bag!bagVars)
    OBVIOUS
  <2>1. QP!TypeOK /\ QP!TypeOK'
    BY SameTypes DEF SchedInv, TypeOK
  <2>2. QP!OneInside /\ QP!IndexInv /\ QP!EntryInv
    BY TargetIsQuiet DEF SchedInv, QueueInv
  <2>3. [QP!Next]_(QP!vars)
    BY QueueStep DEF SchedInv
  <2>4. QED
    BY <2>1, <2>2, <2>3, QueuesFit, QP!BagStep
<1>3. QED
  BY <1>1, <1>2, SchedulerIsSound, PTL DEF Spec, QP!ImplementsBag, QP!Bag!Spec

=============================================================================
