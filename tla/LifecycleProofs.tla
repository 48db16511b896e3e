--------------------------- MODULE LifecycleProofs ---------------------------
(***************************************************************************)
(* Theorems about Lifecycle, for every number of workers, whether or not   *)
(* the system may refuse what it is asked for.                             *)
(***************************************************************************)
EXTENDS Lifecycle, TLAPS

(* A worker is told its own context or reads garbage, and it is on that    *)
(* context from its start on; the main thread only ever is on context 0.   *)
OwnContext ==
  /\ current[Main] \in {Main, None}
  /\ \A w \in Workers :
       /\ args[w] \in {w, Garbage}
       /\ current[w] \in {w, None}
       /\ thread[w] \in {"none", "created"} => current[w] = None
       /\ thread[w] \in {"running", "asleep"} => current[w] = w

(* Until the first Update nothing overwrites the information of a thread   *)
(* that was created.                                                       *)
InfoLastsFrame ==
  inFrame => \A w \in Workers : thread[w] # "none" => args[w] = w

(* How far Worker_Init has come tells which threads there are.             *)
Created(n) == \A w \in Workers : w <= n <=> thread[w] # "none"

CreatedInOrder ==
  /\ stage = "down" => i = 0
  /\ stage \in {"down", "create"} => Created(i)
  /\ stage = "store" => i < WorkerCount /\ Created(i + 1)
  /\ stage \in {"up", "join", "release", "gone"} => Created(WorkerCount)

PoolHeld == stage \in {"create", "store", "up", "join", "release"} => pool = "held"

(* The inductive invariant: OneThreadPerContext follows from OwnContext,   *)
(* and what the process needs of the engine from the rest.                 *)
LifecycleInv ==
  TypeOK /\ OwnContext /\ InfoLastsFrame /\ CreatedInOrder /\ PoolHeld

(* Before Engine::Initialize there are no threads and no contexts.         *)
LEMMA InitInv == Init => LifecycleInv
<1> SUFFICES ASSUME Init PROVE LifecycleInv
  OBVIOUS
<1> USE LifecycleAssumption DEF Init, Workers, Threads, Main, None, Garbage
<1>1. TypeOK
  <2>1. args \in [Workers -> Workers \cup {Garbage}] /\ current \in [Threads -> Threads \cup {None}]
    OBVIOUS
  <2>2. /\ handle \in [Workers -> BOOLEAN] /\ semaphore \in [Workers -> BOOLEAN]
        /\ thread \in [Workers -> {"none", "created", "running", "asleep", "faulted"}]
    <3>1. handle = [w \in Workers |-> FALSE] /\ semaphore = [w \in Workers |-> FALSE]
      OBVIOUS
    <3>2. [w \in Workers |-> FALSE] \in [Workers -> BOOLEAN]
      OBVIOUS
    <3>3. QED
      BY <3>1, <3>2
  <2>3. i \in 0 .. WorkerCount
    OBVIOUS
  <2>4. inFrame \in BOOLEAN
    OBVIOUS
  <2>5. QED
    BY <2>1, <2>2, <2>3, <2>4 DEF TypeOK
<1>2. OwnContext /\ InfoLastsFrame
  BY DEF OwnContext, InfoLastsFrame
<1>3. CreatedInOrder /\ PoolHeld
  BY DEF CreatedInOrder, Created, PoolHeld
<1>4. QED
  BY <1>1, <1>2, <1>3 DEF LifecycleInv

(* No step is taken after a fault, and every other step keeps the          *)
(* invariant.                                                              *)
LEMMA StepInv == LifecycleInv /\ [Next]_vars => LifecycleInv'
<1> SUFFICES ASSUME LifecycleInv, [Next]_vars PROVE LifecycleInv'
  OBVIOUS
<1> USE LifecycleAssumption
    DEF LifecycleInv, TypeOK, OwnContext, InfoLastsFrame, CreatedInOrder, Created, PoolHeld,
        contexts, infos, workers, vars, Workers, Threads, Main, None,
        Garbage, Info
<1>1. CASE ~ Faulted /\ InitializeContexts
  <2>1. semaphore' \in [Workers -> BOOLEAN]
    <3>1. semaphore' \in [Workers -> BOOLEAN] \/ semaphore' \in [Workers -> {TRUE}]
      BY <1>1 DEF InitializeContexts
    <3>2. [Workers -> {TRUE}] \subseteq [Workers -> BOOLEAN]
      OBVIOUS
    <3>3. QED
      BY <3>1, <3>2
  <2>2. current' \in [Threads -> Threads \cup {None}]
    BY <1>1 DEF InitializeContexts
  <2>3. \A w \in Workers : thread'[w] = "none" /\ current'[w] = None /\ args'[w] = args[w]
    BY <1>1 DEF InitializeContexts
  <2>4. TypeOK'
    BY <1>1, <2>1, <2>2 DEF InitializeContexts
  <2>5. QED
    BY <1>1, <2>3, <2>4 DEF Faulted, InitializeContexts
<1>2. CASE ~ Faulted /\ PoolRefused
  BY <1>2 DEF Faulted, PoolRefused
<1>3. CASE ~ Faulted /\ CreateThread
  BY <1>3 DEF Faulted, CreateThread, ContextFor
<1>4. CASE ~ Faulted /\ ThreadRefused
  BY <1>4 DEF Faulted, ThreadRefused, ContextFor
<1>5. CASE ~ Faulted /\ StoreHandle
  BY <1>5 DEF Faulted, StoreHandle
<1>6. CASE ~ Faulted /\ InitializeReturns
  BY <1>6 DEF Faulted, InitializeReturns
<1>7. CASE ~ Faulted /\ Update
  BY <1>7 DEF Faulted, Update
<1>8. CASE ~ Faulted /\ AllocateTransient
  BY <1>8 DEF Faulted, AllocateTransient
<1>9. CASE ~ Faulted /\ CallShutdown
  BY <1>9 DEF Faulted, CallShutdown
<1>10. CASE ~ Faulted /\ Join
  BY <1>10 DEF Faulted, Join
<1>11. CASE ~ Faulted /\ Release
  BY <1>11 DEF Faulted, Release
<1>12. ASSUME ~ Faulted, NEW w \in Workers, ThreadStarts(w)
      PROVE  LifecycleInv'
  <2>1. thread[w] = "created" /\ current[w] = None /\ UNCHANGED <<stage, i, pool, infos, contexts>>
    BY <1>12 DEF ThreadStarts
  <2>2. CASE args[w] = Garbage \/ pool = "released"
    <3>1. thread' = [thread EXCEPT ![w] = "faulted"] /\ UNCHANGED current
      BY <1>12, <2>2 DEF ThreadStarts, Fault
    <3>2. QED
      BY <1>12, <2>1, <2>2, <3>1 DEF Faulted
  <2>3. CASE args[w] # Garbage /\ pool # "released"
    <3>1. /\ thread' = [thread EXCEPT ![w] = "running"]
          /\ current' = [current EXCEPT ![w] = w]
      BY <1>12, <2>3 DEF ThreadStarts
    <3>2. QED
      BY <1>12, <2>1, <3>1 DEF Faulted
  <2>4. QED
    BY <2>2, <2>3
<1>13. ASSUME ~ Faulted, NEW w \in Workers, WorkerSleeps(w)
      PROVE  LifecycleInv'
  BY <1>13 DEF Faulted, Fault, WorkerSleeps
<1>14. CASE UNCHANGED vars
  BY <1>14
<1>15. QED
  BY <1>1, <1>2, <1>3, <1>4, <1>5, <1>6, <1>7, <1>8, <1>9, <1>10, <1>11, <1>12, <1>13, <1>14
     DEF Next, Engine, InitializeSteps, Worker

(* The invariant that the theorems below are read off.                     *)
LEMMA Invariance == Spec => []LifecycleInv
BY InitInv, StepInv, PTL DEF Spec

(* The engine's stages, contexts and threads keep their types.             *)
THEOREM TypeCorrect == Spec => []TypeOK
<1>1. LifecycleInv => TypeOK
  BY DEF LifecycleInv
<1>2. QED
  BY <1>1, Invariance, PTL

(* However late the threads start and however many there are, no two run   *)
(* on one context.                                                         *)
THEOREM ContextsAreOwn == Spec => []OneThreadPerContext
<1>1. LifecycleInv => OneThreadPerContext
  <2> SUFFICES ASSUME LifecycleInv,
                      NEW p \in Threads, NEW q \in Threads, p # q, current[p] = current[q]
               PROVE  current[p] = None
    BY DEF OneThreadPerContext
  <2>1. \A t \in Threads : current[t] \in {t, None}
    BY DEF LifecycleInv, OwnContext, Threads, Workers, Main
  <2>2. QED
    BY <2>1
<1>2. QED
  BY <1>1, Invariance, PTL

=============================================================================
