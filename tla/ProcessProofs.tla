---------------------------- MODULE ProcessProofs ----------------------------
(***************************************************************************)
(* Theorems about Process: the launcher and the engine, composed, behave   *)
(* as Launcher and Lifecycle say, and the game is called only while the    *)
(* engine is up.                                                           *)
(***************************************************************************)
EXTENDS Process, LifecycleProofs

(* Seen from the engine, a step of the process is a step of the engine or  *)
(* none.                                                                   *)
LEMMA StepOfEngine == [ProcessNext]_processVars => [Next]_vars
<1> USE DEF Ended, Next, Engine
<1>1. MainStep => [Next]_vars
  BY DEF MainStep, LauncherStep, GameStep, InitializeEngine, UpdateEngine, ShutdownEngine,
         ShuttingDown, MainReturns
<1>2. DeveloperStep => [Next]_vars
  BY DEF DeveloperStep
<1>3. (\E w \in Workers : WorkerStep(w)) => [Next]_vars
  BY DEF WorkerStep
<1>4. QED
  BY <1>1, <1>2, <1>3 DEF ProcessNext, processVars

(* Seen from the launcher, it is a step of main or the developer, or none. *)
LEMMA StepOfLauncher == [ProcessNext]_processVars => [L!Next]_(L!vars)
<1> USE DEF Ended, L!Next, L!Main, launcher, L!vars, L!game, L!socket, L!outside
<1>1. MainStep => [L!Next]_(L!vars)
  BY DEF MainStep, LauncherStep, GameStep, InitializeEngine, UpdateEngine, ShutdownEngine,
         MainReturns
<1>2. DeveloperStep => [L!Next]_(L!vars)
  BY DEF DeveloperStep
<1>3. (\E w \in Workers : WorkerStep(w)) => [L!Next]_(L!vars)
  BY DEF WorkerStep
<1>4. QED
  BY <1>1, <1>2, <1>3 DEF ProcessNext, processVars

(* Calling the engine from main, interleaved with its workers, adds no     *)
(* behaviour to either: both components run inside the process as they are *)
(* specified alone.                                                        *)
THEOREM ProcessImplementsParts == ProcessSpec => Spec /\ L!Spec
<1>1. ProcessInit => Init /\ L!Init
  BY DEF ProcessInit
<1>2. QED
  BY <1>1, StepOfEngine, StepOfLauncher, PTL DEF ProcessSpec, Spec, L!Spec

(* From the end of Initialize to the beginning of Shutdown main is in one  *)
(* of these places, and the engine is up.                                  *)
InGame == {"exists", "copy", "load_lib", "symbols", "init_fn", "loop", "check", "unload",
           "engine_update", "update_fn", "shutdown_fn"}

EngineUp == pc \in InGame => stage = "up"

(* The launcher starts before the engine.                                  *)
LEMMA EngineUpInit == ProcessInit => EngineUp
BY DEF ProcessInit, L!Init, EngineUp, InGame

(* main calls the game only between Engine::Initialize and                 *)
(* Engine::Shutdown.                                                       *)
LEMMA EngineUpStep == EngineUp /\ [ProcessNext]_processVars => EngineUp'
<1> SUFFICES ASSUME EngineUp, [ProcessNext]_processVars PROVE EngineUp'
  OBVIOUS
<1> USE DEF EngineUp, InGame, vars, launcher, L!Goto
<1>1. CASE LauncherStep
  BY <1>1 DEF LauncherStep, L!StartServer, L!Exists, L!Copy, L!LoadLib, L!LoadSymbols,
              L!Unload, L!Loop, L!CheckForSignal, L!LoadFails
<1>2. CASE GameStep
  BY <1>2 DEF GameStep, L!InitFn, L!UpdateFn, L!ShutdownFn, AllocateTransient
<1>3. CASE InitializeEngine
  BY <1>3 DEF InitializeEngine, L!Initialize, InitializeReturns
<1>4. CASE UpdateEngine
  BY <1>4 DEF UpdateEngine, L!EngineUpdate, Update
<1>5. CASE ShutdownEngine
  BY <1>5 DEF ShutdownEngine
<1>6. CASE MainReturns
  BY <1>6 DEF MainReturns, L!EngineShutdown
<1>7. CASE DeveloperStep
  BY <1>7 DEF DeveloperStep, L!Developer, L!BuildStarts, L!BuildEnds, L!Send
<1>8. ASSUME NEW w \in Workers, WorkerStep(w)
      PROVE  EngineUp'
  BY <1>8 DEF WorkerStep, Worker, ThreadStarts, WorkerSleeps
<1>9. CASE UNCHANGED processVars
  BY <1>9 DEF processVars
<1>10. QED
  BY <1>1, <1>2, <1>3, <1>4, <1>5, <1>6, <1>7, <1>8, <1>9 DEF ProcessNext, MainStep

(* The game is called only with the engine up, the pool held and every     *)
(* worker created, whatever the system refused and however often the game  *)
(* was reloaded.                                                           *)
THEOREM GameIsServed == ProcessSpec => []GameSeesEngine
<1>1. EngineUp /\ LifecycleInv => GameSeesEngine
  BY DEF EngineUp, InGame, LifecycleInv, GameSeesEngine, PoolHeld, CreatedInOrder, Created,
         Workers
<1>2. ProcessSpec => []EngineUp
  BY EngineUpInit, EngineUpStep, PTL DEF ProcessSpec
<1>3. ProcessSpec => []LifecycleInv
  BY ProcessImplementsParts, Invariance, PTL
<1>4. QED
  BY <1>1, <1>2, <1>3, PTL

(* In the process too each thread has a context of its own, however the    *)
(* launcher interleaves with the threads that start.                       *)
THEOREM WorkersInProcess == ProcessSpec => []OneThreadPerContext
BY ProcessImplementsParts, ContextsAreOwn, PTL

=============================================================================
