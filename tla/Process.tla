------------------------------ MODULE Process ------------------------------
(***************************************************************************)
(* The launcher's process: main of Launcher/main.cpp calls the engine of   *)
(* Lifecycle and the game, the worker threads run beside it, and the       *)
(* developer goes on building.  The main thread is in one place of the     *)
(* launcher; while that is a call of the engine, stage tells where in the  *)
(* engine.  A fault of any thread ends the process, and so does main when  *)
(* it returns, whatever the workers are doing.                             *)
(***************************************************************************)
EXTENDS Lifecycle

CONSTANTS MaxBuilds, MaxSignals, BufferSize, FileLocked   \* see Launcher

VARIABLES
  pc, first, isRunning, loaded, exports, fns, bound, queued, triggered,
  disk, builds, signals, developer

L == INSTANCE Launcher

launcher == <<pc, first, isRunning, loaded, exports, fns, bound, queued, triggered,
              disk, builds, signals, developer>>
processVars == <<launcher, vars>>

Ended == L!Ended \/ Faulted

ProcessInit == L!Init /\ Init

-----------------------------------------------------------------------------
(* The main thread.  Initialize and Update return with their last step;    *)
(* the game may allocate while one of its functions runs.                  *)

LauncherStep ==
  /\ \/ L!StartServer \/ L!Exists \/ L!Copy \/ L!LoadLib \/ L!LoadSymbols
     \/ L!Unload \/ L!Loop \/ L!CheckForSignal
  /\ UNCHANGED vars

GameStep ==
  /\ L!InitFn \/ L!UpdateFn \/ L!ShutdownFn
  /\ AllocateTransient \/ UNCHANGED vars

InitializeEngine ==
  \/ pc = "initialize" /\ InitializeSteps /\ UNCHANGED launcher
  \/ L!Initialize /\ InitializeReturns

UpdateEngine == L!EngineUpdate /\ Update

ShuttingDown == CallShutdown \/ Join \/ Release

(* Mutant: the engine is shut down before the game's shutdownFn.           *)
ShutdownEngineFirst ==
  /\ pc \in {"shutdown_fn", "engine_shutdown"}
  /\ ShuttingDown
  /\ UNCHANGED launcher

ShutdownEngine ==
  /\ pc = "engine_shutdown"
  /\ ShuttingDown
  /\ UNCHANGED launcher

(* The pool is gone, the process not yet: a worker may still run.          *)
MainReturns ==
  /\ stage = "gone"
  /\ L!EngineShutdown
  /\ UNCHANGED vars

MainStep ==
  /\ ~ Ended
  /\ \/ LauncherStep \/ GameStep
     \/ InitializeEngine \/ UpdateEngine \/ ShutdownEngine \/ MainReturns

DeveloperStep == ~ Ended /\ L!Developer /\ UNCHANGED vars

WorkerStep(w) == ~ Ended /\ Worker(w) /\ UNCHANGED launcher

ProcessNext == MainStep \/ DeveloperStep \/ \E w \in Workers : WorkerStep(w)

ProcessSpec == ProcessInit /\ [][ProcessNext]_processVars

(* The threads of the process are scheduled; the game need not end, nobody *)
(* has to build, and a developer who began may leave it at that.           *)
LiveSpec ==
  /\ ProcessSpec
  /\ WF_processVars(MainStep)
  /\ \A w \in Workers : WF_processVars(WorkerStep(w))

-----------------------------------------------------------------------------
(* Properties *)

(* The game is called only between the end of Initialize and the beginning *)
(* of Shutdown, with the pool held and every worker created.               *)
GameSeesEngine ==
  pc \in {"init_fn", "loop", "check", "unload", "engine_update", "update_fn", "shutdown_fn"}
    => stage = "up" /\ pool = "held" /\ \A w \in Workers : thread[w] # "none"

(* Every worker thread that is created gets onto its own context, as long  *)
(* as the process lasts.                                                   *)
EveryWorkerStarts ==
  \A w \in Workers : thread[w] = "created" ~> (current[w] = w \/ Ended)

(* A game that clears isRunning is rid of the process, though nothing ever *)
(* tells a worker to stop: no reload, join or sleeping thread is waited    *)
(* for in vain.                                                            *)
GameCanQuit == ~ isRunning ~> Ended

(* While the game runs and the signals end, there is always a next frame.  *)
FramesGoOn == pc = "loop" ~> (pc = "update_fn" \/ Ended \/ ~ isRunning)

=============================================================================
