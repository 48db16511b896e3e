------------------------------ MODULE Launcher ------------------------------
(***************************************************************************)
(* Hot reloading: main and Game of Launcher/main.cpp, the signal socket of *)
(* trigger.cpp, and the developer who rebuilds the game module and then    *)
(* runs DeltaTrigger.  A build replaces the module file in two steps, so   *)
(* that a load may find it absent or half written.                         *)
(***************************************************************************)
EXTENDS Naturals, FiniteSets

CONSTANTS
  MaxBuilds,   \* a bound: versions of the module that are built
  MaxSignals,  \* a bound: runs of DeltaTrigger that follow no build
  BufferSize,  \* datagrams the socket holds; others are dropped
  FileLocked   \* a loaded module file cannot be written (Windows)

ASSUME LauncherAssumption ==
  /\ MaxBuilds \in Nat \ {0}
  /\ MaxSignals \in Nat
  /\ BufferSize \in Nat \ {0}
  /\ FileLocked \in BOOLEAN

VARIABLES
  pc,          \* where main is
  first,       \* is it the load before the loop?
  isRunning,   \* g_context.isRunning
  loaded,      \* the version of the module that is loaded, 0 if module is 0
  exports,     \* the symbols the loaded version has
  fns,         \* initFn, updateFn, shutdownFn: the version each belongs to
  bound,       \* is g_reloadSocket bound?
  queued,      \* datagrams in its buffer
  triggered,   \* CheckForSignal's local
  disk,        \* the file at modulePath
  builds, signals,   \* how many there were
  developer    \* "idle", "linking", or "built" and about to run DeltaTrigger

game == <<loaded, exports, fns>>
socket == <<bound, queued>>
outside == <<disk, builds, signals, developer>>
vars == <<pc, first, isRunning, game, socket, triggered, outside>>

Fns == {"init", "update", "shutdown"}
NoFns == [f \in Fns |-> 0]
Absent == [state |-> "absent", version |-> 0, exports |-> {}]
Partial == [state |-> "partial", version |-> 0, exports |-> {}]
Whole(v, e) == [state |-> "whole", version |-> v, exports |-> e]

Ended == pc \in {"exit", "crashed"}

Init ==
  /\ pc = "start_server"
  /\ first = TRUE
  /\ isRunning = TRUE
  /\ loaded = 0
  /\ exports = {}
  /\ fns = NoFns
  /\ bound = FALSE
  /\ queued = 0
  /\ triggered = FALSE
  /\ disk \in {Absent, Whole(1, Fns)}
  /\ builds = IF disk = Absent THEN 0 ELSE 1
  /\ signals = 0
  /\ developer = "idle"

Goto(label) == pc' = label

-----------------------------------------------------------------------------
(* The developer: the linker removes or truncates the old file, writes the *)
(* new one, and DeltaTrigger sends a datagram.  A datagram for a socket    *)
(* that is not bound, or full, is gone; Send returns true all the same.    *)

BuildStarts ==
  /\ developer = "idle"
  /\ builds < MaxBuilds
  /\ ~ (FileLocked /\ loaded # 0)
  /\ disk' \in {Absent, Partial}
  /\ builds' = builds + 1
  /\ developer' = "linking"
  /\ UNCHANGED <<pc, first, isRunning, game, socket, triggered, signals>>

BuildEnds ==
  /\ developer = "linking"
  /\ disk' \in {Whole(builds, e) : e \in {Fns, Fns \ {"shutdown"}}}
  /\ developer' = "built"
  /\ UNCHANGED <<pc, first, isRunning, game, socket, triggered, builds, signals>>

Send ==
  /\ developer # "built" => signals < MaxSignals
  /\ signals' = IF developer = "built" THEN signals ELSE signals + 1
  /\ developer' = IF developer = "built" THEN "idle" ELSE developer
  /\ queued' = IF bound /\ queued < BufferSize THEN queued + 1 ELSE queued
  /\ UNCHANGED <<pc, first, isRunning, game, bound, triggered, disk, builds>>

-----------------------------------------------------------------------------
(* main, before the loop *)

StartServer ==
  /\ pc = "start_server"
  /\ \/ bound' = TRUE /\ Goto("initialize")
     \/ bound' = FALSE /\ Goto("exit")
  /\ UNCHANGED <<first, isRunning, game, queued, triggered, outside>>

Initialize ==
  /\ pc = "initialize"
  /\ isRunning' = TRUE
  /\ Goto("exists")
  /\ UNCHANGED <<first, game, socket, triggered, outside>>

(* The game gets the context and may clear isRunning; so in UpdateFn.      *)
InitFn ==
  /\ pc = "init_fn"
  /\ first' = FALSE
  /\ isRunning' \in {isRunning, FALSE}
  /\ Goto("loop")
  /\ UNCHANGED <<game, socket, triggered, outside>>

-----------------------------------------------------------------------------
(* Game::load, the part of Game::reload that follows unload.  A failure of *)
(* the first load ends the process, of a later one the loop.               *)

LoadFails == IF first THEN Goto("exit") ELSE Goto("shutdown_fn")

Exists ==
  /\ pc = "exists"
  /\ IF disk = Absent THEN LoadFails ELSE Goto("copy")
  /\ UNCHANGED <<first, isRunning, game, socket, triggered, outside>>

(* The shadow copy is made and never read; fs::copy may throw.             *)
Copy ==
  /\ pc = "copy"
  /\ LoadFails \/ (disk # Absent /\ Goto("load_lib"))
  /\ UNCHANGED <<first, isRunning, game, socket, triggered, outside>>

LoadLib ==
  /\ pc = "load_lib"
  /\ IF disk.state = "whole"
     THEN /\ loaded' = disk.version
          /\ exports' = disk.exports
          /\ Goto("symbols")
     ELSE UNCHANGED <<loaded, exports>> /\ LoadFails
  /\ UNCHANGED <<first, isRunning, fns, socket, triggered, outside>>

(* loadSymbol; a symbol the module does not have is null.                  *)
LoadSymbol(f) == IF f \in exports THEN loaded ELSE 0

(* Mutant: the symbols are not tested.                                     *)
SymbolsUntested == FALSE
SymbolMissing == \E f \in Fns : LoadSymbol(f) = 0

LoadSymbols ==
  /\ pc = "symbols"
  /\ fns' = [f \in Fns |-> LoadSymbol(f)]
  /\ IF SymbolMissing
     THEN LoadFails
     ELSE Goto(IF first THEN "init_fn" ELSE "loop")
  /\ UNCHANGED <<first, isRunning, loaded, exports, socket, triggered, outside>>

(* Mutant: the old function pointers survive the module.                   *)
FnsKept == fns
FnsUnloaded == NoFns

Unload ==
  /\ pc = "unload"
  /\ loaded' = 0
  /\ exports' = {}
  /\ fns' = FnsUnloaded
  /\ Goto("exists")
  /\ UNCHANGED <<first, isRunning, socket, triggered, outside>>

-----------------------------------------------------------------------------
(* The loop *)

(* Mutant: the local is not initialised by the next call.                  *)
TriggeredStill == triggered
NotTriggered == FALSE

Loop ==
  /\ pc = "loop"
  /\ triggered' = NotTriggered
  /\ Goto(IF isRunning THEN "check" ELSE "shutdown_fn")
  /\ UNCHANGED <<first, isRunning, game, socket, outside>>

(* CheckForSignal: one recvfrom after the other, until none is left.       *)
(* Mutants: the recvfrom that finds nothing counts too; it is the one      *)
(* whose result is returned.                                               *)
ReceivedBlindly == TRUE
Received == queued > 0

LastReceived == FALSE
AnyReceived == triggered

CheckForSignal ==
  /\ pc = "check"
  /\ IF Received
     THEN /\ queued' = queued - 1
          /\ triggered' = TRUE
          /\ UNCHANGED pc
     ELSE /\ Goto(IF AnyReceived THEN "unload" ELSE "engine_update")
          /\ UNCHANGED <<queued, triggered>>
  /\ UNCHANGED <<first, isRunning, game, bound, outside>>

EngineUpdate ==
  /\ pc = "engine_update"
  /\ Goto("update_fn")
  /\ UNCHANGED <<first, isRunning, game, socket, triggered, outside>>

UpdateFn ==
  /\ pc = "update_fn"
  /\ isRunning' \in {isRunning, FALSE}
  /\ Goto("loop")
  /\ UNCHANGED <<first, game, socket, triggered, outside>>

(* shutdownFn is called after a failed reload too, when it may be null.    *)
(* Nobody reads isRunning after it.                                        *)
ShutdownFn ==
  /\ pc = "shutdown_fn"
  /\ Goto(IF fns["shutdown"] = 0 THEN "crashed" ELSE "engine_shutdown")
  /\ UNCHANGED <<first, isRunning, game, socket, triggered, outside>>

EngineShutdown ==
  /\ pc = "engine_shutdown"
  /\ Goto("exit")
  /\ UNCHANGED <<first, isRunning, game, socket, triggered, outside>>

Main ==
  \/ StartServer \/ Initialize \/ InitFn
  \/ Exists \/ Copy \/ LoadLib \/ LoadSymbols \/ Unload
  \/ Loop \/ CheckForSignal \/ EngineUpdate \/ UpdateFn
  \/ ShutdownFn \/ EngineShutdown

Developer == BuildStarts \/ BuildEnds \/ Send

Next == ~ Ended /\ (Main \/ Developer)

Spec == Init /\ [][Next]_vars

(* The launcher's thread is scheduled; a build that began ends, and the    *)
(* developer then runs DeltaTrigger; nobody has to build.                  *)
Fairness ==
  /\ WF_vars(~ Ended /\ Main)
  /\ WF_vars(~ Ended /\ BuildEnds)
  /\ WF_vars(~ Ended /\ developer = "built" /\ Send)

LiveSpec == Spec /\ Fairness

(* ... and a developer who wants to build goes on trying.                  *)
BuilderSpec == LiveSpec /\ WF_vars(~ Ended /\ BuildStarts)

-----------------------------------------------------------------------------
(* Properties *)

Disk == {Absent, Partial} \cup {Whole(v, e) : v \in 1 .. MaxBuilds, e \in SUBSET Fns}

TypeOK ==
  /\ pc \in {"start_server", "initialize", "exists", "copy", "load_lib", "symbols",
             "init_fn", "loop", "check", "unload", "engine_update", "update_fn",
             "shutdown_fn", "engine_shutdown", "exit", "crashed"}
  /\ first \in BOOLEAN /\ isRunning \in BOOLEAN
  /\ bound \in BOOLEAN /\ triggered \in BOOLEAN
  /\ loaded \in 0 .. MaxBuilds
  /\ exports \in SUBSET Fns
  /\ fns \in [Fns -> 0 .. MaxBuilds]
  /\ queued \in 0 .. BufferSize
  /\ disk \in Disk
  /\ builds \in 0 .. MaxBuilds
  /\ signals \in 0 .. MaxSignals
  /\ developer \in {"idle", "linking", "built"}

(* No function pointer outlives its module: whatever the launcher calls    *)
(* next, and whenever a reload failed, a pointer that is set belongs to    *)
(* the module that is loaded.                                              *)
PointersOfLoadedModule == \A f \in Fns : fns[f] \in {0, loaded}

(* From the first call on, inside the loop all three functions are there.  *)
LoopHasGame ==
  pc \in {"init_fn", "loop", "check", "engine_update", "update_fn"}
    => loaded # 0 /\ \A f \in Fns : fns[f] = loaded

(* A frame is played by an old module only while a signal is on its way:   *)
(* datagrams that were dropped, drained together or sent before the socket *)
(* was bound leave no build unnoticed.                                     *)
NoStaleFrame ==
  (pc = "update_fn" /\ developer = "idle" /\ queued = 0)
    => loaded = disk.version

(* A build whose symbols are all there is loaded in the end, or a newer    *)
(* one is, unless the process has ended.                                   *)
BuildsAreLoaded ==
  \A v \in 1 .. MaxBuilds :
    (disk = Whole(v, Fns)) ~> (loaded >= v \/ builds > v \/ Ended)

(* "The engine is able to hot-reload the whole game without a need to      *)
(* close and start the whole application again": only the game ends it.    *)
StaysUp == (~ first /\ Ended) => ~ isRunning

(* ... which needs the next build to be written while the game runs.       *)
NextBuildGetsIn ==
  (pc = "update_fn" /\ builds < MaxBuilds) ~> (developer # "idle" \/ Ended)

=============================================================================
