--------------------------- MODULE LauncherProofs ---------------------------
(***************************************************************************)
(* Theorems about Launcher, for every number of builds and signals, every  *)
(* socket buffer, and a module file that is locked while loaded or not.    *)
(***************************************************************************)
EXTENDS Launcher, TLAPS

(* A build is under way only after one was begun.                          *)
BuildCounted == developer # "idle" => builds # 0

(* Until LoadSymbols has run there is no function pointer.                 *)
NothingBound ==
  pc \in {"start_server", "initialize", "exists", "copy", "load_lib"} => fns = NoFns

(* main gets past StartServer only with a bound socket, and from the load  *)
(* of a module to the next unload a module that is not the one on disk has *)
(* a build under way, a datagram in the socket, or one already received.   *)
Playing == {"symbols", "init_fn", "loop", "check", "engine_update", "update_fn"}

SignalOnItsWay ==
  pc \in Playing =>
    /\ bound
    /\ \/ developer # "idle" \/ queued > 0 \/ (pc = "check" /\ triggered)
       \/ loaded = disk.version

(* No invariant of the launcher is inductive alone; together they are.     *)
LauncherInv ==
  /\ TypeOK
  /\ BuildCounted
  /\ PointersOfLoadedModule
  /\ NothingBound
  /\ LoopHasGame
  /\ pc # "start_server" /\ pc # "exit" => bound
  /\ SignalOnItsWay

(* What a load may find on the disk.                                       *)
LEMMA DiskFacts ==
  /\ Absent \in Disk /\ Partial \in Disk
  /\ \A v \in 1 .. MaxBuilds, e \in SUBSET Fns : Whole(v, e) \in Disk
  /\ \A d \in Disk : d.version \in 0 .. MaxBuilds /\ d.exports \in SUBSET Fns
  /\ \A d \in Disk : d.state = "whole" => d.version # 0
<1>1. \A d \in Disk : \/ d = Absent \/ d = Partial
                       \/ \E v \in 1 .. MaxBuilds, e \in SUBSET Fns : d = Whole(v, e)
  BY DEF Disk
<1>2. \A v \in 1 .. MaxBuilds, e \in SUBSET Fns : Whole(v, e) \in Disk
  BY DEF Disk
<1>3. Absent \in Disk /\ Partial \in Disk
  BY DEF Disk
<1>4. ASSUME NEW d \in Disk
      PROVE  /\ d.version \in 0 .. MaxBuilds /\ d.exports \in SUBSET Fns
             /\ d.state = "whole" => d.version # 0
  <2>1. CASE d = Absent \/ d = Partial
    BY <2>1, LauncherAssumption DEF Absent, Partial
  <2>2. CASE \E v \in 1 .. MaxBuilds, e \in SUBSET Fns : d = Whole(v, e)
    BY <2>2, LauncherAssumption DEF Whole
  <2>3. QED
    BY <1>1, <2>1, <2>2
<1>5. QED
  BY <1>2, <1>3, <1>4

(* The launcher starts with all of it.                                     *)
LEMMA InitInv == Init => LauncherInv
<1> SUFFICES ASSUME Init PROVE LauncherInv
  OBVIOUS
<1>1. disk \in Disk
  BY DiskFacts, LauncherAssumption DEF Init
<1>2. fns \in [Fns -> 0 .. MaxBuilds] /\ builds \in 0 .. MaxBuilds
  BY LauncherAssumption DEF Init, NoFns
<1>3. TypeOK
  <2>1. /\ first \in BOOLEAN /\ isRunning \in BOOLEAN /\ bound \in BOOLEAN
        /\ triggered \in BOOLEAN
    BY DEF Init
  <2>2. loaded \in 0 .. MaxBuilds /\ queued \in 0 .. BufferSize /\ signals \in 0 .. MaxSignals
    BY LauncherAssumption DEF Init
  <2>3. QED
    BY <1>1, <1>2, <2>1, <2>2 DEF Init, TypeOK
<1>4. QED
  BY <1>3 DEF Init, LauncherInv, BuildCounted, PointersOfLoadedModule, NothingBound,
              LoopHasGame, SignalOnItsWay, Playing, NoFns

(* Every step of main and of the developer keeps it.                       *)
LEMMA StepInv == LauncherInv /\ [Next]_vars => LauncherInv'
<1> SUFFICES ASSUME LauncherInv, [Next]_vars PROVE LauncherInv'
  OBVIOUS
<1> USE LauncherAssumption, DiskFacts
    DEF LauncherInv, TypeOK, BuildCounted, PointersOfLoadedModule, NothingBound, LoopHasGame,
        SignalOnItsWay, Playing, game, socket, outside, vars, Goto, LoadFails
<1>1. CASE StartServer
  BY <1>1 DEF StartServer
<1>2. CASE Initialize
  BY <1>2 DEF Initialize
<1>3. CASE InitFn
  BY <1>3 DEF InitFn
<1>4. CASE Exists
  BY <1>4 DEF Exists
<1>5. CASE Copy
  BY <1>5 DEF Copy
<1>6. CASE LoadLib
  <2>1. CASE disk.state = "whole"
    <3>1. loaded' = disk.version /\ exports' = disk.exports /\ fns' = NoFns
      BY <1>6, <2>1 DEF LoadLib
    <3>2. loaded' \in 0 .. MaxBuilds /\ exports' \in SUBSET Fns
      BY <3>1
    <3>3. QED
      BY <1>6, <2>1, <3>1, <3>2 DEF LoadLib, NoFns
  <2>2. CASE disk.state # "whole"
    BY <1>6, <2>2 DEF LoadLib
  <2>3. QED
    BY <2>1, <2>2
<1>7. CASE LoadSymbols
  <2>1. \A f \in Fns : fns'[f] = LoadSymbol(f) /\ fns'[f] \in {0, loaded}
    BY <1>7 DEF LoadSymbols, LoadSymbol
  <2>2. fns' \in [Fns -> 0 .. MaxBuilds]
    BY <1>7, <2>1 DEF LoadSymbols
  <2>3. CASE SymbolMissing
    BY <1>7, <2>1, <2>2, <2>3 DEF LoadSymbols
  <2>4. CASE ~ SymbolMissing
    <3>1. "init" \in Fns /\ \A f \in Fns : fns'[f] = loaded /\ loaded # 0
      BY <2>1, <2>4 DEF SymbolMissing, Fns
    <3>2. QED
      BY <1>7, <2>1, <2>2, <2>4, <3>1 DEF LoadSymbols
  <2>5. QED
    BY <2>3, <2>4
<1>8. CASE Unload
  BY <1>8 DEF Unload, FnsUnloaded, NoFns
<1>9. CASE Loop
  BY <1>9 DEF Loop, NotTriggered
<1>10. CASE CheckForSignal
  <2>1. CASE Received
    <3>1. pc = "check" /\ pc' = pc /\ queued' = queued - 1 /\ triggered' = TRUE /\ queued > 0
      BY <1>10, <2>1 DEF CheckForSignal, Received
    <3>2. UNCHANGED <<first, isRunning, game, bound, outside>>
      BY <1>10 DEF CheckForSignal
    <3>3. TypeOK'
      BY <3>1, <3>2
    <3>4. QED
      BY <3>1, <3>2, <3>3
  <2>2. CASE ~ Received
    <3>1. pc = "check" /\ UNCHANGED <<first, isRunning, game, queued, triggered, bound, outside>>
      BY <1>10, <2>2 DEF CheckForSignal
    <3>2. CASE triggered
      <4>1. pc' = "unload"
        BY <1>10, <2>2, <3>2 DEF CheckForSignal, AnyReceived
      <4>2. QED
        BY <3>1, <4>1
    <3>3. CASE ~ triggered
      <4>1. pc' = "engine_update"
        BY <1>10, <2>2, <3>3 DEF CheckForSignal, AnyReceived
      <4>2. QED
        BY <2>2, <3>1, <3>3, <4>1 DEF Received
    <3>4. QED
      BY <3>2, <3>3
  <2>3. QED
    BY <2>1, <2>2
<1>11. CASE EngineUpdate
  BY <1>11 DEF EngineUpdate
<1>12. CASE UpdateFn
  BY <1>12 DEF UpdateFn
<1>13. CASE ShutdownFn
  BY <1>13 DEF ShutdownFn
<1>14. CASE EngineShutdown
  BY <1>14 DEF EngineShutdown
<1>15. CASE BuildStarts
  BY <1>15 DEF BuildStarts
<1>16. CASE BuildEnds
  BY <1>16 DEF BuildEnds
<1>17. CASE Send
  BY <1>17 DEF Send
<1>18. CASE UNCHANGED vars
  BY <1>18
<1>19. QED
  BY <1>1, <1>2, <1>3, <1>4, <1>5, <1>6, <1>7, <1>8, <1>9, <1>10, <1>11, <1>12, <1>13, <1>14, <1>15, <1>16, <1>17, <1>18
     DEF Next, Main, Developer

(* The invariant that the theorems below are read off.                     *)
LEMMA Invariance == Spec => []LauncherInv
BY InitInv, StepInv, PTL DEF Spec

(* main, the socket and the developer keep their types; the file on disk   *)
(* is always absent, half written or one whole version.                    *)
THEOREM TypeCorrect == Spec => []TypeOK
<1>1. LauncherInv => TypeOK
  BY DEF LauncherInv
<1>2. QED
  BY <1>1, Invariance, PTL

(* However many builds fail, a function pointer that is set belongs to the *)
(* module that is loaded.                                                  *)
THEOREM PointersAreValid == Spec => []PointersOfLoadedModule
<1>1. LauncherInv => PointersOfLoadedModule
  BY DEF LauncherInv
<1>2. QED
  BY <1>1, Invariance, PTL

(* The loop never calls through a null initFn or updateFn.                 *)
THEOREM LoopIsSafe == Spec => []LoopHasGame
<1>1. LauncherInv => LoopHasGame
  BY DEF LauncherInv
<1>2. QED
  BY <1>1, Invariance, PTL

(* However small the socket's buffer, and whenever the signals come, a     *)
(* frame of an old module means that a signal is still to be received.     *)
THEOREM NoBuildUnnoticed == Spec => []NoStaleFrame
<1>1. LauncherInv => NoStaleFrame
  <2> SUFFICES ASSUME LauncherInv, pc = "update_fn", developer = "idle", queued = 0
               PROVE  loaded = disk.version
    BY DEF NoStaleFrame
  <2>1. QED
    BY DEF LauncherInv, SignalOnItsWay, Playing
<1>2. QED
  BY <1>1, Invariance, PTL

=============================================================================
