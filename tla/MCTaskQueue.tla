---------------------------- MODULE MCTaskQueue ----------------------------
(***************************************************************************)
(* Values of the constants of TaskQueue for TLC: one queue, the two ways   *)
(* its operations can be shared out among the threads.                     *)
(***************************************************************************)
EXTENDS TaskQueue, TLC

CONSTANTS q1, worker, main, thief

(* The Chase-Lev discipline: the owner pushes and pops, others steal.      *)
OwnerOnly    == q1 :> {worker}
ThievesOnly  == q1 :> (Threads \ {worker})

(* The engine: Scheduler_ProcessTaskBatch pushes and Scheduler_Sync steals *)
(* on the main thread, WorkerProc pops.                                    *)
MainOnly     == q1 :> {main}

ItemSymmetry == Permutations(Items)
ItemThiefSymmetry == Permutations(Items) \cup Permutations(Threads \ {worker})
=============================================================================
