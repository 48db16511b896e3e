--------------------------- MODULE MCMemoryLayout ---------------------------
(* Values of the constants of MemoryLayout for TLC.                        *)
EXTENDS MemoryLayout

Machines == {2 * GB, 4 * GB, 8 * GB, 16 * GB, 32 * GB, 64 * GB}
EightGB == {8 * GB}
TwoTo30 == 512 * GB

(* n cores, of which the first smt have two logical processors.            *)
Topology(n, smt) ==
  [l \in 1 .. n + smt |-> IF l <= 2 * smt THEN (l + 1) \div 2 ELSE l - smt]

SmallMachines == UNION {{Topology(n, smt) : smt \in 0 .. n} : n \in 1 .. 4}
BigMachines == UNION {{Topology(n, smt) : smt \in {0, 4, n}} : n \in {6, 8, 12}}
AllMachines == SmallMachines \cup BigMachines
EightCores == {Topology(8, 8)}
=============================================================================
