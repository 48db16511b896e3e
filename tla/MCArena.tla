------------------------------ MODULE MCArena ------------------------------
(* Values of the constants of Arena for TLC.                               *)
EXTENDS Arena, TLC

IdSymmetry == Permutations(Ids)
=============================================================================
