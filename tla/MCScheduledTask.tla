--------------------------- MODULE MCScheduledTask ---------------------------
(***************************************************************************)
(* The jobs of one scheduled rule on two instances, j1 and j2 on the one   *)
(* whose clock is ahead.                                                   *)
(***************************************************************************)
EXTENDS ScheduledTask, TLC

CONSTANTS j1, j2, j3

MC_Jobs == {j1, j2, j3}
MC_Skew == [j \in MC_Jobs |-> IF j = j3 THEN 0 ELSE MaxSkew]

Symmetry == Permutations({j1, j2})
==============================================================================
