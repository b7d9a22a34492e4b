--------------------------- MODULE MCStakingEpoch ---------------------------
(***************************************************************************)
(* Staking on a small instance: two validators compete for one place with  *)
(* two coins of stake; governance changes between epochs of two and three  *)
(* blocks, the shorter of which allow unbonding only when they end; there  *)
(* are parameters, too, that SetParams refuses.                            *)
(***************************************************************************)
EXTENDS StakingEpoch

CONSTANTS v1, v2

MCEpochParams ==
  {[blocks |-> 2, allowAfter |-> 2], [blocks |-> 3, allowAfter |-> 1],
   [blocks |-> 1, allowAfter |-> 0], [blocks |-> 2, allowAfter |-> 3]}
=============================================================================
