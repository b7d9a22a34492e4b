----------------------------- MODULE MCTxBoundary -----------------------------
(***************************************************************************)
(* Staking limits on a small instance: boundaries that differ in limit and *)
(* pace, one without a limit, and a window as long as a generation.        *)
(***************************************************************************)
EXTENDS TxBoundary

CONSTANT d1

MCBoundary ==
  {[txLimit |-> 2, blocksPerGeneration |-> 2],
   [txLimit |-> 6, blocksPerGeneration |-> 1],
   [txLimit |-> 0, blocksPerGeneration |-> 3]}
=============================================================================
