------------------------------- MODULE MCMint -------------------------------
(***************************************************************************)
(* Rewards on a small instance: decimals of one place, a year of two or    *)
(* three blocks, and supplies that divide the tokens of a year badly.      *)
(***************************************************************************)
EXTENDS Mint

CONSTANTS f1

MCWallet0 == [f \in Funder |-> 3]

MCParams(rateChange, goal, blocks, max, min) ==
  [InflationRateChange |-> rateChange, GoalBonded |-> goal, BlocksPerYear |-> blocks,
   MaxTokenPerYear |-> max, MinTokenPerYear |-> min]

(* Two that governance might choose, one that validation refuses, one with  *)
(* a minimum below nought, and one with more blocks than MaxInt64.          *)
MCMintParams ==
  {MCParams(5, 7, 2, 7, 4), MCParams(10, 3, 3, 4, 4), MCParams(5, 7, 2, 2, 7),
   MCParams(5, 7, 2, 3, -2), MCParams(5, 7, 5, 3, 2)}
=============================================================================
