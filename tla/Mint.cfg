CONSTANTS
  f1 = f1
  Precision = 10
  MintParams <- MCMintParams
  BondedRatio = {0, 4, 10}
  StakingSupply = {0, 3, 11}
  Funder = {f1}
  Wallet0 <- MCWallet0
  Fund = {2}
  IncentivesSupply = 5
  Inflation0 = 1
  MaxReminted = 3
  MaxInt64 = 3
SPECIFICATION Spec
INVARIANTS
  MintTypeOK
  YearWithinMax
  YearAboveMin
  RewardsFunded
