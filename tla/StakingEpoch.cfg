CONSTANTS
  v1 = v1
  v2 = v2
  Validator = {v1, v2}
  MaxValidators = 1
  Coins = 2
  EpochParams <- MCEpochParams
  MinBlocksPerEpoch = 2
  MintOutcome = {"funded", "unfunded", "unminted"}
  UnbondingBlocks = 2
  Cycle = 6
SPECIFICATION Spec
INVARIANTS
  StakingTypeOK
  VotingStakeTraced
  SetNotStale
  SlashedCoinsAccounted
PROPERTIES
  SetCatchesUp
  LeavingAllowed
