CONSTANTS
  n1 = n1
  pica = pica
  c1 = c1
  c2 = c2
  u1 = u1
  f1 = f1
  Native = {n1}
  Asset = {pica}
  Channel = {c1, c2}
  User = {u1, f1}
  FeeAddress = {f1}
  Relayer = {}
  Ibc <- MCIbc
  Denom <- MCDenom
  Account <- MCAccount
  Catalogue <- MCCatalogue
  Notice <- MCNotice
  GenesisBalance <- MCGenesisBalance
  GenesisSupply <- MCGenesisSupply
  RemoteSupply <- MCRemoteSupply
  Amount = {1, 3}
  MaxSeq <- MCMaxSeq
  Elapsed <- MCElapsed
  Empty = Empty
  Terms <- MCTerms
  Listing <- MCListing
  FeeParams <- MCFeeParams
  NoFee = NoFee
SPECIFICATION FeeSpec
INVARIANTS
  FeeTypeOK
  SharedSupply
  PromisesCovered
PROPERTIES
  TimeoutPaysBack
\* Every coin may end up at rest with all packets sent.
CHECK_DEADLOCK FALSE
