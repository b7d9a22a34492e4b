CONSTANTS
  n1 = n1
  n2 = n2
  pica = pica
  c1 = c1
  c2 = c2
  u1 = u1
  Native = {n1, n2}
  Asset = {pica}
  Channel = {c1, c2}
  User = {u1}
  Relayer = {}
  Ibc <- MCIbc
  Denom <- MCDenom
  Account <- MCAccount
  Catalogue <- MCCatalogue
  Notice <- MCNotice
  GenesisBalance <- MCGenesisBalance
  GenesisSupply <- MCGenesisSupply
  RemoteSupply <- MCRemoteSupply
  Amount = {1}
  MaxSeq <- MCMaxSeq
  Elapsed <- MCElapsed
  Empty = Empty
SPECIFICATION Spec
INVARIANTS
  TypeOK
  Backing
  SharedSupply
  EscrowSolvent
  NativeRedeemable
PROPERTIES
  RefundsReachSender
  ImplementsSharedLedger
\* Every coin may end up at rest with MaxSeq packets sent.
CHECK_DEADLOCK FALSE
