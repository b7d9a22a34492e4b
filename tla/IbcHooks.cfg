CONSTANTS
  n1 = n1
  pica = pica
  c1 = c1
  c2 = c2
  k1 = k1
  i1 = i1
  Native = {n1}
  Asset = {pica}
  Channel = {c1, c2}
  User = {k1, i1}
  Signer = {}
  Contract = {k1}
  Intermediary <- MCIntermediary
  Relayer = {}
  Ibc <- MCIbc
  Denom <- MCDenom
  Account <- MCAccount
  Catalogue <- MCCatalogue
  Notice <- MCNotice
  GenesisBalance <- MCGenesisBalance
  GenesisSupply <- MCGenesisSupply
  RemoteSupply <- MCRemoteSupply
  Amount = {1}
  MaxSeq <- MCMaxSeq
  Elapsed <- MCElapsed
  Empty = Empty
SPECIFICATION HookSpec
INVARIANTS
  HookTypeOK
  CallbacksOfPackets
  ToldOnce
  IntermediaryKeepsNothing
PROPERTIES
  ToldTheTruth
\* Every coin may end up at rest with all packets sent.
CHECK_DEADLOCK FALSE
