CONSTANTS
  n1 = n1
  n2 = n2
  v1 = v1
  v2 = v2
  a1 = a1
  a2 = a2
  c1 = c1
  c2 = c2
  Native = {n1, n2}
  Ibc = {v1, v2}
  Asset = {a1, a2}
  Channel = {c1, c2}
  Relayer = {r1}
  Catalogue <- MCCatalogue
  Notice <- MCNotice
  Elapsed <- MCElapsed
  Empty = Empty
SPECIFICATION RegistrySpec
PROPERTIES
  RemovedAtRemoveTime
