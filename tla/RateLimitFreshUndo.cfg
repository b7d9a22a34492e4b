CONSTANTS
  c1 = c1
  c10 = c10
  n1 = n1
  v1 = v1
  anyone = anyone
  trusted = trusted
  Channel = {c1, c10}
  Denom = {n1, v1}
  Info <- MCInfo
  Quota <- MCQuota
  Value = {3}
  Amount = {1}
  Pair = {anyone, trusted}
  Whitelisted = {trusted}
  Extending <- MCExtending
  Governed <- MCGoverned
  MaxSeq <- MCMaxSeq
  MaxInflow = 1
  NoLimit = NoLimit
  EpochDuration = 1
  MaxTime = 3
SPECIFICATION Spec
PROPERTIES
  FreshUndoApplied
\* The packets of a run are bounded by MaxSeq and its time by MaxTime.
CHECK_DEADLOCK FALSE
