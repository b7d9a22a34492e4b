CONSTANTS
  d1 = d1
  Delegator = {d1}
  Boundary <- MCBoundary
  Window = 3
  MaxTxMsgs = 2
  MaxHeight = 8
SPECIFICATION Spec
INVARIANTS
  TypeOK
  WindowBounded
  DenialIsRecent
\* The chain stops at MaxHeight.
CHECK_DEADLOCK FALSE
