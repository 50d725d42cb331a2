SPECIFICATION Spec
CONSTANTS
  Clients = {c1, c2}
  Starters = {c2}
  Nonces = {n0, n1}
  Default = n0
  Retries = 1
  PageSize = 2
  MaxRows = 3
  MaxCalls = 2
INVARIANTS
  StartsUp
  HoldsAskedKey
  Authentic
  OnceOnly
  WalkWhole
PROPERTIES
  WalkComplete
  WalkEnds
CHECK_DEADLOCK FALSE
