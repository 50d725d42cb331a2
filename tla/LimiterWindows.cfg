SPECIFICATION Spec
CONSTANTS
  Callers = {c1, c2}
  Rules <- OverlappingRules
  Requests <- OverlappingRequests
  OrderBurst = 1
  CancelBurst = 2
  TokenTicks = 1
  Responses <- OkOrRefused
  MaxFreeze = 2
  MaxTime = 4
  MaxSeq = 4
SYMMETRY Symmetry
INVARIANTS
  EndpointPaced
PROPERTIES
 ImplementsWindows
CHECK_DEADLOCK FALSE
