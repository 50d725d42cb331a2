SPECIFICATION Spec
CONSTANTS
  Callers = {c1, c2}
  Rules <- TwoRules
  Requests <- BucketRequests
  OrderBurst = 1
  CancelBurst = 2
  TokenTicks = 1
  Responses <- BucketAnswers
  MaxFreeze = 2
  MaxTime = 6
  MaxSeq = 4
SYMMETRY Symmetry
INVARIANTS
  LongRunPaced
  BalanceBelievable
CHECK_DEADLOCK FALSE
