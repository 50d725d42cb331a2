SPECIFICATION Spec
CONSTANTS
  Callers = {c1, c2}
  Requests = 2
  Window = 2
  MaxFreeze = 1
  MaxHold = 1
  MaxTime = 6
  MaxSeq = 4
INVARIANTS
  AtMostRequests
PROPERTIES
  KeepsPromise
  EveryWaitEnds
