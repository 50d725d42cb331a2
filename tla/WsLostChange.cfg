SPECIFICATION Spec
CONSTANTS
  Channel = "market"
  Ids = {a, b}
  InitialIds = {a}
  Callers = {c1}
  PingInterval = 1
  DialAttempts = 2
  MaxEvents = 2
  MaxFaults = 2
  MaxChanges = 1
INVARIANTS
  InStep
CHECK_DEADLOCK FALSE
