SPECIFICATION Spec
CONSTANTS
  Channel = "market"
  Ids = {a, b}
  InitialIds = {a}
  Callers = {c1, c2}
  PingInterval = 1
  DialAttempts = 2
  MaxEvents = 1
  MaxFaults = 2
  MaxChanges = 2
INVARIANTS
  OneDescriptor
  Resubscribed
PROPERTIES
  Announced
  CloseEnds
  PendingReadEnds
  Recovers
CHECK_DEADLOCK FALSE
