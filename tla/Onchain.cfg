SPECIFICATION Spec
CONSTANTS
  Senders = {s1, s2}
  NoPin = NoPin
  Tips = {2}
  Pins = {NoPin, 200}
  BaseFee = 64
  MaxBlocks = 3
  MaxSends = 2
INVARIANTS PaidOnce Ordered Headroom
SYMMETRY Symmetry
CHECK_DEADLOCK FALSE
