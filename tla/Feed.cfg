SPECIFICATION FeedSpec
CONSTANTS
  Channels = {"market", "user", "rtds"}
  Tokens = {t1, t2}
  InitialDump = TRUE
  MaxMoves = 2
  MaxNoise = 1
  MaxBad = 1
  MaxBreaks = 2
INVARIANTS
  InOrder
  CaughtUp
  DriftSeen
PROPERTIES
  KeepsUp
CHECK_DEADLOCK FALSE
