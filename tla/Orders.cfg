SPECIFICATION Spec
CONSTANTS
  Markets <- MCMarkets
  Intents <- MCIntents
  MaxMoves = 1
INVARIANTS Filled Protected Tradable
CHECK_DEADLOCK FALSE
