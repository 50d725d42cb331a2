SPECIFICATION DoSpec
CONSTANTS
  Writers = {w1}
  Readers = {r1}
  Retries = 2
  MaxSubmits = 3
INVARIANTS
  AtMostOnce
  RefusedMeansNothing
PROPERTIES
  DoEnds
CHECK_DEADLOCK FALSE
