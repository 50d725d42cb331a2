SPECIFICATION Spec
CONSTANTS
  Callers = {c1, c2}
  Base = 256
  WordSize = 2
  Contracts <- MCContracts
  Wallets <- MCWallets
  Owner = 13
  ChainId = 137
  Deadline = 9
  Asks <- MCAsks
  FirstRelay = 11
  MaxSubmits = 3
  MaxRelays = 1
INVARIANTS PerformedOnce AsAsked Verifiable EncodersAgree
SYMMETRY Symmetry
CHECK_DEADLOCK FALSE
