SPECIFICATION Spec
CONSTANTS
  c1 = c1
  c2 = c2
  a = a
  b = b
  Callers = {c1, c2}
  Accounts = {a, b}
  signer <- TwoAccounts
  Retries = 1
  MaxLogins = 2
  MaxNonces = 3
INVARIANTS
  LoneLogin
  MintsOwn
PROPERTIES
  LoginEnds
CHECK_DEADLOCK FALSE
