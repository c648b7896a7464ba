SPECIFICATION Spec
CONSTANTS
  Workers = {w1, w2}
  Clients = {c1}
  Account = Account
  AccountLimit = 2
  AccountWindow = 2
  AccountLockout = 2
  ClientLimit = 3
  ClientWindow = 1
  ClientRetry = 1
  Horizon = 3
  Lifetime = 1
SYMMETRY Symmetry
INVARIANTS LockHasItsBucket
CHECK_DEADLOCK FALSE
