SPECIFICATION Spec
CONSTANTS
  Workers = {w1, w2}
  Clients = {c1}
  Account = Account
  AccountLimit = 2
  AccountWindow = 4
  AccountLockout = 4
  ClientLimit = 2
  ClientWindow = 1
  ClientRetry = 1
  Horizon = 6
  Lifetime = 1
SYMMETRY Symmetry
INVARIANTS TypeOK GuessesAreBounded
CHECK_DEADLOCK FALSE
