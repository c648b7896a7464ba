SPECIFICATION Spec
CONSTANTS
  Workers = {w1}
  Keys = {1, 2}
  PageSize = 1
  Times = {1}
  LastGeneration = 1
INVARIANTS TombstoneIsEmpty
CHECK_DEADLOCK FALSE
