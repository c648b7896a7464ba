SPECIFICATION PersistentSpec
CONSTANTS
  Workers = {w1, w2}
  Keys = {1, 2, 3}
  PageSize = 1
  Times = {1, 2}
  LastGeneration = 2
INVARIANTS TypeOK CountedObjectsAreGone
PROPERTIES RowsGoLast ProgressNeverMovesBack NothingGoesBeforeThePurge PurgesEnd
CHECK_DEADLOCK FALSE
