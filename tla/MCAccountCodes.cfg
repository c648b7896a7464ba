SPECIFICATION Spec
CONSTANTS
  Addresses = {a1, a2, a3}
  Requests = {r1, r2}
  Null = Null
  MaxId = 2
  MaxSession = 2
SYMMETRY Symmetry
CONSTRAINT InPlay
INVARIANTS TypeOK VerifiedAddressWasProven UniqueIndexesHold AnsweredCodesGoOut
PROPERTIES DeletionsComeFromTheOwner OnlyTheLatestCodeActs
CHECK_DEADLOCK FALSE
