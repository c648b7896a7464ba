SPECIFICATION Spec
CONSTANTS
  Workers = {w1}
  Ciphers = {c1}
  Attachments = {a1}
  Large = {a1}
  Size <- SizeOf
  MaxStorage = 2
  SweepLimit = 1
SYMMETRY Symmetry
ACTION_CONSTRAINT OnlyTheMarkFails
INVARIANTS NoObjectIsStranded
CHECK_DEADLOCK FALSE
