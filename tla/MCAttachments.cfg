SPECIFICATION Spec
CONSTANTS
  Workers = {w1, w2, w3}
  Ciphers = {c1}
  Attachments = {a1, a2}
  Large = {a1}
  Size <- SizeOf
  MaxStorage = 2
  SweepLimit = 1
SYMMETRY Symmetry
INVARIANTS UploadedHasBytes StorageWithinQuota AttachmentsOfOwnCiphers
CHECK_DEADLOCK FALSE
