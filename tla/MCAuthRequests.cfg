SPECIFICATION AllSpec
CONSTANTS
  Workers = {w1}
  Handlers = {h1, h2}
  Devices = {d1, d2}
  Tokens = {t1, t2}
  Stamps = {s1, s2, s3}
  Passwords = {p1}
  Secrets = {}
  Steps = {}
  Requests = {r1, r2}
  Null = Null
SYMMETRY Symmetry
CONSTRAINT ExpiryIsQuiet
INVARIANTS ApprovalsAreCurrent
PROPERTIES ExchangedOnceAndOnlyIfApproved FirstAnswerStands ImplementsAuthority
CHECK_DEADLOCK FALSE
