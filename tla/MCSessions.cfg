SPECIFICATION Spec
CONSTANTS
  Workers = {w1, w2}
  Devices = {d1, d2}
  Tokens = {t1, t2, t3}
  Stamps = {s1, s2, s3}
  Passwords = {p1}
  Secrets = {f1, f2}
  Steps = {1, 2}
  Null = Null
SYMMETRY Symmetry
CONSTRAINT InPlay
INVARIANTS TypeOK OneLiveTokenPerFamily LiveDeviceCanRefresh
  RevokedDeviceIsCutOff LiveSessionsAreCurrent ProofsAreOfTheEnabledFactor
PROPERTIES AccessNeverRevives ReplayEndsOnlyItsFamily ImplementsAuthority
  NewSessionsShowTheFactor CodesAreAcceptedOnce
CHECK_DEADLOCK FALSE
