SPECIFICATION Spec
CONSTANTS
  Requests = {r1, r2}
  Folders = {f1}
  Ciphers = {c1, c2}
  Attachments = {a1}
  Devices = {d1}
  Generations = {g1, g2}
  First = g1
  OrgKey = OrgKey
  NoKey = NoKey
  Null = Null
  MaxTime = 4
SYMMETRY Symmetry



CHECK_DEADLOCK FALSE
PROPERTIES StaleFoldersFailTheRotation
