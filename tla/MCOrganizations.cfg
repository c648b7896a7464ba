SPECIFICATION Spec
CONSTANTS
  Users = {u1, u2}
  Groups = {g}
  Collections = {c}
  LastTime = 1
  LastBatch = 4
SYMMETRY Symmetry
INVARIANTS AnOwnerRemains OffboardedHoldNothing
PROPERTIES AdminsStayBelow AccessChangesAreNoticed
