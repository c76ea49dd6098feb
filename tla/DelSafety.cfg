SPECIFICATION Spec
CONSTANTS
  Targets = {m1}
  Tasks = {t1}
  Ids = {i1, i2}
  MaxGen = 1
  MaxItems = 1
  Permits = 1
  Bounds <- SafetyBounds
  None = none
  NotModified = notModified
INVARIANT TypeOK
PROPERTIES NoResultLost NoResultDropped ImplementsOutbox
SYMMETRY Symmetry
CHECK_DEADLOCK FALSE
