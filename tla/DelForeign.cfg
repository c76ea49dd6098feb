SPECIFICATION Spec
CONSTANTS
  Targets = {m1}
  Tasks = {t1}
  Ids = {i1}
  MaxGen = 2
  MaxItems = 1
  Permits = 1
  Bounds <- ForeignBounds
  None = none
  NotModified = notModified
PROPERTIES NoForeignEvidence
CHECK_DEADLOCK FALSE
