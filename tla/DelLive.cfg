SPECIFICATION LiveSpec
CONSTANTS
  Targets = {m1}
  Tasks = {t1}
  Ids = {i1, i2, i3}
  MaxGen = 3
  MaxItems = 1
  Permits = 1
  Bounds <- LiveBounds
  None = none
  NotModified = notModified
PROPERTIES ManifestConverges TaskIsDone ResultIsReported
CHECK_DEADLOCK FALSE
