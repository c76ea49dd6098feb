SPECIFICATION LiveSpec
CONSTANTS
  Targets = {m1, m2}
  Points = {q1, q2}
  Workers = {w1}
  Scheduler = s
  NoTarget = noTarget
  NoPoint = noPoint
  Window = 1
  MaxWait = 0
PROPERTIES FaultIsNoticed RecoveryIsNoticed StatusCatchesUp
