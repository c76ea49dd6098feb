SPECIFICATION Spec
CONSTANTS
  Targets = {m1}
  Points = {q1, q2}
  Workers = {w1}
  Scheduler = s
  NoTarget = noTarget
  NoPoint = noPoint
  Window = 0
  MaxWait = 0
PROPERTY SinglePointDecides
SYMMETRY Symmetry
