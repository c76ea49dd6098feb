SPECIFICATION Spec
CONSTANTS
  Targets = {m1}
  Points = {q1, q2, q3, q4}
  Workers = {w1}
  Scheduler = s
  NoTarget = noTarget
  NoPoint = noPoint
  Window = 1
  MaxWait = 0
INVARIANTS TypeOK DisabledIsQuiet
PROPERTIES FaultIsDown RecoveryIsUp ImplementsIncident
SYMMETRY Symmetry
