SPECIFICATION FairSpec
CONSTANTS
  Probes = {p1, p2, p3, p4}
  XrayProbes = {p1, p2, p3}
  Ports = {x1, x2}
  Permits = 2
  NoPort = noPort
  NoProbe = noProbe
INVARIANTS TypeOK NoOrphan AtMostPermits OwnNode
PROPERTY EveryProbeEnds
