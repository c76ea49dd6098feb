SPECIFICATION FairSpec
CONSTANTS
  q1 = q1
  q2 = q2
  q3 = q3
  x1 = x1
  x2 = x2
  Nodes = {n1}
  Points = {q1, q2, q3}
  Ips = {x1, x2}
  GlobalIps = {x1}
  NoNode = noNode
  NoIp = noIp
  NoRow = noRow
  Fresh = 1
  Retry = 1
  Refresh = 2
  MaxWait = 0
  Switched = {q1}
  Sees <- ThirdDecides
INVARIANTS TypeOK OwnerIsOfExitIp DateIsOfExitIp
PROPERTIES ExitIpSettles OwnerIsLearned
