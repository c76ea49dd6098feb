SPECIFICATION Spec
CONSTANTS
  f1 = f1
  f2 = f2
  a = a
  b = b
  Rows = {n1, n2, n3}
  Fingerprints = {f1, f2}
  Names = {a, b}
  Feeds <- DoubledFeeds
  Edits <- Collisions
  Workers = {w1}
  Scheduler = s
  NoRow = noRow
  NoFingerprint = noFingerprint
INVARIANTS TypeOK LeftOutIsQuiet
PROPERTIES SavedIsFetched KeepsIdentity
CHECK_DEADLOCK FALSE
SYMMETRY Symmetry
