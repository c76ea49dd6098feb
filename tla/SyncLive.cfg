SPECIFICATION FairSpec
CONSTANTS
  f1 = f1
  f2 = f2
  a = a
  b = b
  Rows = {n1, n2, n3}
  Fingerprints = {f1, f2}
  Names = {a, b}
  Feeds <- ShortFeeds
  Edits <- Collisions
  Workers = {w1}
  Scheduler = s
  NoRow = noRow
  NoFingerprint = noFingerprint
PROPERTIES NodesFollowFeed LifecycleIsShown
CHECK_DEADLOCK FALSE
