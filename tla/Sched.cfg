SPECIFICATION FairSpec
CONSTANTS
  SlotsPerHour = 2
  HoursPerDay = 2
  Offset = 1
  LastSlot = 11
  HourColumns = 2
  DayColumns = 1
  ResultDays = 2
  Ahead = 1
  Ips = {x1, x2}
  NoIp = noIp
  SUMMARY_HOURS = {0, 1}
  MaxWait = 1
  Bounds <- SmallBounds
INVARIANTS TypeOK DisplayedIsNewest ChangesAreMarked LookedIsSent
PROPERTIES SnapshotsAreForgotten SentOnce
