CONSTANTS
  t1 = t1
  v1 = v1
  w1 = w1
  w2 = w2
  Nobody = Nobody
  Texts = {t1}
  Visits = {v1}
  Workers = {w1, w2}
  SameTime <- OneHour
  Told = {"delivery_unknown", "read"}
  MaxAttempts = 2
  MaxFaults = 1
SPECIFICATION FairSpec
PROPERTY KeepsLeases
INVARIANT FurthestReportStands
INVARIANT ConfirmedExists
INVARIANT AcceptedOnce
PROPERTY EveryCommandSettles
PROPERTY EveryReportCounts
CHECK_DEADLOCK FALSE
