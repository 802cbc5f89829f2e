CONSTANTS
  Day = 3
  Offset <- Zone
  Lookahead = 4
  OfferDays = 2
  MaxSlots = 3
  Last = 2
  Hour = 1
  Workers = {w1, w2}
  Nobody = nobody
  Start = 6
  Horizon = 8
  RetryDelay = 1
  MaxAttempts = 2
  MaxFaults = 1
  AppointmentHours_ = {1, 2}
  Blackout <- ClosedOnFridays
  Taken = {9}
SPECIFICATION FairSpec
INVARIANT AnnouncedOnce
PROPERTY ReportsGoOn
PROPERTY SlotsRight
CHECK_DEADLOCK FALSE
