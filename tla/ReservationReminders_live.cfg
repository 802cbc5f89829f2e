CONSTANTS
  g1 = g1
  s1 = s1
  w1 = w1
  w2 = w2
  NoWorker = NoWorker
  NoJob = NoJob
  Guests = {g1}
  Slots = {s1}
  MaxParty = 2
  Requests <- OneTable
  Capacity <- TwoCovers
  DepositThreshold = 2
  Workers = {w1, w2}
  TemplateIs = {TRUE, FALSE}
  MaxAttempts = 2
  MaxFaults = 1
SPECIFICATION RemindersFairSpec
PROPERTY KeepsLeases
INVARIANT NobodyForgotten
PROPERTY JobsSettle
CHECK_DEADLOCK FALSE
