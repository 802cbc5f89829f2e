CONSTANTS
  r1 = r1
  r2 = r2
  w1 = w1
  w2 = w2
  n1 = n1
  n2 = n2
  none = none
  Rows = {r1, r2}
  Table <- OutboxAndJob
  Workers = {w1, w2}
  Names = {n1, n2}
  NameOf <- OwnName
  NoName = none
  BatchSize = 2
  MaxAttempts = 2
  MaxFaults = 1
SPECIFICATION FairSpec
PROPERTY EventuallySettled
PROPERTY HistoryIsFinal
