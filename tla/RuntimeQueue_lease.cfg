CONSTANTS
  r1 = r1
  r2 = r2
  w1 = w1
  w2 = w2
  n1 = n1
  n2 = n2
  none = none
  Rows = {r1, r2}
  Table <- TwoInbox
  Workers = {w1, w2}
  Names = {n1}
  NameOf <- SharedName
  NoName = none
  BatchSize = 2
  MaxAttempts = 2
  MaxFaults = 2
SPECIFICATION Spec
PROPERTY KeepsLeases
INVARIANT ExclusiveLease
INVARIANT LedgerTellsStatus
INVARIANT RetryDecisionCurrent
