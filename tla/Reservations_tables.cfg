CONSTANTS
  g1 = g1
  g2 = g2
  s1 = s1
  Nobody = Nobody
  Nothing = Nothing
  Guests = {g1, g2}
  Slots = {s1}
  MaxParty = 2
  Requests <- TwoGuests
  Capacity <- ThreeCovers
  DepositThreshold = 2
SPECIFICATION Spec
INVARIANT TypeOK
INVARIANT NeverOversold
INVARIANT RemindersFollowTables
PROPERTY ImplementsTables
CHECK_DEADLOCK FALSE
