CONSTANTS
  l1 = l1
  l2 = l2
  n1 = n1
  p1 = p1
  p2 = p2
  p3 = p3
  o1 = o1
  o2 = o2
  Nobody = nobody
  Numbers = {n1}
  Leads = {l1, l2}
  Number <- OneNumber
  Questions = {"permission", "plan", "down", "timeline"}
  Worth <- PlanPoints
  Permission = "permission"
  Plan = "plan"
  Installments = 6
  Timeline = "timeline"
  Sheets <- OneSheet
  Ranking <- ThreeRanked
  Fit <- SecondFits
  Capacity <- OnePerHead
  Staff = {p1, p2}
  Requests = {o1, o2}
  Wanted <- OldOrNew
  MaxEdits = 3
SPECIFICATION FairSpec
PROPERTY WholeSets
PROPERTY NoLeadForTheAbsent
INVARIANT QualifiedAsPinned
PROPERTY LeadsAreRouted
CHECK_DEADLOCK FALSE
