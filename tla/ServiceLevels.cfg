CONSTANTS
  l1 = l1
  p1 = p1
  p2 = p2
  w1 = w1
  Nobody = Nobody
  NoJob = NoJob
  Leads = {l1}
  People = {p1, p2}
  Workers = {w1}
  Kinds = {"escalation", "stale", "followup"}
  Reachable = {"escalation", "followup"}
  Capacity <- OneRoom
  Fit <- FirstBetter
  Load <- FirstFull
  MaxAttempts = 2
  MaxFaults = 1
  MaxEvents = 4
  Requests = {"ack", "close_lost", "takeover", "release"}
SPECIFICATION FairSpec
INVARIANT TimersHaveJobs
PROPERTY RingsForACause
CHECK_DEADLOCK FALSE
PROPERTY NobodyIgnored
PROPERTY EverybodyMoves
