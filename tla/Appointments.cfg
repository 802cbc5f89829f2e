CONSTANTS
  Nothing = 0
  Messages = {1, 2, 3}
  Days = {1, 2, 3}
  Blackout <- FirstClosed
  OfferDays = 2
  Requests = {"takeover", "release"}
  MaxDay = 2
  MaxRequests = 2
  MaxFaults = 1
SPECIFICATION FairSpec
INVARIANT OneVisitPerOffer
INVARIANT ToldTheTruth
PROPERTY EveryMessageAnswered
CHECK_DEADLOCK FALSE
