CONSTANTS
  Nothing = Nothing
  Messages = {1, 2}
  Forms = {"form"}
  Questions <- OneQuestion
  Requests = {"takeover", "release", "stop", "command", "unhold"}
  PhoneLimit = 1
  MaxForms = 1
  MaxRequests = 2
  MaxFaults = 1
SPECIFICATION FairSpec
INVARIANT EachMessageOnce
INVARIANT TakeoverHolds
PROPERTY SilentWhenSilenced
PROPERTY OptedOutIsLeftAlone
PROPERTY EverybodyEnds
CHECK_DEADLOCK FALSE
