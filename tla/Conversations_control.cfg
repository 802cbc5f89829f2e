CONSTANTS
  Nothing = Nothing
  Messages = {1, 2}
  Forms = {"form"}
  Questions <- OneQuestion
  Requests = {"takeover", "release", "stop", "command", "unhold"}
  PhoneLimit = 1
  MaxForms = 1
  MaxRequests = 1
  MaxFaults = 1
SPECIFICATION Spec
INVARIANT ControlIsInherited
CHECK_DEADLOCK FALSE
