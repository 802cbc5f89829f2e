CONSTANTS
  Ids = {n1, n2}
  Retries = 2
  MaxBreaks = 3
SPECIFICATION FairSpec
PROPERTY HeardIsShown
PROPERTY StreamsGetABus
CHECK_DEADLOCK FALSE
