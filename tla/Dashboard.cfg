SPECIFICATION FairSpec
CONSTANTS
  LoadLimit = 2
  PollLimit = 2
  Polls <- TwoPolls
  MaxRows = 4
  MaxLoads = 2
  Off = Off
INVARIANTS
  TypeOK
  EachPathShowsOnce
  OnlyGapsAreMissed
PROPERTIES
  PollingCatchesUp
CHECK_DEADLOCK FALSE
