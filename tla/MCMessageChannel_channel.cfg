SPECIFICATION FairSpec
CONSTANTS
  QueueCap = 2
  MaxMsgs = 3
  MaxFaults = 3
INVARIANTS TypeOK OnlyThisRun NothingLost
PROPERTY ServesInTheEnd
CHECK_DEADLOCK FALSE
