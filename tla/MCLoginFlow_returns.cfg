SPECIFICATION FairSpec
CONSTANTS
  MaxConn = 1
  MaxUid = 2
  Https = 2
  QueueCap = 2
  BufSize = 4
  ReqLens = {1}
  RetLens = {1, 2, 3}
  MaxOwed = 2
INVARIANT NoneLostWithinPool
PROPERTY ReturnsUnlessOvertaken
