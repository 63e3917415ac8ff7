SPECIFICATION FairSpec
CONSTANTS
  MaxConn = 2
  MaxUid = 2
  Https = 2
  QueueCap = 2
  BufSize = 4
  ReqLens = {1}
  RetLens = {1, 2}
  MaxOwed = 2
PROPERTY EveryLoginReturns
