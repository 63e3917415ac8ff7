SPECIFICATION Spec
CONSTANTS
  MaxConn = 2
  MaxUid = 2
  Https = 1
  QueueCap = 1
  BufSize = 2
  ReqLens = {1}
  RetLens = {1, 2}
  MaxOwed = 3
INVARIANTS TypeOK OnlineIsConnected
PROPERTY ImplementsLogin
