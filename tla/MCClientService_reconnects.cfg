SPECIFICATION FairUndisturbedSpec
CONSTANTS
  Clients = {c1}
  Fds = 4
  MaxOthers = 3
  Threads = 2
  LoginLen = 2
  ReplyLen = 2
  SkipLen = 3
  RecvSize = 5
  SendSize = 5
  Room = 5
INVARIANTS TypeOK DescriptorsOwned BytesOfThisConnection
PROPERTIES EveryConnectionLogsIn TriesAgain
