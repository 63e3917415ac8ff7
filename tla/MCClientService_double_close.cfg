SPECIFICATION Spec
CONSTANTS
  Clients = {c1, c2}
  Fds = 3
  MaxOthers = 1
  Threads = 2
  LoginLen = 2
  ReplyLen = 2
  SkipLen = 3
  RecvSize = 4
  SendSize = 3
  Room = 3
INVARIANTS ValidIsConnected
