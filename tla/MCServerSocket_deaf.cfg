SPECIFICATION Spec
CONSTANTS
  MaxConn = 1
  Fds = 3
  MaxOthers = 0
  SetSize = 4
  MaxAccept = 1
  MaxPeers = 1
  FailsAt = {"socket", "later"}
  MaxFails = 1
INVARIANT ListeningHandsOut
