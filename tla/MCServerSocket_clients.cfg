SPECIFICATION FairSpec
CONSTANTS
  MaxConn = 2
  Fds = 4
  MaxOthers = 3
  SetSize = 4
  MaxAccept = 2
  MaxPeers = 4
  FailsAt = {"socket", "later"}
  MaxFails = 1
INVARIANTS TypeOK DescriptorsOwned
PROPERTIES EveryInputReceived EveryPeerAnswered
