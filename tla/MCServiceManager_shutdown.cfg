SPECIFICATION FairSpec
CONSTANTS
  monitor = monitor  manager = manager  http = http  net = net
  w1 = w1  w2 = w2
  NoService = NoService
  Registered <- TwoKinds
  Workers = {w1, w2}
  HttpManagers = {manager}
  HttpPool = {http}
  Throttled = {}
  InitMayFail = {}
  WaitMayTimeOut = FALSE
PROPERTY ShutdownCompletes
