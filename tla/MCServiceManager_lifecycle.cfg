SPECIFICATION FairSpec
CONSTANTS
  monitor = monitor  manager = manager  http = http  net = net
  w1 = w1  w2 = w2
  NoService = NoService
  Registered <- Monitored
  Workers = {w1, w2}
  HttpManagers = {manager}
  HttpPool = {http}
  Throttled = {monitor}
  InitMayFail = {http}
  WaitMayTimeOut = FALSE
PROPERTIES ImplementsLifecycle EveryServiceTicked EveryServiceShutDown
CHECK_DEADLOCK FALSE
