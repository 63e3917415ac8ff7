SPECIFICATION Spec
CONSTANTS
  BufSize = 11
  HeadLen = 4
  Base = 16
  Bodies = {1, 3, 4}
  SizeExtra = 4
  MaxPackets = 3
INVARIANT ArrivedIsHandled
CHECK_DEADLOCK FALSE
