SPECIFICATION SendSpec
CONSTANTS
  SendSize = 4
  MaxLen = 4
  Vals = {a}
  a = a  b = b
  KernelRoom = 3
INVARIANT InsideBuffer
PROPERTY ImplementsStream
