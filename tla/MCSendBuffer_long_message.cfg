SPECIFICATION SendSpec
CONSTANTS
  SendSize = 4
  MaxLen = 5
  Vals = {a}
  a = a  b = b
  KernelRoom = 3
INVARIANT InsideBuffer
