SPECIFICATION Safety
CONSTANTS
  a = a  b = b  c = c
  Messages = {a, c}
  Nodes <- BufferAndList
  SndBuf = 1
  Width = 8
  Chunks = 0
CHECK_DEADLOCK FALSE
INVARIANT StreamIntact
