SPECIFICATION ClientSpec
CONSTANTS
  a = a  b = b  c = c
  Messages = {a, b}
  Nodes <- BufferAndList
  SndBuf = 2
  Width = 8
  Chunks = 1
CHECK_DEADLOCK FALSE
INVARIANTS StreamInOrder InputKnown
PROPERTIES CompleteMeansWritten OutputFlushed ConnectEnds
