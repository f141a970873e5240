SPECIFICATION Spec
CONSTANTS
  a = a  b = b  c = c
  Messages = {a, b, c}
  Empty = {c}
  Lists = {b}
  Fds = {3}
  NoFd = NoFd
  SndBuf = 1
  Chunks = 2
  Opens = 2
CHECK_DEADLOCK FALSE
INVARIANTS DatagramsInOrder NoStaleEntry
PROPERTIES QueueFlushed ClosedIsSilent
