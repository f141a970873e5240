SPECIFICATION Spec
CONSTANTS
  c1 = c1  c2 = c2  c3 = c3
  Conns = {c1, c2, c3}
  Fds = {3, 4, 5}
  MaxBatch = 3
  MaxMail = 2
  Acceptor = Acceptor  NoConn = NoConn  NoFd = NoFd
CHECK_DEADLOCK FALSE
SYMMETRY ConnsAlike
INVARIANTS OpenIsWatched ClosedIsReleased
PROPERTIES ListensUntilStopped
