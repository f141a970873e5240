SPECIFICATION PoolSpec
CONSTANTS
  u1 = u1  u2 = u2  u3 = u3  c1 = c1  c2 = c2
  Child = Child  NoThread = NoThread
  Users = {u1, u2, u3}
  Owner = u1
  Size = 3
  Callers = {c1, c2}
  IntBits = 3
  SizeBits = 4
  FirstIndex <- BeforeTheWrap
  MaxCalls = 4
INVARIANTS RunPublishes QuitFindsTheLoop EveryCallCounts
PROPERTIES StartedIsNotNull RunReturns RunningLoopIsJoined
CHECK_DEADLOCK FALSE
