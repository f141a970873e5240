SPECIFICATION Spec
CONSTANTS
  u1 = u1  u2 = u2  u3 = u3
  Child = Child  NoThread = NoThread
  Users = {u1, u2, u3}
  Owner = u1
PROPERTY DestructorReturns
CHECK_DEADLOCK FALSE
