SPECIFICATION Spec
CONSTANTS
  Parts = 2
  Sums = {0, 1020}
CHECK_DEADLOCK FALSE
INVARIANTS MessagesNext AnswersTheScheme
PROPERTIES HandShakeEnds
