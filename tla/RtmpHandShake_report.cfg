SPECIFICATION Spec
CONSTANTS
  Parts = 1
  Sums = {0}
CHECK_DEADLOCK FALSE
PROPERTIES DoneIsReported
