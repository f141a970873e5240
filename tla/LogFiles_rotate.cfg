SPECIFICATION LogSpec
CONSTANTS
  log = log  once = once  check = check  t1 = t1  t2 = t2
  Threads = {t1, t2}
  Logs = {log}
  RotateTypes = {"none", "minute", "hour", "day"}
  Tasks = {once, check}
  Check = check
  Interval <- Intervals
  PerHour = 2
  PerDay = 4
  MaxNow = 4
  MaxLines = 2
  Nobody = Nobody
CHECK_DEADLOCK FALSE
INVARIANTS NothingLost
PROPERTIES ErasedOnlyWhenDone DueTasksRun
