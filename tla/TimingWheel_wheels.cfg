SPECIFICATION WheelSpec
CONSTANTS
  every = every  idle = idle
  Entries = {every, idle}
  Periodic = {every}
  Idle = {idle}
  Delays = {0, 1, 2, 3, 4, 11, 20, 37}
  Minute = 3  Hour = 6  Day = 12  MaxDays = 2
  Second = 2
  Lags <- ClockLags
  MaxTick = 21
CHECK_DEADLOCK FALSE
INVARIANTS OnlyWholeUnitsCrash
PROPERTIES ExactWithinAMinute AlarmSpec
