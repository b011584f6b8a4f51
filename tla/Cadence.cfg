SPECIFICATION Spec
CONSTANTS
  Calendars <- MCCalendars
  FirstNight = 7
  LastNight = 10
  Benchmark = "QQQ"
  Others = {"SHY"}
  Weekday = 0
  ExitCooldown = 3
  DipCooldown = 5
  Window = 5
  MaxNoise = 0
  Lag = 1
  MaxLosses = 1
  MaxCrashes = 1
INVARIANTS
  OneBuyDayPerWeek
  SaleNotRepeated
  DislocationsAreSpaced
CHECK_DEADLOCK FALSE
