SPECIFICATION Spec
CONSTANTS
  NO_SECS_IN_HOUR = 3600
  NO_HOUR_IN_DAY = 24
  DAYS_IN_WEEK = 7
  DAYS_IN_MONTH = 31
  UI16_SPAN = 65536
  Intervals = {1, 7, 60, 1000, 3599, 3600, 3601, 4000, 5000, 5400, 7200, 10000, 10800, 21600, 32767, 43200, 86399, 86400}
  LastHour = 17
INVARIANTS EveryRepetitionHasItsHour RepetitionsFillTheHour
CHECK_DEADLOCK FALSE
