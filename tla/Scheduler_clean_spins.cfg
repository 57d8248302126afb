SPECIFICATION Spec
CONSTANTS
  NO_SECS_IN_HOUR = 6
  NO_HOUR_IN_DAY = 2
  DAYS_IN_WEEK = 2
  DAYS_IN_MONTH = 3
  UI16_SPAN = 65536
  UI32_SPAN = 1000
  CHECK_STATUS_TIME = 2
  Nodes = {n1, n2}
  Clients = {c1}
  TASKS <- LogAndOneShot
  ClientSeconds = {0, 1, 2, 3, 4, 5}
  ClientCalls = {"add"}
  MaxLag = 0
  StartTime = 0
  MaxNow = 20
  NULL = NULL
SYMMETRY NodeSymmetry
CHECK_DEADLOCK FALSE
INVARIANT CleanInHourZero
