SPECIFICATION FairSpec
CONSTANTS
  NO_SECS_IN_HOUR = 8
  NO_HOUR_IN_DAY = 2
  DAYS_IN_WEEK = 2
  DAYS_IN_MONTH = 3
  UI16_SPAN = 65536
  UI32_SPAN = 1000
  CHECK_STATUS_TIME = 3
  Nodes = {n1, n2}
  Clients = {c1}
  TASKS <- WeekTasks
  ClientSeconds = {0, 1}
  ClientCalls = {"add", "stop"}
  MaxLag = 0
  StartTime = 0
  MaxNow = 31
  NULL = NULL
CHECK_DEADLOCK FALSE
INVARIANTS RunWhenDue HourRebuilt
PROPERTY StopTerminates
