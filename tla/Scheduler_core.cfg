SPECIFICATION Spec
CONSTANTS
  NO_SECS_IN_HOUR = 7
  NO_HOUR_IN_DAY = 2
  DAYS_IN_WEEK = 2
  DAYS_IN_MONTH = 3
  UI16_SPAN = 65536
  UI32_SPAN = 1000
  CHECK_STATUS_TIME = 3
  Nodes = {n1, n2}
  Clients = {c1}
  TASKS <- CoreTasks
  ClientSeconds = {0, 3, 6}
  ClientCalls = {"add", "delete", "modify", "stop"}
  MaxLag = 0
  StartTime = 0
  MaxNow = 20
  NULL = NULL
SYMMETRY NodeSymmetry
CHECK_DEADLOCK FALSE
INVARIANTS TypeOK ExecLockFree
PROPERTIES CallsComeFromThisHour NoOversleep
