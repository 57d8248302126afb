SPECIFICATION Spec
CONSTANTS
  PageSize = 4
  MsgSize = 2
  FileSizes = {3, 8}
  MAX_NO_OF_RETRIES = 5
  Threads = {t1}
  Duplicates = FALSE
  WriteFails = FALSE
  NULL = NULL
CHECK_DEADLOCK FALSE
INVARIANT SuccessMeansWholeFile
