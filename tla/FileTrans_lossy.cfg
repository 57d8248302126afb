SPECIFICATION FairSpec
CONSTANTS
  PageSize = 4
  MsgSize = 2
  FileSizes = {0, 3, 5, 8}
  MAX_NO_OF_RETRIES = 2
  Threads = {t1, t2}
  Duplicates = TRUE
  WriteFails = FALSE
  NULL = NULL
CHECK_DEADLOCK FALSE
INVARIANTS TypeOK PlacesInArrays InStep
PROPERTIES WindowsCopied TransferEnds
