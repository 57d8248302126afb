\* Two rows in days of 12 seconds, lists for 5 seconds and 8 nodes.
CONSTANTS
    Indices = {1, 2}
    Contents <- MCContents
    SecondsPerDay = 12
    DaysPerWeek = 2
    INIT_INTERVAL = 5
    RTC_MAX_LIST_NODES = 8
    RTC_IDLE_TIME = 3
    MaxNow = 24
    StartTimes = {1, 7}
    MaxEvents = 3
    NULL = NULL

SPECIFICATION Spec

INVARIANTS
    TypeOK
    AlarmForNextNode
    SampledInTime
    ListBounded
    ChangesAnnounced

\* The clock ends at MaxNow.
CHECK_DEADLOCK FALSE
