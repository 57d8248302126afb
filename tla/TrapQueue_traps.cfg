\* The JobSched and the AM copy of the queue, with room for two traps.
CONSTANTS
    MAX_ELEMENT = 3
    Traps = {t1, t2}
    Daemons = {"JS", "AM"}
    NULL = NULL

SPECIFICATION FairSpec

INVARIANTS
    TypeOK
    NeverTakesEmptySlot

PROPERTIES
    TrapsInOrder
    TrapsParsed

\* A daemon that parses an empty slot has crashed.
CHECK_DEADLOCK FALSE
