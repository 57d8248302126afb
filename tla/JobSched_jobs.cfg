\* Two rows, a periodic and a one-shot job, four nodes.
CONSTANTS
    Indices = {1, 2}
    Jobs = {daily, once}
    OneShot = {once}
    Ids = {n1, n2, n3, n4}
    Args = {a1, a2, a3}
    LOG = LOG
    MaxTraps = 2
    MaxSets = 4
    NULL = NULL

SPECIFICATION Spec

INVARIANTS
    TypeOK
    LinkedArgumentsAlive
    EveryTaskListed
    ScheduleFollowsTable

SYMMETRY Addresses

CHECK_DEADLOCK FALSE
