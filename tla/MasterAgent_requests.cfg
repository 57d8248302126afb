\* Four requests of any kind, one enterprise with two possible agents.
CONSTANTS
    Enterprises = {e1}
    Agents = {s1, s2}
    NASSA = NASSA
    MaxRequests = 4
    NULL = NULL

SPECIFICATION FairSpec

INVARIANTS
    TypeOK
    NoneLost
    RightAgent

PROPERTY
    RequestsServed

\* The manager may stop sending requests.
CHECK_DEADLOCK FALSE
