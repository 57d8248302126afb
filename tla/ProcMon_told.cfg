\* One row that is watched, two contexts, two threads, two processes.
CONSTANTS
    Contexts = {c1, c2}
    Threads = {t1, t2}
    Pids = {p1, p2}
    Greedy = {p1}
    Columns <- WatchedColumns
    MaxEvents = 2
    NULL = NULL

SPECIFICATION FairSpec

PROPERTY
    TruthTold

\* Without the port of the alert manager every thread may end up waiting.
CHECK_DEADLOCK FALSE
