------------------------------ MODULE Scheduler ------------------------------
(***************************************************************************)
(* The task scheduler library of the agent daemons                         *)
(* (Common/NASCenter_Scheduler.c).  Client threads add, delete and modify  *)
(* tasks in the master table under gMasterTable_mutex.  One scheduler      *)
(* thread builds the execution list of the current hour from it, sorts     *)
(* the list, sleeps until the next entry is due and calls its function,    *)
(* holding ExecList_mutex; it polls gbTaskChanged every CHECK_STATUS_TIME  *)
(* seconds.                                                                *)
(*                                                                         *)
(* Time is explicit: Tick advances the clock by a second.  While the       *)
(* scheduler thread could run it is delayed by at most MaxLag seconds      *)
(* between two sleeps (scheduling latency, slow callbacks, oversleeping);  *)
(* MaxLag = 0 is a machine on which nothing takes time but SLEEP and the   *)
(* two loops in which the thread spins (Spinning, BusyWaiting).            *)
(***************************************************************************)
EXTENDS SchTask, FiniteSets

CONSTANTS Nodes,             \* addresses of master nodes: the task ids
          TASKS,             \* the tasks the clients submit
          Clients,           \* the threads that call the SCH_ functions
          ClientSeconds,     \* when in an hour they change the tasks
          ClientCalls,       \* the functions they call: FD only adds tasks
          CHECK_STATUS_TIME, \* polling period of the scheduler       (6)
          UI32_SPAN,         \* values of a UI32                      (2^32)
          MaxLag,            \* bound on the delay between two sleeps
          StartTime,         \* when SCH_StartScheduler is called
          MaxNow,            \* bound on the clock
          NULL               \* the null pointer

Args == {task.vpArg : task \in TASKS}

ASSUME SchedulerAssumption ==
    /\ TASKS \subseteq TaskType(Args)
    /\ IsFiniteSet(Nodes)
    /\ NULL \notin Nodes /\ NULL \notin TASKS /\ NULL \notin Args
    /\ ClientSeconds \subseteq 0 .. NO_SECS_IN_HOUR - 1
    /\ ClientCalls \subseteq {"add", "delete", "modify", "stop"}
    /\ CHECK_STATUS_TIME \in 1 .. NO_SECS_IN_HOUR - 1
    /\ UI32_SPAN \in Nat /\ UI32_SPAN > NO_SECS_IN_DAY * NO_SECS_IN_HOUR
    /\ MaxLag \in Nat /\ MaxNow \in Nat /\ StartTime \in 0 .. MaxNow

VARIABLES
    now,             \* the clock
    lag,             \* delay suffered since the last sleep began
    table,           \* gSchMasterTable: the list of each bucket
    task,            \* the contents of the master nodes
    freedNext,       \* pNext of the nodes freed under the builder's feet
    gbTaskChanged,
    gbStopScheduler,
    execList,        \* gExecList, from pHeadExecData on
    execLocked,      \* ExecList_mutex; only the scheduler thread locks it
    masterOwner,     \* holder of gMasterTable_mutex across steps, or NULL
    pc,              \* where the scheduler thread is
    wake,            \* when the SLEEP it is in ends
    afterSleep,      \* where it continues then
    pCurrTime,       \* the time it read last in its outer loop
    bHourlySchedule,
    buildTime,       \* the time BuildExecutionList read last
    pTemp,           \* the node BuildExecutionList visits next
    ui32NoOfExec,
    bucket,          \* the bucket SCH_AutoCleanTask is at
    client,          \* "idle", in "modify" or in "join", for each client thread
    newTask,         \* the new version a client in SCH_ModifyTask will add
    ran              \* the last call of a task's function

clockVars == <<now, lag>>
tableVars == <<table, task, freedNext>>
flagVars  == <<gbTaskChanged, gbStopScheduler>>
sleepVars == <<wake, afterSleep>>
localVars == <<pCurrTime, bHourlySchedule>>
clientVars == <<client, newTask>>
buildVars == <<buildTime, pTemp, ui32NoOfExec>>
vars == <<clockVars, tableVars, flagVars, execList, execLocked, masterOwner,
          pc, sleepVars, localVars, buildVars, bucket, clientVars, ran>>

-----------------------------------------------------------------------------
Buckets == 0 .. EVERY_HOUR_TASK

\* The nodes of the master table: allocated and linked into a bucket.
Linked(n) == \E b \in Buckets : \E i \in DOMAIN table[b] : table[b][i] = n

\* pHeadMasterData of a bucket, and pNext of a node.
First(b) == IF table[b] = << >> THEN NULL ELSE table[b][1]

Successor(b, i) == IF i = Len(table[b]) THEN NULL ELSE table[b][i + 1]

NextNode(n) ==
    IF Linked(n)
    THEN LET b == CHOOSE x \in Buckets :
                      \E j \in DOMAIN table[x] : table[x][j] = n
             i == CHOOSE j \in DOMAIN table[b] : table[b][j] = n
         IN  Successor(b, i)
    ELSE freedNext[n]

Unlink(s, i) == [j \in 1 .. Len(s) - 1 |-> IF j < i THEN s[j] ELSE s[j + 1]]

-----------------------------------------------------------------------------
\* A call of the task's function with its argument; turn tells two calls apart.
Call(entry) == [vpArg |-> entry.vpArg, at |-> now, turn |-> ~ran.turn]

\* pthread_create ran the thread: nothing has been called yet.
NoCall == [vpArg |-> NULL, at |-> 0, turn |-> FALSE]

\* SCH_StartScheduler: InitMasterTable, InitExecutionList, the flags, and the
\* thread that enters Scheduler.
Init == /\ now = StartTime
        /\ lag = 0
        /\ table = [b \in Buckets |-> << >>]
        /\ task = [n \in Nodes |-> NULL]
        /\ freedNext = [n \in Nodes |-> NULL]
        /\ gbTaskChanged = FALSE
        /\ gbStopScheduler = FALSE
        /\ execList = << >>
        /\ execLocked = FALSE
        /\ masterOwner = NULL
        /\ pc = "top"
        /\ wake = 0
        /\ afterSleep = "top"
        /\ pCurrTime = StartTime
        /\ bHourlySchedule = FALSE
        /\ buildTime = StartTime
        /\ pTemp = NULL
        /\ ui32NoOfExec = 0
        /\ bucket = 0
        /\ client = [c \in Clients |-> "idle"]
        /\ newTask = [c \in Clients |-> NULL]
        /\ ran = NoCall

-----------------------------------------------------------------------------
(* The clients.  Each critical section under gMasterTable_mutex is one     *)
(* step: the only thread that reads the table without the mutex, the       *)
(* builder, reads head, pNext and MTask, and each section changes these    *)
(* with a single store.                                                    *)

CanCall(c, function) ==
    /\ function \in ClientCalls
    /\ client[c] = "idle"
    /\ pc # "dead"
    /\ function # "stop" => SecOfHour(now) \in ClientSeconds

\* Appending a freshly allocated node n for the task; malloc may return any
\* address that is not in use, the ones freed before included.
Link(n, t) ==
    /\ ~Linked(n)
    /\ table' = [table EXCEPT ![Bucket(t)] = Append(@, n)]
    /\ task' = [task EXCEPT ![n] = t]
    /\ gbTaskChanged' = TRUE
    /\ UNCHANGED freedNext

\* BuildExecutionList is under way.
Building == pc \in {"everyHour", "thisHour"}

\* Unlinking and freeing the i-th node of bucket b.  What a freed node held
\* only matters to a builder, which may have a pointer to it.
Free(b, i) ==
    /\ table' = [table EXCEPT ![b] = Unlink(@, i)]
    /\ IF ~Building
       THEN task' = [task EXCEPT ![table[b][i]] = NULL] /\ UNCHANGED freedNext
       ELSE /\ freedNext' = [freedNext EXCEPT ![table[b][i]] = Successor(b, i)]
            /\ UNCHANGED task

\* A job is submitted to the scheduler once at a time.
InUse(t) == \E n \in Nodes : Linked(n) /\ task[n].vpArg = t.vpArg

\* SCH_AddTask.  A task that fails ValidateTask, and a failing malloc, return
\* -1 and change nothing.
SCH_AddTask(c, n, t) ==
    /\ CanCall(c, "add")
    /\ masterOwner = NULL
    /\ ValidateTask(t, now)
    /\ ~InUse(t)
    /\ Link(n, t)
    /\ UNCHANGED <<clockVars, gbStopScheduler, execList, execLocked,
                   masterOwner, pc, sleepVars, localVars, buildVars, bucket,
                   clientVars, ran>>

\* SCH_DeleteTask of a task that is found; gbTaskChanged is not set.
SCH_DeleteTask(c, b, i) ==
    /\ CanCall(c, "delete")
    /\ masterOwner = NULL
    /\ i \in DOMAIN table[b]
    /\ Free(b, i)
    /\ UNCHANGED <<clockVars, flagVars, execList, execLocked, masterOwner, pc,
                   sleepVars, localVars, buildVars, bucket,
                   clientVars, ran>>

\* SCH_ModifyTask: first SCH_DeleteTask ...
SCH_ModifyTask(c, b, i, t) ==
    /\ CanCall(c, "modify")
    /\ masterOwner = NULL
    /\ i \in DOMAIN table[b]
    /\ task[table[b][i]].vpArg = t.vpArg
    /\ Free(b, i)
    /\ client' = [client EXCEPT ![c] = "modify"]
    /\ newTask' = [newTask EXCEPT ![c] = t]
    /\ UNCHANGED <<clockVars, flagVars, execList, execLocked, masterOwner, pc,
                   sleepVars, localVars, buildVars, bucket, ran>>

\* ... then SCH_AddTask of the new version, which is valid ...
ModifyAdds(c, n) ==
    /\ client[c] = "modify"
    /\ masterOwner = NULL
    /\ ValidateTask(newTask[c], now)
    /\ Link(n, newTask[c])
    /\ client' = [client EXCEPT ![c] = "idle"]
    /\ newTask' = [newTask EXCEPT ![c] = NULL]
    /\ UNCHANGED <<clockVars, gbStopScheduler, execList, execLocked,
                   masterOwner, pc, sleepVars, localVars, buildVars, bucket,
                   ran>>

\* ... or not, and then the task is gone.
ModifyFails(c) ==
    /\ client[c] = "modify"
    /\ ~ValidateTask(newTask[c], now)
    /\ client' = [client EXCEPT ![c] = "idle"]
    /\ newTask' = [newTask EXCEPT ![c] = NULL]
    /\ UNCHANGED <<clockVars, tableVars, flagVars, execList, execLocked,
                   masterOwner, pc, sleepVars, localVars, buildVars, bucket,
                   ran>>

\* SCH_StopScheduler sets the flag and joins the thread.
SCH_StopScheduler(c) ==
    /\ CanCall(c, "stop")
    /\ \A d \in Clients : client[d] # "join"
    /\ gbStopScheduler' = TRUE
    /\ client' = [client EXCEPT ![c] = "join"]
    /\ UNCHANGED <<clockVars, tableVars, gbTaskChanged, execList, execLocked,
                   masterOwner, pc, sleepVars, localVars, buildVars, bucket,
                   newTask, ran>>

WaitForScheduler(c) ==
    /\ client[c] = "join"
    /\ pc = "dead"
    /\ client' = [client EXCEPT ![c] = "idle"]
    /\ newTask' = [newTask EXCEPT ![c] = NULL]
    /\ UNCHANGED <<clockVars, tableVars, flagVars, execList, execLocked,
                   masterOwner, pc, sleepVars, localVars, buildVars, bucket,
                   ran>>

-----------------------------------------------------------------------------
(* The scheduler thread.                                                   *)

\* SLEEP(n): the thread continues at p once n seconds have passed.
Sleep(n, p) == /\ pc' = "sleep"
               /\ wake' = now + n
               /\ afterSleep' = p
               /\ lag' = IF n = 0 THEN lag ELSE 0
               /\ UNCHANGED now

GoTo(p) == pc' = p /\ UNCHANGED <<clockVars, sleepVars>>

Wake == /\ pc = "sleep"
        /\ now >= wake
        /\ pc' = afterSleep
        /\ wake' = 0
        /\ UNCHANGED <<clockVars, tableVars, flagVars, execList, execLocked,
                       masterOwner, afterSleep, localVars, buildVars, bucket,
                       clientVars, ran>>

\* The outer loop: stop, or read the clock.
Top == /\ pc = "top"
       /\ IF gbStopScheduler
          THEN /\ gbStopScheduler' = FALSE
               /\ execList' = << >>              \* ClearExecutionList
               /\ GoTo("clearMaster")
               /\ UNCHANGED pCurrTime
          ELSE /\ pCurrTime' = now
               /\ GoTo("hourly")
               /\ UNCHANGED <<gbStopScheduler, execList>>
       /\ UNCHANGED <<tableVars, gbTaskChanged, execLocked, masterOwner,
                      bHourlySchedule, buildVars, bucket, clientVars, ran>>

\* ClearMasterTable, and the thread ends.
ClearMasterTable ==
    /\ pc = "clearMaster"
    /\ masterOwner = NULL
    /\ table' = [b \in Buckets |-> << >>]
    /\ task' = [n \in Nodes |-> NULL]
    /\ GoTo("dead")
    /\ UNCHANGED <<freedNext, flagVars, execList, execLocked, masterOwner,
                   localVars, buildVars, bucket, clientVars, ran>>

\* Mistake: the polls of an idle scheduler can step over the window.
NearHourEnd_Strict(left) == left < CHECK_STATUS_TIME

NearHourEnd(left) == left <= CHECK_STATUS_TIME

\* Within CHECK_STATUS_TIME of the next hour the thread sleeps until it begins.
HourlyCheck ==
    /\ pc = "hourly"
    /\ LET left == NO_SECS_IN_HOUR - SecOfHour(pCurrTime)
       IN  IF ~bHourlySchedule /\ ~gbTaskChanged /\ NearHourEnd(left)
           THEN bHourlySchedule' = TRUE /\ Sleep(left, "recheck")
           ELSE GoTo("recheck") /\ UNCHANGED bHourlySchedule
    /\ UNCHANGED <<tableVars, flagVars, execList, execLocked, masterOwner,
                   pCurrTime, buildVars, bucket, clientVars, ran>>

Recheck ==
    /\ pc = "recheck"
    /\ IF ~gbTaskChanged /\ ~bHourlySchedule
       THEN Sleep(CHECK_STATUS_TIME, "top")
       ELSE GoTo("autoClean")
    /\ UNCHANGED <<tableVars, flagVars, execList, execLocked, masterOwner,
                   localVars, buildVars, bucket, clientVars, ran>>

\* Auto clean at 00 hour, by the time the outer loop read before it slept.
AtMidnight == /\ Hour(pCurrTime) = 0
              /\ SecOfHour(pCurrTime) <= CHECK_STATUS_TIME

AutoCleanStarts ==
    /\ pc = "autoClean"
    /\ IF AtMidnight
       THEN /\ masterOwner = NULL
            /\ masterOwner' = "scheduler"
            /\ bucket' = 0
            /\ GoTo("cleaning")
       ELSE /\ GoTo("clear")
            /\ UNCHANGED <<masterOwner, bucket>>
    /\ UNCHANGED <<tableVars, flagVars, execList, execLocked, localVars,
                   buildVars, clientVars, ran>>

OneShot(n) == task[n].eType = "SCH_ONE_SHOT"

Expired(n) == OneShot(n) /\ DateExpired(task[n], now)

\* The walk over the bucket comes next to its i-th node: the first of its
\* one-shot tasks, since the ones before it have been removed.
CleanNext(i) ==
    /\ i \in DOMAIN table[bucket]
    /\ OneShot(table[bucket][i])
    /\ \A j \in 1 .. i - 1 : ~OneShot(table[bucket][j])

\* The walk does not advance past a one-shot task whose date has not expired:
\* it tests the same node again and again, with the mutex held.
Spinning == /\ pc = "cleaning"
            /\ \E i \in DOMAIN table[bucket] :
                  CleanNext(i) /\ ~Expired(table[bucket][i])

\* Mistake: the loop over the table runs one bucket too far.
LastBucket_OffByOne == EVERY_HOUR_TASK + 1

LastBucket == EVERY_HOUR_TASK       \* MASTER_ARR_SIZE - 1

\* SCH_AutoCleanTask removes the expired one-shot tasks of a bucket and goes on
\* to the next one.
AutoCleanRemoves ==
    /\ pc = "cleaning"
    /\ \E i \in DOMAIN table[bucket] : /\ CleanNext(i)
                                       /\ Expired(table[bucket][i])
                                       /\ Free(bucket, i)
    /\ GoTo("cleaning")
    /\ UNCHANGED <<flagVars, execList, execLocked, masterOwner, localVars,
                   buildVars, bucket, clientVars, ran>>

AutoCleanAdvances ==
    /\ pc = "cleaning"
    /\ \A i \in DOMAIN table[bucket] : ~CleanNext(i)
    /\ IF bucket = LastBucket
       THEN GoTo("clear") /\ masterOwner' = NULL /\ bucket' = 0
       ELSE GoTo("cleaning") /\ bucket' = bucket + 1 /\ UNCHANGED masterOwner
    /\ UNCHANGED <<tableVars, flagVars, execList, execLocked, localVars,
                   buildVars, clientVars, ran>>

\* ClearExecutionList, InitExecutionList, and BuildExecutionList up to its
\* first node.  gMasterTable_mutex is not taken.
BuildStarts ==
    /\ pc = "clear"
    /\ execList' = << >>
    /\ execLocked' = TRUE
    /\ buildTime' = now
    /\ ui32NoOfExec' = 0
    /\ freedNext' = [n \in Nodes |-> NULL]
    /\ pTemp' = First(EVERY_HOUR_TASK)
    /\ GoTo("everyHour")
    /\ UNCHANGED <<table, task, flagVars, masterOwner, localVars, bucket,
                   clientVars, ran>>

VisitEveryHour ==
    /\ pc = "everyHour"
    /\ IF pTemp # NULL
       THEN /\ execList' = execList \o
                  EveryHourEntries(task[pTemp], buildTime, ui32NoOfExec)
            /\ ui32NoOfExec' = NoOfExec(task[pTemp], buildTime, ui32NoOfExec)
            /\ pTemp' = NextNode(pTemp)
            /\ GoTo("everyHour")
       ELSE /\ pTemp' = First(Hour(buildTime))
            /\ GoTo("thisHour")
            /\ UNCHANGED <<execList, ui32NoOfExec>>
    /\ UNCHANGED <<tableVars, flagVars, execLocked, masterOwner, localVars,
                   buildTime, bucket, clientVars, ran>>

VisitThisHour ==
    /\ pc = "thisHour"
    /\ IF pTemp # NULL
       THEN /\ execList' = execList \o HourEntries(task[pTemp], buildTime)
            /\ pTemp' = NextNode(pTemp)
            /\ GoTo("thisHour")
            /\ UNCHANGED execLocked
       ELSE /\ execLocked' = FALSE
            /\ GoTo("built")
            /\ UNCHANGED <<execList, pTemp>>
    /\ UNCHANGED <<tableVars, flagVars, masterOwner, localVars, buildTime,
                   ui32NoOfExec, bucket, clientVars, ran>>

\* After BuildExecutionList has returned.
ResetFlags ==
    /\ pc = "built"
    /\ gbTaskChanged' = FALSE
    /\ bHourlySchedule' = FALSE
    /\ GoTo("sort")
    /\ UNCHANGED <<tableVars, gbStopScheduler, execList, execLocked,
                   masterOwner, pCurrTime, buildVars, bucket, clientVars, ran>>

\* SortExecutionList locks the list; it is a bubble sort that swaps neighbours
\* only when the first is due strictly later.
SortStarts ==
    /\ pc = "sort"
    /\ execLocked' = TRUE
    /\ GoTo("sorting")
    /\ UNCHANGED <<tableVars, flagVars, execList, masterOwner, localVars,
                   buildVars, bucket, clientVars, ran>>

Inverted(i) == execList[i].ui32Interval > execList[i + 1].ui32Interval

\* Swapping any inverted neighbours leads to the same sorted list: the model
\* takes the first ones.
SortSwaps ==
    /\ pc = "sorting"
    /\ \E i \in 1 .. Len(execList) - 1 :
          /\ Inverted(i)
          /\ \A j \in 1 .. i - 1 : ~Inverted(j)
          /\ execList' = [execList EXCEPT ![i] = execList[i + 1],
                                          ![i + 1] = execList[i]]
    /\ GoTo("sorting")
    /\ UNCHANGED <<tableVars, flagVars, execLocked, masterOwner, localVars,
                   buildVars, bucket, clientVars, ran>>

Sorted(s) == \A i, j \in DOMAIN s :
                i <= j => s[i].ui32Interval <= s[j].ui32Interval

\* The lock is released after the sort and taken again for the loop.
SortEnds ==
    /\ pc = "sorting"
    /\ Sorted(execList)
    /\ IF execList = << >>
       THEN Sleep(CHECK_STATUS_TIME, "top") /\ execLocked' = FALSE
       ELSE GoTo("loop") /\ UNCHANGED execLocked
    /\ UNCHANGED <<tableVars, flagVars, execList, masterOwner, localVars,
                   buildVars, bucket, clientVars, ran>>

-----------------------------------------------------------------------------
(* The execution loop for the current hour; ExecList_mutex is held at its  *)
(* head.                                                                   *)

Due == Head(execList).ui32Interval

\* Mistake: only the outer loop looks at the flag.
StopSeen_Never == FALSE

StopSeen == gbStopScheduler

InLoop == pc = "loop" /\ execList # << >> /\ ~StopSeen

LoopEnds ==
    /\ pc = "loop"
    /\ execList = << >>
    /\ GoTo("unlock")
    /\ UNCHANGED <<tableVars, flagVars, execList, execLocked, masterOwner,
                   localVars, buildVars, bucket, clientVars, ran>>

LoopStops ==
    /\ pc = "loop"
    /\ execList # << >>
    /\ StopSeen
    /\ execLocked' = FALSE
    /\ GoTo("unlock")
    /\ UNCHANGED <<tableVars, flagVars, execList, masterOwner, localVars,
                   buildVars, bucket, clientVars, ran>>

SkipTask ==
    /\ InLoop
    /\ SecOfHour(now) > Due
    /\ execList' = Tail(execList)
    /\ GoTo("loop")
    /\ UNCHANGED <<tableVars, flagVars, execLocked, masterOwner, localVars,
                   buildVars, bucket, clientVars, ran>>

\* Mistake: a second of sleep after every call.
RunTask_Sleeps ==
    /\ InLoop
    /\ SecOfHour(now) = Due
    /\ ran' = Call(Head(execList))
    /\ execList' = Tail(execList)
    /\ execLocked' = FALSE
    /\ Sleep(1, "woken")
    /\ UNCHANGED <<tableVars, flagVars, masterOwner, localVars, buildVars,
                   bucket, clientVars>>

RunTask ==
    /\ InLoop
    /\ SecOfHour(now) = Due
    /\ ran' = Call(Head(execList))
    /\ execList' = Tail(execList)
    /\ GoTo("loop")
    /\ UNCHANGED <<tableVars, flagVars, execLocked, masterOwner, localVars,
                   buildVars, bucket, clientVars>>

\* An entry of second 3600 runs at second 3599; the last one ends the hour,
\* with a second of sleep under the lock.
EndOfHour == SecOfHour(now) = NO_SECS_IN_HOUR - 1 /\ Due = NO_SECS_IN_HOUR

RunTaskAtEndOfHour ==
    /\ InLoop
    /\ EndOfHour
    /\ bHourlySchedule' = TRUE
    /\ ran' = Call(Head(execList))
    /\ execList' = Tail(execList)
    /\ IF Tail(execList) = << >> THEN Sleep(1, "unlock") ELSE GoTo("loop")
    /\ UNCHANGED <<tableVars, flagVars, execLocked, masterOwner, pCurrTime,
                   buildVars, bucket, clientVars>>

\* Nothing is due: the code reads the clock again before it computes the sleep.
NothingDue ==
    /\ InLoop
    /\ SecOfHour(now) < Due
    /\ ~EndOfHour
    /\ GoTo("calc")
    /\ UNCHANGED <<tableVars, flagVars, execList, execLocked, masterOwner,
                   localVars, buildVars, bucket, clientVars, ran>>

\* ui32SleepTime and the argument of SLEEP, both unsigned.  The branch of lines
\* 1474-1491 is never taken: the condition before it covers it.
SleepTime(due, s) == (due - s) % UI32_SPAN

\* Mistake: the sleeps near the end of the hour are not shortened.
SleepArgument_Plain(due, s) ==
    LET d == SleepTime(due, s)
    IN  IF d < CHECK_STATUS_TIME THEN d ELSE CHECK_STATUS_TIME

SleepArgument(due, s) ==
    LET d == SleepTime(due, s)
    IN  IF \/ d = CHECK_STATUS_TIME /\ s = NO_SECS_IN_HOUR - CHECK_STATUS_TIME
           \/ d < CHECK_STATUS_TIME /\ s > NO_SECS_IN_HOUR - CHECK_STATUS_TIME
        THEN (d - 1) % UI32_SPAN
        ELSE IF d < CHECK_STATUS_TIME THEN d ELSE CHECK_STATUS_TIME

SleepTillNextTask ==
    /\ pc = "calc"
    /\ execLocked' = FALSE
    /\ Sleep(SleepArgument(Due, SecOfHour(now)), "woken")
    /\ UNCHANGED <<tableVars, flagVars, execList, masterOwner, localVars,
                   buildVars, bucket, clientVars, ran>>

\* A changed task table breaks the loop, without the lock.
Woken ==
    /\ pc = "woken"
    /\ IF gbTaskChanged
       THEN GoTo("unlock") /\ UNCHANGED execLocked
       ELSE GoTo("loop") /\ execLocked' = TRUE
    /\ UNCHANGED <<tableVars, flagVars, execList, masterOwner, localVars,
                   buildVars, bucket, clientVars, ran>>

\* Mistake: every way out of the loop is believed to have unlocked.
UnlockForSafety_Dropped ==
    /\ pc = "unlock"
    /\ GoTo("top")
    /\ UNCHANGED <<tableVars, flagVars, execList, execLocked, masterOwner,
                   localVars, buildVars, bucket, clientVars, ran>>

\* "For safety do the unlock", whether or not the mutex is locked.
UnlockForSafety ==
    /\ pc = "unlock"
    /\ execLocked' = FALSE
    /\ GoTo("top")
    /\ UNCHANGED <<tableVars, flagVars, execList, masterOwner, localVars,
                   buildVars, bucket, clientVars, ran>>

-----------------------------------------------------------------------------
\* The execution loop on its list.
InLoopOnList == \/ pc \in {"loop", "calc", "woken"}
                \/ pc = "sleep" /\ afterSleep = "woken"

\* A second before an entry in the last CHECK_STATUS_TIME seconds of the hour
\* the loop calls SLEEP(0) again and again: the second passes while it turns,
\* wherever in the loop the thread is then.
BusyWaiting ==
    /\ InLoopOnList
    /\ execList # << >>
    /\ Due = SecOfHour(now) + 1
    /\ SecOfHour(now) > NO_SECS_IN_HOUR - CHECK_STATUS_TIME
    /\ Due < NO_SECS_IN_HOUR

\* The scheduler thread could take a step but has not been given the processor.
Ready == /\ pc # "dead"
         /\ ~(pc = "sleep" /\ now < wake)
         /\ ~Spinning
         /\ ~BusyWaiting

Tick == /\ now < MaxNow
        /\ Ready => lag < MaxLag
        /\ now' = now + 1
        /\ lag' = IF Ready THEN lag + 1 ELSE lag
        /\ UNCHANGED <<tableVars, flagVars, execList, execLocked, masterOwner,
                       pc, sleepVars, localVars, buildVars, bucket, clientVars,
                       ran>>

ClientStep ==
    \E c \in Clients :
        \/ \E n \in Nodes, t \in TASKS : SCH_AddTask(c, n, t)
        \/ \E b \in Buckets : \E i \in DOMAIN table[b] :
              \/ SCH_DeleteTask(c, b, i)
              \/ \E t \in TASKS : SCH_ModifyTask(c, b, i, t)
        \/ \E n \in Nodes : ModifyAdds(c, n)
        \/ ModifyFails(c)
        \/ SCH_StopScheduler(c)
        \/ WaitForScheduler(c)

SchedulerStep ==
    \/ Wake \/ Top \/ ClearMasterTable \/ HourlyCheck \/ Recheck
    \/ AutoCleanStarts \/ AutoCleanRemoves \/ AutoCleanAdvances
    \/ BuildStarts \/ VisitEveryHour \/ VisitThisHour \/ ResetFlags
    \/ SortStarts \/ SortSwaps \/ SortEnds
    \/ LoopEnds \/ LoopStops \/ SkipTask \/ RunTask \/ RunTaskAtEndOfHour
    \/ NothingDue \/ SleepTillNextTask \/ Woken \/ UnlockForSafety

Next == ClientStep \/ SchedulerStep \/ Tick

\* The operating system runs the scheduler thread and the clock goes on; a
\* client that waits in pthread_join returns once the thread has ended.
Fairness == /\ WF_vars(SchedulerStep)
            /\ WF_vars(Tick)
            /\ \A c \in Clients : WF_vars(WaitForScheduler(c))

Spec == Init /\ [][Next]_vars

FairSpec == Spec /\ Fairness
-----------------------------------------------------------------------------
(* Properties.                                                             *)

Labels == {"top", "clearMaster", "dead", "hourly", "recheck", "autoClean",
           "cleaning", "clear", "everyHour", "thisHour", "built", "sort", "sorting",
           "loop", "calc", "sleep", "woken", "unlock"}

EntryType == [vpArg : Args, ui32Interval : Nat]

CallRecord == [vpArg : Args \cup {NULL}, at : Nat, turn : BOOLEAN]

\* The types of the shared data and of the scheduler thread's variables; in
\* particular every list that is walked is a list of nodes, and the auto clean
\* stays within the MASTER_ARR_SIZE buckets.
TypeOK ==
    /\ now \in Nat /\ lag \in 0 .. MaxLag
    /\ table \in [Buckets -> Seq(Nodes)]
    /\ task \in [Nodes -> TASKS \cup {NULL}]
    /\ freedNext \in [Nodes -> Nodes \cup {NULL}]
    /\ gbTaskChanged \in BOOLEAN /\ gbStopScheduler \in BOOLEAN
    /\ execList \in Seq(EntryType)
    /\ execLocked \in BOOLEAN
    /\ masterOwner \in {NULL, "scheduler"}
    /\ pc \in Labels
    /\ wake \in Nat /\ afterSleep \in {"top", "recheck", "woken", "unlock"}
    /\ pCurrTime \in Nat /\ bHourlySchedule \in BOOLEAN
    /\ buildTime \in Nat
    /\ pTemp \in Nodes \cup {NULL}
    /\ ui32NoOfExec \in Nat
    /\ bucket \in Buckets
    /\ client \in [Clients -> {"idle", "modify", "join"}]
    /\ newTask \in [Clients -> TASKS \cup {NULL}]
    /\ \A c \in Clients : client[c] = "modify" => newTask[c] \in TASKS
    /\ ran \in CallRecord

\* ExecList_mutex is not recursive: wherever the thread locks it next (the
\* clearing of the list, the build, the sort, the way back into the loop) or
\* waits for the other mutex, it does not hold it.  The thread never waits for
\* itself, and never holds one mutex while it waits for the other.
ExecLockFree ==
    pc \in {"top", "clearMaster", "autoClean", "cleaning", "clear", "built",
            "sort", "woken", "dead"} => ~execLocked

\* The memory of the master table: no node is in two places, every node that is
\* linked, that the builder holds or that a freed node points to still has the
\* contents of a validated task, and only a builder holds a node.
Accepted(t) == t.ePCity = "SCH_SEC_MIN_HOUR" => t.ui32Interval # 0

HeapInv ==
    /\ \A b, d \in Buckets : \A i \in DOMAIN table[b], j \in DOMAIN table[d] :
          table[b][i] = table[d][j] => b = d /\ i = j
    /\ \A b \in Buckets : \A i \in DOMAIN table[b] : task[table[b][i]] # NULL
    /\ \A n \in Nodes : task[n] # NULL => Accepted(task[n])
    /\ pTemp # NULL => Building /\ task[pTemp] # NULL
    /\ Building => \A n \in Nodes :
                      freedNext[n] # NULL => task[freedNext[n]] # NULL

\* Where the scheduler thread does not hold ExecList_mutex.
LockInv ==
    \/ pc \in {"everyHour", "thisHour", "sorting", "loop", "calc", "unlock"}
    \/ pc = "sleep" /\ afterSleep = "unlock"
    \/ ~execLocked

\* The loop computes a sleep for the entry at the head of its list.
CalcInv == pc = "calc" => execList # << >>

\* The execution loop works on a sorted list.
SortInv == InLoopOnList => Sorted(execList)

\* The unsigned sleep time is 0 and one is subtracted from it: the second of an
\* entry in the last CHECK_STATUS_TIME seconds of the hour began between the
\* two readings of the clock.
Wraps == /\ SleepTime(Due, SecOfHour(now)) = 0
         /\ SecOfHour(now) > NO_SECS_IN_HOUR - CHECK_STATUS_TIME

\* The seconds for which the loop waits busily (3596 to 3599).
BusySeconds ==
    (NO_SECS_IN_HOUR - CHECK_STATUS_TIME) + 2 .. NO_SECS_IN_HOUR - 1

\* On a machine without delays a sleep is computed for a second at which nothing
\* is due, or for which the loop waited busily.
DueInv ==
    pc = "calc" => \/ SecOfHour(now) < Due
                   \/ SecOfHour(now) = Due /\ Due \in BusySeconds

\* The thread is in the sleep of 2^32 - 1 seconds that follows.
Lost == pc = "sleep" /\ wake > MaxNow

\* The last second at which the loop calls an entry's function.
LastSecond(entry) ==
    IF entry.ui32Interval = NO_SECS_IN_HOUR
    THEN entry.ui32Interval - 1 ELSE entry.ui32Interval

HourIndex(t) == t \div NO_SECS_IN_HOUR

HourStart(t) == t - SecOfHour(t)

\* Without delays the loop is awake at the second of every entry, or lost.
AwakeInv ==
    pc = "sleep" /\ afterSleep = "woken" /\ ~Lost =>
        \A i \in DOMAIN execList :
            wake <= HourStart(now) + LastSecond(execList[i])

\* A build and its sort take no time, and the hour for which the list was built
\* is not over while an entry of it is left to a thread that is not lost.
\* (Entries beyond second 3600 never run; the loop may carry them into the next
\* hour.)
HourInv ==
    /\ pc \in {"everyHour", "thisHour", "built", "sort", "sorting"} =>
          buildTime = now
    /\ InLoopOnList /\ ~Lost => \A i \in DOMAIN execList :
          execList[i].ui32Interval <= NO_SECS_IN_HOUR =>
              HourIndex(buildTime) = HourIndex(now)

\* The references for when a task may run: an interval is counted from the
\* start of the hour, or of the day when it is longer.
OnItsSecond(t, at) ==
    IF t.ePCity = "SCH_SEC_MIN_HOUR"
    THEN LET s == IF t.ui32Interval <= NO_SECS_IN_HOUR
                  THEN SecOfHour(at) ELSE at % NO_SECS_IN_DAY
         IN  \/ s > 0 /\ s % t.ui32Interval = 0
             \/ /\ SecOfHour(at) = NO_SECS_IN_HOUR - 1
                /\ (s + 1) % t.ui32Interval = 0
    ELSE Hour(at) = t.hour /\ SecOfHour(at) = t.sec

OnItsDay(t, at) ==
    CASE t.ePCity = "SCH_WEEK"  -> t.eWeekDay = WeekDay(at)
      [] t.ePCity = "SCH_MONTH" -> t.day % DAYS_IN_MONTH = MonthDay(at)
      [] OTHER -> t.eWeekDay \in {WeekDay(at), SCH_ALL_DAYS}

\* The builder keeps ui32NoOfExec from node to node (line 702): a task whose
\* interval is longer than an hour, or only of one week day, is listed in hours
\* and on days that are not its own.  The other tasks:
IntervalsOfAnHour ==
    \A t \in TASKS : t.ePCity = "SCH_SEC_MIN_HOUR" =>
        t.ui32Interval <= NO_SECS_IN_HOUR /\ t.eWeekDay = SCH_ALL_DAYS

\* What an entry of a list built at a time keeps of the task it was made for.
ListedFor(t, entry, at) ==
    /\ t.vpArg = entry.vpArg
    /\ OnItsDay(t, at)
    /\ IF t.ePCity = "SCH_SEC_MIN_HOUR"
       THEN /\ entry.ui32Interval > 0
            /\ entry.ui32Interval % t.ui32Interval = 0
       ELSE entry.ui32Interval = t.sec /\ Hour(at) = t.hour

\* The walk of the builder as long as no client frees a node: it stays in the
\* bucket it is in, the nodes of a bucket hold tasks of that bucket, and every
\* entry of the list is one for some task.
WalkedBucket == IF pc = "everyHour" THEN EVERY_HOUR_TASK ELSE Hour(buildTime)

OriginInv ==
    /\ \A b \in Buckets : \A i \in DOMAIN table[b] :
          Bucket(task[table[b][i]]) = b
    /\ pTemp # NULL => \E i \in DOMAIN table[WalkedBucket] :
                           table[WalkedBucket][i] = pTemp
    /\ \A i \in DOMAIN execList :
          \E t \in TASKS : ListedFor(t, execList[i], buildTime)

\* A task's function is only called at a second, in an hour and on a day for
\* which some submitted version of the task asks, whenever tasks are added and
\* cleaned (the whole path from SCH_AddTask over the build and the sort to the
\* call), if the tasks are as in IntervalsOfAnHour.  It is not so when clients
\* delete tasks: a builder that holds a freed node which is used again goes on
\* in the list of another hour.
RunWhenDue ==
    ran.vpArg # NULL =>
        \E t \in TASKS : /\ t.vpArg = ran.vpArg
                         /\ OnItsSecond(t, ran.at)
                         /\ OnItsDay(t, ran.at)

\* A call is always made from a list built in the same hour: a task deleted or
\* modified in one hour has no call left from the old list in the next.
CallsComeFromThisHour ==
    [][ran' # ran => HourIndex(buildTime) = HourIndex(now)]_vars

\* However late the thread computes it, a sleep of the execution loop is at most
\* a polling period, and when the head of the list is not overdue it does not
\* pass the second of any entry (second 3599 for one of 3600).  The exception is
\* the sleep that wraps; SleepsAtMostPollTime is about that one.
NoOversleep ==
    [][pc = "calc" /\ pc' = "sleep" /\ ~Wraps =>
          /\ wake' - now <= CHECK_STATUS_TIME
          /\ SecOfHour(now) <= Due =>
                \A i \in DOMAIN execList :
                    wake' <= HourStart(now) + LastSecond(execList[i])]_vars

\* What the rebuild of every hour needs of the tasks: without one-shot tasks the
\* auto clean does not spin, every repetition of a task is in its hour, and none
\* is at a second for which the loop waits busily and may be lost.
TasksOfAnHour ==
    /\ IntervalsOfAnHour
    /\ \A t \in TASKS :
          /\ t.eType = "SCH_PERIODIC"
          /\ t.ePCity # "SCH_SEC_MIN_HOUR" => t.sec \notin BusySeconds
          /\ t.ePCity = "SCH_SEC_MIN_HOUR" =>
                \A k \in 1 .. NO_SECS_IN_HOUR :
                    t.ui32Interval * k \notin BusySeconds

\* ... and of the clients: the poll that notices their change, and the one
\* after the build, are over before the hour is.
QuietEndOfHour ==
    \A s \in ClientSeconds : s + 2 * CHECK_STATUS_TIME < NO_SECS_IN_HOUR

\* Seconds until the next hour, and until the thread is woken.
Left == NO_SECS_IN_HOUR - SecOfHour(now)

Remaining == wake - now

ListOfThisHour == HourIndex(buildTime) = HourIndex(now)

EntriesInHour ==
    \A i \in DOMAIN execList :
        /\ execList[i].ui32Interval <= NO_SECS_IN_HOUR
        /\ execList[i].ui32Interval \notin BusySeconds

\* No sleep of the thread passes the end of the hour; the two that end there
\* are announced by bHourlySchedule.
SleepInv ==
    pc = "sleep" =>
        IF afterSleep \in {"top", "woken"}
        THEN /\ ~bHourlySchedule /\ ListOfThisHour
             /\ Remaining \in 0 .. CHECK_STATUS_TIME /\ Remaining < Left
        ELSE /\ bHourlySchedule
             /\ \/ Remaining = Left /\ Left <= CHECK_STATUS_TIME /\ ListOfThisHour
                \/ Remaining = 0 /\ Left = NO_SECS_IN_HOUR

\* A change is noticed, and the list built, before the last CHECK_STATUS_TIME
\* seconds of the hour.
ChangeInv ==
    gbTaskChanged =>
        /\ pc = "sleep" => Left > Remaining + CHECK_STATUS_TIME
        /\ pc \in {"sort", "sorting", "loop", "calc"} =>
              Left > 2 * CHECK_STATUS_TIME
        /\ pc \notin {"sleep", "dead"} => Left > CHECK_STATUS_TIME

PollInv ==
    /\ pc = "hourly" => pCurrTime = now
    /\ pc = "recheck" /\ ~gbTaskChanged /\ ~bHourlySchedule =>
          Left > CHECK_STATUS_TIME
    /\ pc \in {"autoClean", "cleaning", "clear", "everyHour", "thisHour",
               "built", "sort", "sorting"} => Left > CHECK_STATUS_TIME

\* bHourlySchedule stands for the beginning of an hour, unless the loop is
\* running its last entries or was stopped there.
HourlyInv ==
    bHourlySchedule =>
        /\ pc \notin {"sort", "sorting", "calc", "woken"}
        /\ pc = "loop" => Left = 1 /\ execList # << >> /\ Due = NO_SECS_IN_HOUR
        /\ pc \in {"unlock", "top"} =>
              Left = NO_SECS_IN_HOUR \/ gbStopScheduler
        /\ pc \in {"hourly", "recheck"} => Left = NO_SECS_IN_HOUR

\* The list is of this hour, or the hour has just begun and the thread is on its
\* way to the build.
FreshInv ==
    /\ pc # "dead" => ListOfThisHour \/ Left = NO_SECS_IN_HOUR
    /\ pc \in {"loop", "calc", "woken"} => ListOfThisHour
    /\ pc \in {"unlock", "top", "hourly", "recheck"} =>
          ListOfThisHour \/ bHourlySchedule

RebuildInv == /\ EntriesInHour /\ SleepInv /\ ChangeInv /\ PollInv
              /\ HourlyInv /\ FreshInv

\* Line 1319: "Every start of hour the BuildExecutionList() has to be called":
\* so it is for the tasks of TasksOfAnHour.
HourRebuilt ==
    /\ pc # "dead" /\ ~gbStopScheduler
    /\ HourIndex(now) > HourIndex(StartTime)
    /\ SecOfHour(now) >= 1
    => HourIndex(buildTime) = HourIndex(now)

\* SCH_StopScheduler returns: wherever the thread is, it notices the flag,
\* clears both lists and ends before it has slept for more than two polling
\* periods (so before the clock of the model stops), for the tasks of
\* TasksOfAnHour: with others it may be spinning, or lost in a wrapped sleep.
StopTerminates ==
    \A c \in Clients :
        client[c] = "join" /\ now + 2 * CHECK_STATUS_TIME <= MaxNow
            ~> client[c] = "idle"

\* Line 1343: "Do Auto Clean at 00 Hour": the clean does not hold the master
\* table's mutex beyond that hour.
CleanInHourZero == masterOwner = "scheduler" => Hour(now) = 0

-----------------------------------------------------------------------------
(* What comments of the code say and TLC refutes; the README describes the *)
(* counterexamples.                                                        *)

\* Line 1336: "Check again if any new Task is added to scheduler": when the
\* thread goes to sleep, every repetition this hour still owes to a task of the
\* master table is on the list, unless gbTaskChanged announces the task.
Owed(n) == EveryHourEntries(task[n], buildTime, 0)

NewTaskNoticed ==
    /\ pc = "sleep"
    /\ HourIndex(buildTime) = HourIndex(now)
    /\ ~gbTaskChanged
    => \A i \in DOMAIN table[EVERY_HOUR_TASK] :
          LET owed == Owed(table[EVERY_HOUR_TASK][i])
          IN  \A k \in DOMAIN owed :
                 SecOfHour(now) < owed[k].ui32Interval - 1 =>
                     \E j \in DOMAIN execList : execList[j] = owed[k]

\* Line 1057, SCH_DeleteTask "Removes Task from the Scheduler": no function is
\* called for a job that has no task in the master table.
DeletedTaskNotRun ==
    [][ran' # ran =>
          \E n \in Nodes : Linked(n) /\ task[n].vpArg = ran'.vpArg]_vars

\* Line 790: the list "does not need locking since it is been called by
\* BuildExecutionList, where lock has been provided": the node the builder is
\* about to read has not been freed.
BuilderReadsLinkedNodes == pTemp # NULL => Linked(pTemp)

\* Line 1445: "If Sleep time is greates than CHECK_STATUS_TIME, sleep for
\* CHECK_STATUS_TIME and check for any new Task added".
SleepsAtMostPollTime == pc = "sleep" => wake - now <= CHECK_STATUS_TIME
=============================================================================
