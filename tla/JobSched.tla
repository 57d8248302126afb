------------------------------ MODULE JobSched ------------------------------
(***************************************************************************)
(* The jobs of the JobSched daemon: the table jobProcessMasterTable of the *)
(* G2Configure subagent, the traps that tell the daemon of each change,    *)
(* and the daemon's list of (row, task id) beside the scheduler's tasks.   *)
(*                                                                         *)
(* The queue of traps keeps its promise here (module TrapFifo); what       *)
(* happens when it overflows is shown with TrapQueue.  Of the scheduler,   *)
(* the master table is left: which nodes are linked, with which argument.  *)
(* A task id is the address of its node, and malloc may return an address  *)
(* that was freed.                                                         *)
(***************************************************************************)
EXTENDS Naturals, Sequences, SequencesExt

CONSTANTS Indices,     \* the rows of the table
          Jobs,        \* what a row may ask for
          OneShot,     \* the jobs with interval 0
          Ids,         \* addresses of master nodes
          Args,        \* addresses of stJobMaster structures
          LOG,         \* the argument of the log task, never set
          MaxTraps,    \* bound: traps in the queue
          MaxSets,     \* bound: SETs of the manager
          NULL

\* A row of the table, a stJobMaster structure, a node of the scheduler with the
\* task of a job, a trap, and a JS_ModifyJobToSched or JS_DeleteFromSched.
Rows == [active : BOOLEAN, job : Jobs]
JobMasters == [index : Indices, job : Jobs]
JobNodes == [vpArg : Args, job : Jobs]
TrapMsgs == [oper : {"ADD", "MODIFY", "DELETE"}, index : Indices,
             job : Jobs \cup {NULL}]
Operations == [oper : {"ADD", "MODIFY", "DELETE"}, index : Indices,
               job : Jobs \cup {NULL}, id : Ids, vpArg : Args \cup {LOG}]

LogTask == [vpArg |-> LOG, job |-> NULL]

ASSUME JobSchedAssumption ==
    /\ Indices \subseteq Nat
    /\ OneShot \subseteq Jobs
    /\ LOG \notin Args
    /\ MaxTraps \in Nat /\ MaxSets \in Nat
    /\ NULL \notin Jobs \cup Ids \cup Args \cup {LOG, LogTask}
    /\ NULL \notin Rows \cup JobMasters \cup JobNodes \cup Operations

VARIABLES
    rows,        \* the table of the subagent: NULL or [active, job]
    sets,        \* SETs so far
    traps,       \* the queue
    phase,       \* JS_StartJobSchedProcess: "down", "fetch", "add", "run"
    fetched,     \* rows of the answer that were not added yet
    stListPtr,   \* the list of [index, id]
    task,        \* the scheduler's nodes: NULL or [vpArg, job]
    heap,        \* the stJobMaster structures: NULL when freed
    op,          \* the JS_ModifyJobToSched or JS_DeleteFromSched under way
    lTaskId,     \* of JS_ScheduleLogInfo
    logging,     \* JS_ScheduleLogInfo is between its two calls
    disturbed    \* history: something the daemon never learnt, or refused

daemonVars == <<phase, fetched, stListPtr, task, heap, op, lTaskId, logging>>
vars == <<rows, sets, traps, daemonVars, disturbed>>

NoRows == [i \in Indices |-> NULL]

FreeIds == {id \in Ids : task[id] = NULL}

\* A structure no task refers to is free, or leaked and never used again.
FreeArgs ==
    {a \in Args : /\ \A id \in Ids : task[id] = NULL \/ task[id].vpArg # a
                  /\ op = NULL \/ op.vpArg # a}

Init == /\ rows = NoRows
        /\ sets = 0
        /\ traps = << >>
        /\ phase = "down"
        /\ fetched = NoRows
        /\ stListPtr = << >>
        /\ task = [id \in Ids |-> NULL]
        /\ heap = [a \in Args |-> NULL]
        /\ op = NULL
        /\ lTaskId = NULL
        /\ logging = FALSE
        /\ disturbed = FALSE

-----------------------------------------------------------------------------
(* The subagent: jobProcessMasterTable_set_commit, one action per SET.     *)

Trap(oper, i, job) == [oper |-> oper, index |-> i, job |-> job]

\* A trap that comes before JS_InitCBuffer is lost, which matters unless the
\* table is still to be read.
SendTrap(trap, bad) ==
    /\ traps' = IF phase = "run" THEN Append(traps, trap) ELSE traps
    /\ disturbed' = (disturbed \/ phase = "add" \/ (bad /\ phase = "run"))

SetRow(i, row) ==
    /\ sets < MaxSets
    /\ Len(traps) < MaxTraps
    /\ sets' = sets + 1
    /\ rows' = [rows EXCEPT ![i] = row]
    /\ UNCHANGED daemonVars

\* createAndGo with the four mandatory columns.
CreateAndGo(i, job) ==
    /\ rows[i] = NULL
    /\ SetRow(i, [active |-> TRUE, job |-> job])
    /\ SendTrap(Trap("ADD", i, job), FALSE)

\* createAndWait: status 5 in the trap counts as a change.
CreateAndWait(i, job) ==
    /\ rows[i] = NULL
    /\ SetRow(i, [active |-> FALSE, job |-> job])
    /\ SendTrap(Trap("MODIFY", i, job), FALSE)

\* status active: the rest of the row is read from the file.  For a row that is
\* active already the daemon adds a second task.
SetActive(i) ==
    /\ rows[i] # NULL
    /\ SetRow(i, [rows[i] EXCEPT !.active = TRUE])
    /\ SendTrap(Trap("ADD", i, rows[i].job), rows[i].active)

SetNotInService(i) ==
    /\ rows[i] # NULL
    /\ SetRow(i, [rows[i] EXCEPT !.active = FALSE])
    /\ SendTrap(Trap("DELETE", i, NULL), FALSE)

\* Mistake: the status of the file is not sent along.
SetColumns_NoStatus(i, job) ==
    /\ rows[i] # NULL
    /\ SetRow(i, [rows[i] EXCEPT !.job = job])
    /\ SendTrap(Trap("ADD", i, job), FALSE)

\* The trap of a row that is not in service carries this status, and deletes.
SetColumns(i, job) ==
    /\ rows[i] # NULL
    /\ SetRow(i, [rows[i] EXCEPT !.job = job])
    /\ SendTrap(IF rows[i].active THEN Trap("MODIFY", i, job)
                                  ELSE Trap("DELETE", i, NULL), FALSE)

Destroy(i) ==
    /\ rows[i] # NULL
    /\ SetRow(i, NULL)
    /\ SendTrap(Trap("DELETE", i, NULL), FALSE)

\* The job that a row wants done.
Asks(row) == IF row # NULL /\ row.active THEN row.job ELSE NULL

\* A SET without a trap: one that has a CPU or memory column, whatever else it
\* changes; createAndGo without the four mandatory columns; and any SET when the
\* file cannot be written or read.
SetSilently(i, row) ==
    /\ rows[i] # NULL \/ row # NULL
    /\ SetRow(i, row)
    /\ disturbed' = \/ disturbed
                    \/ phase \in {"add", "run"} /\ Asks(row) # Asks(rows[i])
    /\ UNCHANGED traps

Manager ==
    \E i \in Indices :
        \/ SetActive(i) \/ SetNotInService(i) \/ Destroy(i)
        \/ \E job \in Jobs :
               \/ CreateAndGo(i, job) \/ CreateAndWait(i, job)
               \/ SetColumns(i, job)
        \/ \E row \in Rows \cup {NULL} : SetSilently(i, row)

-----------------------------------------------------------------------------
(* JS_AddJobToSched, used at the start and for a trap.                     *)

\* JS_AddNodeInJobList: always at the head.
AddNode(list, i, id) == <<[index |-> i, id |-> id]>> \o list

AddAccepted(i, job) ==
    \E id \in FreeIds, a \in FreeArgs :
        /\ task' = [task EXCEPT ![id] = [vpArg |-> a, job |-> job]]
        /\ heap' = [heap EXCEPT ![a] = [index |-> i, job |-> job]]
        /\ stListPtr' = AddNode(stListPtr, i, id)
        /\ UNCHANGED disturbed

\* SCH_AddTask returns -1: the day of a one-shot job has passed, or there is no
\* memory.
Refuses(job) == job \in OneShot \/ FreeIds = {}

AddRefused(job) ==
    /\ Refuses(job) \/ FreeArgs = {}
    /\ disturbed' = TRUE
    /\ UNCHANGED <<task, heap, stListPtr>>

\* Mistake: the id of a refused task is noted as well.
JS_AddJobToSched_NotChecked(i, job) ==
    \/ AddAccepted(i, job)
    \/ /\ Refuses(job) \/ FreeArgs = {}
       /\ stListPtr' = AddNode(stListPtr, i, NULL)
       /\ disturbed' = TRUE
       /\ UNCHANGED <<task, heap>>

JS_AddJobToSched(i, job) == AddAccepted(i, job) \/ AddRefused(job)

-----------------------------------------------------------------------------
(* The main thread.                                                        *)

\* The end of JS_ScheduleLogInfo: the log task is added, or SCH_AddTask refuses
\* its interval or has no memory, and then there is none any more.
ScheduleLog ==
    \/ \E id \in FreeIds : /\ task' = [task EXCEPT ![id] = LogTask]
                           /\ lTaskId' = id
    \/ lTaskId' = NULL /\ UNCHANGED task

\* SCH_StartScheduler, and JS_ScheduleLogInfo for the first time, which adds
\* nothing either when the agent gave no interval.
Start ==
    /\ phase = "down"
    /\ ScheduleLog
    /\ phase' = "fetch"
    /\ disturbed' = FALSE
    /\ UNCHANGED <<rows, sets, traps, fetched, stListPtr, heap, op, logging>>

\* JS_GetJobProcessMasterTableDetails: one answer holds all rows.
FetchRows ==
    /\ phase = "fetch"
    /\ phase' = "add"
    /\ fetched' = rows
    /\ UNCHANGED <<rows, sets, traps, stListPtr, task, heap, op, lTaskId,
                   logging, disturbed>>

\* The daemon goes on without the rows.
FetchFails ==
    /\ phase = "fetch"
    /\ phase' = "add"
    /\ disturbed' = TRUE
    /\ UNCHANGED <<rows, sets, traps, fetched, stListPtr, task, heap, op,
                   lTaskId, logging>>

\* The first row left; one that is not in service is skipped.
FirstFetched(i) == /\ fetched[i] # NULL
                   /\ \A k \in Indices : k < i => fetched[k] = NULL

AddFetched(i) ==
    /\ phase = "add"
    /\ FirstFetched(i)
    /\ fetched' = [fetched EXCEPT ![i] = NULL]
    /\ IF fetched[i].active
       THEN JS_AddJobToSched(i, fetched[i].job)
       ELSE UNCHANGED <<task, heap, stListPtr, disturbed>>
    /\ UNCHANGED <<rows, sets, traps, phase, op, lTaskId, logging>>

\* JS_InitCBuffer, and the thread JS_ProcessTrapMsg.
InitCBuffer ==
    /\ phase = "add"
    /\ fetched = NoRows
    /\ phase' = "run"
    /\ UNCHANGED <<rows, sets, traps, fetched, stListPtr, task, heap, op,
                   lTaskId, logging, disturbed>>

\* The process ends: main gives up when JS_StartJobSchedProcess fails, or a
\* signal or a wild pointer ends it.  It may be started again.
Exit ==
    /\ phase # "down"
    /\ phase' = "down"
    /\ fetched' = NoRows
    /\ stListPtr' = << >>
    /\ task' = [id \in Ids |-> NULL]
    /\ heap' = [a \in Args |-> NULL]
    /\ op' = NULL
    /\ lTaskId' = NULL
    /\ logging' = FALSE
    /\ traps' = << >>
    /\ UNCHANGED <<rows, sets, disturbed>>

-----------------------------------------------------------------------------
(* The thread JS_ProcessTrapMsg: JS_ParseTrap.                             *)

\* JS_GetTaskID: the first match is the newest.
Entries(i) == {k \in 1 .. Len(stListPtr) : stListPtr[k].index = i}

First(i) == CHOOSE k \in Entries(i) : \A m \in Entries(i) : k <= m

GetTaskID(i) == stListPtr[First(i)].id

NextTrap(oper) == /\ phase = "run"
                  /\ op = NULL
                  /\ traps # << >>
                  /\ Head(traps).oper = oper
                  /\ traps' = Tail(traps)

ParseAdd ==
    /\ NextTrap("ADD")
    /\ JS_AddJobToSched(Head(traps).index, Head(traps).job)
    /\ UNCHANGED <<rows, sets, phase, fetched, op, lTaskId, logging>>

\* The row is not in the list, or SCH_GetTask does not find its task: then the
\* list keeps the stale entry.
Known(i) == Entries(i) # {} /\ task[GetTaskID(i)] # NULL

ParseUnknown(oper) ==
    /\ NextTrap(oper)
    /\ ~Known(Head(traps).index)
    /\ UNCHANGED <<rows, sets, daemonVars, disturbed>>

ParseKnown(oper) ==
    /\ NextTrap(oper)
    /\ LET trap == Head(traps)
           id   == GetTaskID(trap.index)
       IN  /\ Known(trap.index)
           /\ op' = [oper |-> oper, index |-> trap.index, job |-> trap.job,
                     id |-> id, vpArg |-> task[id].vpArg]
    /\ UNCHANGED <<rows, sets, phase, fetched, stListPtr, task, heap, lTaskId,
                   logging, disturbed>>

\* SCH_DeleteTask, JS_FreeJobMaster, JS_DeleteNodeFromList.  The argument of
\* the log task was never set: NULL is not freed, anything else ends the
\* process (action Exit).
DeleteTask ==
    /\ op # NULL
    /\ op.oper = "DELETE"
    /\ IF task[op.id] # NULL
       THEN /\ task' = [task EXCEPT ![op.id] = NULL]
            /\ heap' = [a \in Args |-> IF a = op.vpArg THEN NULL ELSE heap[a]]
            /\ stListPtr' = RemoveFirst(stListPtr,
                                        [index |-> op.index, id |-> op.id])
       ELSE UNCHANGED <<task, heap, stListPtr>>
    /\ op' = NULL
    /\ UNCHANGED <<rows, sets, traps, phase, fetched, lTaskId, logging,
                   disturbed>>

\* JS_ModifyJobToSched changes the structure of the task, then SCH_ModifyTask
\* deletes the task; if it is gone the list keeps its id.
ModifyDeletes ==
    /\ op # NULL
    /\ op.oper = "MODIFY"
    /\ op.vpArg # LOG
    /\ heap' = [heap EXCEPT ![op.vpArg].job = op.job]
    /\ task' = [task EXCEPT ![op.id] = NULL]
    /\ op' = IF task[op.id] # NULL THEN [op EXCEPT !.oper = "ADD"] ELSE NULL
    /\ UNCHANGED <<rows, sets, traps, phase, fetched, stListPtr, lTaskId,
                   logging, disturbed>>

\* Mistake: the new task id is not noted.
ModifyAdds_NotListed ==
    /\ op # NULL
    /\ op.oper = "ADD"
    /\ \E id \in FreeIds :
           task' = [task EXCEPT ![id] = [vpArg |-> op.vpArg, job |-> op.job]]
    /\ stListPtr' = RemoveFirst(stListPtr, [index |-> op.index, id |-> op.id])
    /\ op' = NULL
    /\ UNCHANGED <<rows, sets, traps, phase, fetched, heap, lTaskId, logging,
                   disturbed>>

\* Mistake: the structure of the task is freed instead of that of the trap.
ModifyAdds_FreesArgument ==
    /\ op # NULL
    /\ op.oper = "ADD"
    /\ \E id \in FreeIds :
        /\ task' = [task EXCEPT ![id] = [vpArg |-> op.vpArg, job |-> op.job]]
        /\ stListPtr' = AddNode(RemoveFirst(stListPtr,
                                    [index |-> op.index, id |-> op.id]),
                                op.index, id)
    /\ heap' = [heap EXCEPT ![op.vpArg] = NULL]
    /\ op' = NULL
    /\ UNCHANGED <<rows, sets, traps, phase, fetched, lTaskId, logging,
                   disturbed>>

ModifyAdds ==
    /\ op # NULL
    /\ op.oper = "ADD"
    /\ \E id \in FreeIds :
        /\ task' = [task EXCEPT ![id] = [vpArg |-> op.vpArg, job |-> op.job]]
        /\ stListPtr' = AddNode(RemoveFirst(stListPtr,
                                    [index |-> op.index, id |-> op.id]),
                                op.index, id)
    /\ op' = NULL
    /\ UNCHANGED <<rows, sets, traps, phase, fetched, heap, lTaskId, logging,
                   disturbed>>

ModifyFails ==
    /\ op # NULL
    /\ op.oper = "ADD"
    /\ Refuses(op.job)
    /\ op' = NULL
    /\ disturbed' = TRUE
    /\ UNCHANGED <<rows, sets, traps, phase, fetched, stListPtr, task, heap,
                   lTaskId, logging>>

ProcessTrapMsg ==
    \/ ParseAdd
    \/ \E oper \in {"MODIFY", "DELETE"} : ParseUnknown(oper) \/ ParseKnown(oper)
    \/ DeleteTask \/ ModifyDeletes \/ ModifyAdds \/ ModifyFails

-----------------------------------------------------------------------------
(* The threads beside it.                                                  *)

\* SCH_AutoCleanTask removes a one-shot task whose day has passed.
AutoClean(id) ==
    /\ task[id] # NULL
    /\ task[id].job \in OneShot
    /\ task' = [task EXCEPT ![id] = NULL]
    /\ disturbed' = TRUE
    /\ UNCHANGED <<rows, sets, traps, phase, fetched, stListPtr, heap, op,
                   lTaskId, logging>>

\* JS_SendLogFile, when the interval has changed: JS_ScheduleLogInfo deletes
\* what its id names, and adds the task again.
LogDeletes ==
    /\ ~logging
    /\ \E id \in Ids : task[id] = LogTask
    /\ task' = [id \in Ids |-> IF id = lTaskId THEN NULL ELSE task[id]]
    /\ logging' = TRUE
    /\ UNCHANGED <<rows, sets, traps, phase, fetched, stListPtr, heap, op,
                   lTaskId, disturbed>>

LogAdds ==
    /\ logging
    /\ ScheduleLog
    /\ logging' = FALSE
    /\ UNCHANGED <<rows, sets, traps, phase, fetched, stListPtr, heap, op,
                   disturbed>>

-----------------------------------------------------------------------------
Next == \/ Manager
        \/ Start \/ FetchRows \/ FetchFails \/ InitCBuffer \/ Exit
        \/ \E i \in Indices : AddFetched(i)
        \/ ProcessTrapMsg
        \/ \E id \in Ids : AutoClean(id)
        \/ LogDeletes \/ LogAdds

Spec == Init /\ [][Next]_vars

-----------------------------------------------------------------------------
(* Properties.                                                             *)

\* The types of the state; the list holds ids of nodes, tasks hold arguments.
TypeOK ==
    /\ rows \in [Indices -> Rows \cup {NULL}]
    /\ fetched \in [Indices -> Rows \cup {NULL}]
    /\ sets \in 0 .. MaxSets
    /\ traps \in Seq(TrapMsgs)
    /\ phase \in {"down", "fetch", "add", "run"}
    /\ stListPtr \in Seq([index : Indices, id : Ids])
    /\ task \in [Ids -> JobNodes \cup {LogTask, NULL}]
    /\ heap \in [Args -> JobMasters \cup {NULL}]
    /\ op \in Operations \cup {NULL}
    /\ lTaskId \in Ids \cup {NULL}
    /\ logging \in BOOLEAN
    /\ disturbed \in BOOLEAN

JobTasks == {id \in Ids : task[id] # NULL /\ task[id] # LogTask}

\* The id of every task of a job is in the list, also after failures and
\* mixed-up ids.
Listed ==
    \A id \in JobTasks : \E k \in 1 .. Len(stListPtr) : stListPtr[k].id = id

\* The id of every task of a job stays in the list, whatever else happens; and
\* as long as nothing was refused, cleaned or left unsaid, JS_GetTaskID finds
\* the task under the row it is for, so that a trap can change or delete it.
\* (After that, an entry whose task is gone may hide the one of a living task.)
EveryTaskListed ==
    /\ Listed
    /\ ~disturbed =>
           \A id \in JobTasks : GetTaskID(heap[task[id].vpArg].index) = id

\* A task that the scheduler may call has a structure that was not freed.
LinkedArgumentsAlive == \A id \in JobTasks : heap[task[id].vpArg] # NULL

TasksOf(i) == {id \in JobTasks : heap[task[id].vpArg].index = i}

Quiet == phase = "run" /\ traps = << >> /\ op = NULL

\* When all traps are handled, each active row has exactly one task, with the
\* job the row asks for, and the other rows have none; and if there is a log
\* task, it is one only, the one JS_ScheduleLogInfo knows.
ScheduleFollowsTable ==
    Quiet /\ ~disturbed =>
        /\ \A i \in Indices :
               IF rows[i] # NULL /\ rows[i].active
               THEN \E id \in Ids : /\ TasksOf(i) = {id}
                                    /\ task[id].job = rows[i].job
               ELSE TasksOf(i) = {}
        /\ ~logging => {id \in Ids : task[id] = LogTask} = {lTaskId} \ {NULL}

\* NASCenter_JS_List.c:104, "Index number associated with task ID": deleting a
\* row deletes a task of this row.
DeletesOwnTask ==
    [][op # NULL /\ op.oper = "DELETE" /\ op' = NULL /\ phase' = "run" =>
           \A id \in JobTasks \ JobTasks' : id \in TasksOf(op.index)]_vars
=============================================================================
