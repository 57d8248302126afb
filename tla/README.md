# TLA+ models of the EVE / NASCenter agent

This directory holds TLA+ specifications of the server monitoring agent in this
repository, the TLC configurations that check them on small instances, and
TLAPS proofs of some of the safety properties. The agent is a set of C daemons and
net-snmp subagents: a manager configures them with SNMP, they run jobs,
back up and distribute files, watch the machine and report with traps.

Line numbers refer to `src/Common/NASCenter_Scheduler.c` unless another file is
named; `PROJECT.json` maps each definition to the lines it stands for.

## 1. Inventory

### 1.1 The parts and how they interact

| Part | State | Operations | Interactions |
|---|---|---|---|
| Task scheduler, `Common/NASCenter_Scheduler.c` | master table of tasks (24 hour buckets and one for repeating tasks), execution list of the current hour, `gbTaskChanged`, `gbStopScheduler`, two mutexes | `SCH_StartScheduler`, `SCH_AddTask`, `SCH_DeleteTask`, `SCH_ModifyTask`, `SCH_GetTask`, `SCH_StopScheduler`; the thread `Scheduler` | linked into JS, BM and FD; calls their functions from its thread |
| File transfer, `Group2/Unix/common/src/NASCenter_FileTrans*.c` | per transfer: window and attempt number, status of each packet, retries; at the destination a thread per handshake and the file | `FileTrans_SendFile`, `FileTrans_RecvFile` | used by JS (log upload), BM (backups), FD (distribution), ICP (command log); UDP between two machines |
| Job scheduler daemon JS, `Group2/Unix/JobSched` | list of jobs with their task ids, circular queue of traps, log file | `JS_ListenTrap` enqueues, `JS_ProcessTrapMsg` dequeues, `JS_ParseTrap` adds, modifies or deletes a job, `JS_SpawnJobSched` runs one, `JS_SendLogFile` uploads the log | client of the scheduler, of file transfer, and of SNMP |
| Backup daemon BM, `Group2/Unix/BM` | list of backups, trap queue, log file | as JS, with backups instead of jobs; receives files too | as JS |
| File distribution daemon FD, `Group2/Unix/FD` | list of distributions (XML), log | adds tasks, sends files, receives files | scheduler, file transfer |
| Application metering AM, `Group2/Unix/AM` | table of metered applications, trap queue | samples processes, sends status | SNMP |
| Control panel ICP, `Group2/Unix/ICP` | command table, log | runs commands, browses files, manages users | file transfer, operating system |
| Firewall / user control UC, `Group2/Unix/UC` | lists of allowed hosts per service | rebuilds packet filter rules | operating system |
| Master agent MA, `Group1/MasterAgent` | list of pending requests, table of subagents | `MA_Receiver` enqueues, `sendPDU` forwards and answers, reload of the table after a SET | SNMP manager and subagents |
| Real time monitor RTCM, `Group1/RTCM` | `collectDataTable`, the list of samples that are due, alarm numbers, log file | `RTC_callback` forms the list, `RTC_Collect_Store_Variables` samples and sets the next alarm, SETs change rows | net-snmp alarms, file transfer |
| Process monitor ProcMon, `Group1/ProcMon` | `psMonitorTable`, its data file, a thread per active row, the list of processes and the one before, two mutexes | SETs start threads and change or free rows under them; a thread counts the processes of its row, sends traps and restarts the process; another thread reads the list | net-snmp, operating system, AgentInfo (port for traps) |
| Monitors LogMon, LogCol, FileMon, PortMon, NetAppMon, RBM, TransMon (`Group1`) | SNMP tables, a thread or an alarm per row | row life cycle, sampling, thresholds, traps | net-snmp, operating system |
| AgentInfo, Common, G2Configure, sysStats (`Group1`) | MIB values, configuration file | get and set handlers, traps to the Group2 daemons | net-snmp |
| `script`, MIBs, `Group2/Unix/backup`, `Nuri/Project`, net-snmp, winpcap, libxml2 | - | start scripts, old copies, third-party code | - |

The traps are the link between the two groups: the manager sets a row of a
G2Configure table, the subagent sends a trap, and the daemon adds, changes or
deletes the corresponding task of its scheduler.

### 1.2 What is hard, and what makes each part correct

*Scheduler.* One thread builds the list of the hour from a table that clients
change under another mutex; it polls a flag; it sleeps for computed times and
must neither pass the second of an entry nor the start of an hour; it does
clock arithmetic in 16 and 32 bits. Correct means: functions are called when a
submitted task asks for it and at no other time, every hour is built, changes
are noticed, memory and locks are used properly, stopping works.

*File transfer.* Datagrams are lost, repeated and reordered; both ends have
timeouts of their own (5 and 7 seconds) and limits of retries. Correct means:
success is reported only for a complete file, nothing is stored outside the
arrays, both ends stop.

*Daemons.* A trap queue between two threads with a full and an empty test, a
list that must agree with the scheduler's task ids, arguments freed while a
call is pending. Correct means: traps are parsed once and in order, the tasks
follow the manager's table, and the daemon finds the task of a row it is told
about.

*Master agent.* A list with a condition variable between two threads, and a
routing table that is reloaded while requests wait. Correct means: no request
is lost or overtaken, and each goes to the agent the table names.

*Real time monitor.* A list of samples for the next hour is formed from windows
and frequencies, walked with relative alarms, and formed again when the table
changes, a file fails or the list is used up. Correct means: the waits add up,
no list is left without an alarm, each row is sampled in time, the list fits.

*Process monitor.* SETs and threads share a row without a lock, a flag in the row
says whether it has a thread, rows are freed while threads sleep, and all threads
share one lock for traps and one for the list. Correct means: an active row has
one thread, traps say what changed and nothing twice, and in the end the manager
knows whether the process runs.

The list `hazards` of `PROJECT.json` names them line by line, with the
properties that cover each.

## 2. Modules

| Module | Stands for |
|---|---|
| `SchTask` | the data of the scheduler: `stTask`, the calendar, `ValidateTask`, what `BuildExecutionList` derives from one node |
| `Scheduler` | the shared state, the client functions and the thread |
| `SchedulerProofs` | the theorems about `Scheduler` |
| `SchDay` | the hourly builds of a day, for one task that is due every so many seconds |
| `SchDayProofs` | the theorems about `SchDay` |
| `MCScheduler` | the tasks the runs of `Scheduler` submit |
| `FileTrans` | one `FileTrans_SendFile`, the threads at the destination and the network |
| `FileCopy` | the abstract specification `FileTrans` implements |
| `FileTransProofs` | the theorems about `FileTrans`, that one included |
| `TrapQueue` | the circular queue of traps and the two threads of a Group2 daemon |
| `TrapFifo` | the abstract specification `TrapQueue` implements |
| `TrapQueueProofs` | the theorems about `TrapQueue`, that one included |
| `JobSched`, `MCJobSched` | the manager's table of jobs, the traps, the daemon's list and the scheduler's tasks; the symmetry of the run |
| `JobSchedProofs` | the theorems about `JobSched`: its memory and lists; its schedule against the table |
| `MasterAgent` | the request list, its two threads and the routing table |
| `MasterAgentProofs` | the theorems about `MasterAgent` |
| `Collect`, `MCCollect` | the collection schedule of RTCM; the rows of its run |
| `CollectProofs` | the theorems about `Collect` |
| `ProcMon`, `MCProcMon` | a row of the process monitor, its threads and its SETs; the rows of its run |
| `ProcMonProofs` | the theorems about `ProcMon` |

Definitions named `X_Something` that follow the word "Mistake" are deliberate
errors; no specification uses them. They stand beside `X` so that one can see
which change of the code a property notices.

### 2.1 Scheduler

Time is the variable `now`, in seconds; `Tick` advances it. The thread's program
counter `pc` names the places between two accesses to shared state. `pCurrTime`
is the time the outer loop read last and keeps over its sleep (the code does
too), `buildTime` the one `BuildExecutionList` reads. `lag` is the time the
thread was ready and did not run since it last went to sleep, at most `MaxLag`.
With `MaxLag = 0` time passes in SLEEP and in the two loops in which the thread
spins: the midnight clean (`Spinning`), and the execution loop a second before
an entry in the last polling period of the hour, where it calls `SLEEP(0)` again
and again (1468-1473, `BusyWaiting`); the second may begin at any place of it.

The clients' critical sections are single steps: they hold
`gMasterTable_mutex`, and the only reader without it (the builder) sees each of
them as one store. The builder takes a step per node, so that clients can run
in between; a freed node keeps its contents until it is allocated again
(`freedNext`, `task`), and `malloc` may return any node that is not linked.

| Code | Definition |
|---|---|
| `SCH_StartScheduler` 235-255, with the initialisation up to 331 | `Init` |
| `SCH_AddTask` 343-430 | `SCH_AddTask`, `Link` |
| `SCH_DeleteTask` 1065-1146 | `SCH_DeleteTask`, `Free` |
| `SCH_ModifyTask` 971-990 | `SCH_ModifyTask` (delete), then `ModifyAdds` or `ModifyFails` |
| `SCH_StopScheduler` 269-290 | `SCH_StopScheduler`, `WaitForScheduler` |
| outer loop 1288-1356 | `Top`, `ClearMasterTable`, `HourlyCheck`, `Recheck` |
| `SCH_AutoCleanTask` | `AutoCleanStarts`, `AutoCleanRemoves`, `AutoCleanAdvances`, `Spinning` |
| `BuildExecutionList`, `AddToExecutionList` | `BuildStarts`, `VisitEveryHour`, `VisitThisHour`, `ResetFlags` |
| `SortExecutionList` | `SortStarts`, `SortSwaps`, `SortEnds` |
| execution loop 1380-1517 | `LoopEnds`, `LoopStops`, `SkipTask`, `RunTask`, `RunTaskAtEndOfHour`, `NothingDue`, `SleepTillNextTask`, `Woken`, `UnlockForSafety`, `BusyWaiting` |

Left out: `SCH_GetTask` (reads only), a failing `malloc` (the caller gets -1 and
nothing changes), the static buffer `localtime` shares between threads, end date
and end time (the scheduler never reads them), leap seconds and clock changes.
A job is submitted at most once at a time, as the daemons do with their lists.

### 2.2 File transfer

The network is a set of datagrams. One that nobody receives is lost; with
`Duplicates` it stays after it was received. A wait with a timeout may end at any
time: this includes every real order of the two timeouts and of late datagrams.
`thread[t]` is the state of the thread `FileTrans_HandleRequest` starts for a
handshake; its `file` is the list of windows it is through with writing, each the
set of packets that are in the file. The thread sends `DATA_ACK` first
(`Recv_Util.c:750`), so the sender may go on or return while the window is still
to be written, and it ignores what `write` returns (764): with `WriteFails` any
packets of a window may be missing. `piPktStatus` is the set of packets marked
`'1'`. `iMmapCntr` is `iMmapNo - 1` and is not kept twice.

| Code | Definition |
|---|---|
| sizes in `FileTrans_SendFile` 273-323 | `iTotNoOfPkts`, `iNoOfMappingNeeded`, `iNoPktsPerMMap`, `iExtraPktsPerMap` |
| `FileTransfer_InitHandshake` | `SendHandshake`, `HandshakeTimesOut`, `HandshakeDone`, `GiveUp` |
| `FileTransfer_SendData`, `FileTrans_SendActualData` | `SendWindow`, `WindowAcknowledged`, `WindowRefused`, `DataAckTimesOut`, `NothingToSend`, `GiveUp`, `SenderFails` |
| `FileTrans_RecvAck` | `AckMatches`, `StaleAnswer`, `Overwrite` |
| `FileTrans_ProcessRecvMsg`, `FileTrans_HandleRequest` | `HandleRequest` |
| `FileTrans_HandleDataPkt`, `FileTrans_RecvDataPkt`, `FileTrans_SendDataAck` | `RecvDataPkt`, `RecvTimesOut`, `WindowDone`, `WriteWindow`, `NextWindow`, `ThreadFails` |

Details that matter and are in the model: a timeout of the handshake is counted
twice (at most 3 handshakes with 5 retries); an error during the handshake
repeats it; `FileTrans_RecvPkt` never fills in the header it is given
(`Recv_Util.c:359`), so whatever arrives at the well-known port is taken for a
handshake - the protocol sends only handshakes there. Left out: the contents and
lengths of packets, a message size that does not divide the page (the daemons
use 512 bytes; with another size the counts of packets no longer agree), the
datagrams of another thread that are queued between the handshake's answer and
`connect`, Windows code, and what an older file of the same name contains
(`O_TRUNC` is missing at `Recv_Util.c:652`).

### 2.3 Trap queue

JobSched, BM, AM and the three UM daemons have a copy of the queue each. The
variable `daemon` chooses between the two variants: "JS" (also BM and UM), which
goes on after it found the queue full, and "AM", which returns, unlocks and
locks again after a wait, and empties the slots at the start. The listener takes
a step per access, so that the main thread's `XX_InitCBuffer` can come at any
point of it. Unlocking a mutex clears it, whoever holds it. `spoiled` is a
history variable: the queue was initialised under a running `XX_ListenTrap`, or
a trap was stored without the mutex after the queue was full.

| Code (`JobSched/src/NASCenter_JS.c`; `AM/src/NASCenter_AM_TrapProcess.c`) | Definition |
|---|---|
| `JS_InitCBuffer` and the start of the thread | `InitCBuffer` |
| `JS_IsQueueEmpty`, `JS_IsQueue_Full` | `IsQueueEmpty`, `IsQueue_Full` |
| `JS_ListenTrap` | `ReceiveTrap`, `ListenerLocks`, `QueueFull`, `QueueNotFull`, `AdvanceRear`, `StoreTrap`, `SignalNotEmpty`, `ListenerUnlocks` |
| `JS_ProcessTrapMsg` | `ProcessorLocks`, `WaitNotEmpty`, `QueueNotEmpty`, `WaitReturns`, `LocksAgain`, `TakeTrap`, `ParseTrap` |

A slot is what its pointer refers to, or `NULL`: the queue never holds a freed
trap, because a slot is emptied when its trap is freed. Spurious wakeups of
`pthread_cond_wait` are not modelled; the code has no loop around it, so one
would parse an empty slot.

### 2.4 Job scheduler daemon

`JobSched` composes three parts: the subagent's table `rows` with the trap each
SET sends, the daemon with its list `stListPtr`, and of the scheduler the linked
nodes `task`. The queue between the first two is a sequence that keeps the order
(what `TrapFifo` promises); the scheduler's calls are atomic (what `Scheduler`
models in detail). Task ids are addresses: `Ids` can be used again after
`SCH_DeleteTask` or `SCH_AutoCleanTask`.

| Code | Definition |
|---|---|
| `jobProcessMasterTable_set_commit` (G2Configure) | `CreateAndGo`, `CreateAndWait`, `SetActive`, `SetNotInService`, `SetColumns`, `Destroy`, with `SendTrap`; `SetSilently` where it returns without a trap |
| `JS_StartJobSchedProcess`, `JS_GetJobProcessMasterTableDetails` | `Start`, `FetchRows`, `FetchFails`, `AddFetched`, `InitCBuffer`, `Exit` |
| `JS_AddJobToSched`, `JS_AddNodeInJobList` | `AddAccepted`, `AddRefused`, `AddNode` |
| `JS_ParseTrap` | `ParseAdd`, `ParseUnknown`, `ParseKnown` |
| `JS_DeleteFromSched` | `DeleteTask` |
| `JS_ModifyJobToSched`, `SCH_ModifyTask` | `ModifyDeletes`, `ModifyAdds`, `ModifyFails` |
| `JS_GetTaskID` | `Entries`, `First`, `GetTaskID`, `Known` |
| `SCH_AutoCleanTask` | `AutoClean` |
| `JS_SendLogFile`, `JS_ScheduleLogInfo` | `LogDeletes`, `LogAdds`, `ScheduleLog` |

A SET sends no trap when it has a CPU or memory column, whatever else it changes
(1216-1221), when the file cannot be written or read (1053-1087), or when it
creates a row without the four mandatory columns (1223-1230); `SetSilently` is
any of these, and may make of the row whatever a SET can. The log task may be
missing: the agent gave no interval, or `SCH_AddTask` refused it, at the start or
after the old one was deleted (`ScheduleLog`).

`disturbed` records what no daemon could repair: a trap that came between the
reading of the table and `JS_InitCBuffer`, a SET without a trap that changed what
the table asks for, a table that could not be read, a task the scheduler refused
or cleaned away, a row set active twice. `ScheduleFollowsTable` and the second
half of `EveryTaskListed` speak of the other histories; the first half of
`EveryTaskListed` and `LinkedArgumentsAlive` speak of all. Left out:
`JS_SpawnJobSched` and `JS_DoJobSched`, which run a job, and the contents of the
log.

### 2.5 Master agent

A request is its number of arrival; `kind` is what the tests of `sendPDU` tell
apart. `subAgentTable` is the table of the local NAS agent, which changes while
that agent handles a SET; `giSA` is the copy. `dest` is where a request goes.
`sendPDU` looks at the first variable of a request only, and so does `kind`: any
request for the local agent may be a SET that changes the table with a later
variable. The history variables `missed` (such a SET changed the table) and
`unread` (the last reading failed) say when the copy is out of date.

| Code (`Group1/MasterAgent/src`) | Definition |
|---|---|
| `MA_Receiver`, `addToList` (`NASCenter_MA.c`, `NASCenter_Util_List.c`) | `AddToList`, `Signal` |
| `sendPDU`, the loop around the wait (`NASCenter_MA_Fw.c`) | `ListEmpty`, `CondWait`, `TakeRequest` |
| `MA_NASSAReadConfig` | `Init`, `Reload` |
| `sendPDU`, the choice of the session | `Routable`, `ToLocalAgent`, `ToSubAgent`, `NoSubAgent` |
| `snmp_synch_response` and the answer | `AgentSets`, `Answered` |

Left out: the option `XMLSET`, which no build sets, a failing `malloc`, and the
contents of the answers. A timeout and an answer have the same effect on the
state, except that a SET may have been carried out or not: both are in the model.

### 2.6 Collection schedule

`gpstHeadList` is the set of samples left, in seconds counted from when the list
was formed (`formed`); the code keeps the same numbers in a sorted list and
waits for the difference of two neighbours. The agent handles alarms and SETs in
one thread, so each is one action; `Tick` passes a second when nothing is due.

| Code (`Group1/RTCM/src/collectDataTable.c`) | Definition |
|---|---|
| `RTC_callback`, `Form_Linked_List` | `RTC_callback`, `Form_Linked_List`, `Eligible`, `First` |
| `RTC_Get_Time_Frequency`, `RTC_Within_Period` | `Plan`, `RTC_Within_Period` |
| `RTC_Calc_Num_Nodes_Interval` | `Estimate`, `EstimateAll`, `RTC_Calc_Num_Nodes_Interval` |
| `RTC_Add_Intervals_To_List` | `NodesOf`, `InitDelay` |
| `RTC_Collect_Store_Variables` | `CollectAndWait`, `CollectAfterChange`, `CollectLast` |
| `collectDataTable_set_commit` | `SetWhileIdle`, `SetWhileCollecting`, `SetUnsaved` |
| `RTC_Check_LogFile_Name` that fails | `LogFileFails` |

Assumed: an alarm comes in its second and a callback takes less than one. Left
out: fetching a value, the log file and its transfer, the columns that are not
times. The history `since` stops while a row is not in its window, when the row
itself is changed, or while the list has a sample beyond the interval it is
formed for (`WithinInterval`): all rows pause until that sample has been taken.
It goes on through every other change of lists. `cut` counts the lists that were
replaced before they were used up, by an alarm for `RTC_callback`, orphaned or
not, or by a SET while such an alarm is pending; a sample of the row sets it to 0.

### 2.7 Process monitor

One row is modelled; rows share only the list and the trap lock. `ctx` is the heap
of contexts: `container` is the one in the table, a thread keeps its own (`my`)
over its sleep, and a freed context keeps its contents until it is allocated
again. A thread takes a step per access to the row: it looks the row up, reads its
status, ends, comes to the next process of the list, reacts. A SET of an existing
row is two: `psMonitorTable_set_action` writes into the row itself, where the
threads see it (`mpc = "set"`), and then the SET is committed (`ChangeCommitted`)
or, because another column or row of the request is refused, undone from
`undo_info` (`ChangeUndone`); `row_copy` frees the index meanwhile, so that a
thread may not find its row (`ChangeUndoneHidden`). Creating and destroying a row
is one step each. `procMonProcessCheckLock` is held by a thread that goes through
the list (`count`), also while it waits there for `sendTrapLock` (`hung`).

| Code (`Group1/ProcMon/src/psMonitorTable.c`) | Definition |
|---|---|
| `ProcMon_LoadContainerFromFile`, `ProcMon_UpdateDataFile` | `Load`, `UpdateDataFile` |
| `ProcMon_MasterThread` | `MasterStarts`, `MasterFlags`, `StartThread` |
| `psMonitorTable_set_action`, `_create_row`, `_delete_row` | `Change`, `Create`, `Destroy` |
| `psMonitorTable_set_commit` | `Commit`, `ChangeCommitted` |
| `psMonitorTable_set_undo`, `psMonitorTable_row_copy` | `Undone`, `ChangeUndone`, `ChangeUndoneHidden` |
| `ProcMon_ProcMonThreadMain`, up to the check | `Begin`, `FindRow`, `RowGone`, `ReadStatus`, `EndThread` |
| `ProcMon_CheckProc`, `checkThreshold` | `NoList`, `CheckProc`, `CheckProcess`, `checkThreshold` |
| the reactions 1, 2 and 3 | `TooMany`, `FewerAgain`, `GoesDown`, `ComesUp`, `Restarts`, `RestartsAgain`, `UpUntold`, `NothingNew` |
| `Common_SendAlert_And_Vars`, `sendThresholdTrap` | `Send`, `SendIf`, `Sent`, `Tell`, `DownTraps` |
| `ProcMon_RestartProcess` | `RestartProcess` |
| `ProcMon_ProcCheckThreadMain` | `ReadList`, `ReadFails` |
| `getMonitoringTime`, the tests of the reaction path | `ready` |
| `glAgentInfoAlertMgrPort` (AgentInfo) | `port` |

`seen` is what the traps told the manager, who keeps it: nothing tells him that a
thread begins. `oldStatus` and `oldCpu` in it are history, and say that this was
told by an earlier thread, or (the alert) about a row that was destroyed.
Three history variables keep apart what the code cannot prevent: `mixed` (two
threads at once, or reaction 2, which tells that the process is up in every
cycle), `raced` (a race on `iThreadActiveFlag` was lost, a thread ended because of
a SET that was undone, or `pthread_create` failed), `repeated` (a trap told
nothing new, and the same thread had told it). `sendTrapLock` is true when the
lock is left locked (5578).

Assumed: a trap that is sent arrives; the data file can be written; a process
found over the memory threshold is treated as one over the CPU threshold (the
code is the same). Left out: how the list is read on each operating system,
patterns of arguments, CPU averages, the transfer of the log file, reactions
other than 1 to 3 (nothing happens), and the Windows build.

## 3. Runs

| Run | Checks | Instance |
|---|---|---|
| `sch_day` | `EveryRepetitionHasItsHour`, `RepetitionsFillTheHour` | real calendar, 18 intervals from 1 s to a day, hours 0-17 |
| `core` | `TypeOK`, `ExecLockFree`, `CallsComeFromThisHour`, `NoOversleep` | hour of 7 s, polls of 3 s, two nodes, an interval task and a one-shot job that may become a daily one, all client functions, one day and a half |
| `periodic` | `RunWhenDue`, `HourRebuilt`, `StopTerminates` | hour of 8 s, polls of 3 s, tasks of every periodicity, two days, fairness |
| `lossy` | `TypeOK`, `PlacesInArrays`, `InStep`, `WindowsCopied`, `TransferEnds` | files of 0, 1, 2 windows (the last one full or not), 2 packets a window, 2 retries, 2 threads, duplicates, fairness |
| `traps` | `TypeOK`, `NeverTakesEmptySlot`, `TrapsInOrder`, `TrapsParsed` | both variants, 3 slots (room for two traps), any number of traps of two kinds, fairness |
| `jobs` | `TypeOK`, `EveryTaskListed`, `LinkedArgumentsAlive`, `ScheduleFollowsTable` | 2 rows, a periodic and a one-shot job, 4 nodes, 3 arguments, 4 SETs, restarts |
| `requests` | `TypeOK`, `NoneLost`, `RightAgent`, `RequestsServed` | 4 requests of any kind, one enterprise, 2 possible agents, fairness |
| `collect` | `TypeOK`, `AlarmForNextNode`, `SampledInTime`, `ListBounded`, `ChangesAnnounced` | 2 rows, 4 contents, days of 12 s, lists for 5 s and 8 nodes, 3 SETs or failures |
| `watch` | `TypeOK`, `NoRepeatedTrap`, `ActiveRowWatched`, `DownEndsAlert` | 1 row of 3 contents, 2 contexts, 2 threads, 2 processes, 2 events (SETs, restarts, failures, changes outside), with and without a port |
| `told` | `TruthTold` | the same with the 2 contents that report both ways (reactions 1 and 3), fairness |

What they show:

* `EveryRepetitionHasItsHour`: up to hour 17 the remainder test of lines
  671-691 lists each repetition of a long interval in exactly one hour.
  `RepetitionsFillTheHour`: a short interval fills the hour and stays in it.
* `ExecLockFree`: all four ways out of the execution loop end with
  `ExecList_mutex` free before it is locked again.
* `NoOversleep`: a sleep of the loop is at most a polling period and passes no
  entry that is still to come; the special cases near the end of the hour
  (1459-1495) are what makes it true. It excepts the sleep that wraps
  (`SleepsAtMostPollTime` below). TLC finds no violation either when the thread is
  delayed by up to two seconds at every step (`MaxLag = 2`, tasks `LateTasks`,
  calls `add` and `stop`; 550273 states), and the proof is for any delay.
* `CallsComeFromThisHour`: no call is ever made from the list of an earlier hour.
* `RunWhenDue`: in a daemon that only adds tasks, each call is at a second, in an
  hour and on a day for which its task was submitted. `HourRebuilt`: with tasks
  added at the start of an hour every hour is built by its second second.
  `StopTerminates`: `SCH_StopScheduler` returns.
* `PlacesInArrays`: a late packet of another window cannot reach an array.
  `InStep`: the destination has acknowledged what the sender has left behind, and
  at most one window more; the sender is never an attempt ahead. `WindowsCopied`:
  `FileTrans` implements `FileCopy`: windows are acknowledged and written one
  after the other, and when success is reported all are acknowledged and all but
  the last written; whether their contents are complete is the subject of `holes`.
  `TransferEnds`: both ends stop.
* `NeverTakesEmptySlot`: although the processor tests the queue once, before the
  wait, a signal always comes with a trap in the queue; only `spoiled` queues
  are read while empty. `TrapsInOrder`: `TrapQueue` implements `TrapFifo`.
  `TrapsParsed`: no trap waits while the processor sleeps.
* `EveryTaskListed`: after every failure of `SCH_ModifyTask`, every stale id and
  every restart, the id of a task of a job is still in the list; and as long as
  nothing disturbed the daemon, `JS_GetTaskID` finds it under its row, also while
  a change is between its two halves. `LinkedArgumentsAlive`: a
  task that can be called has a structure that was not freed.
  `ScheduleFollowsTable`: once the traps are handled, each active row has one
  task with its job, and no other row has one; there is no log task but the one
  `JS_ScheduleLogInfo` knows.
* `NoneLost`: the list keeps the order of arrival and everything in it.
  `RightAgent`: the reload after a SET that begins with the table comes before
  the next request of another enterprise is routed. `RequestsServed`: a request is
  taken from the list unless it comes between the unlocked test and the wait; the
  next signal takes that one.
* `AlarmForNextNode`: the relative waits add up to the times the list was formed
  for, and some alarm is always pending. `SampledInTime`: a row is sampled at
  least every second time its frequency names, and every list that is cut short
  after a failure to open a log file costs it at most one time more, even if the
  alarms for `RTC_callback` come one after the other. Without that allowance TLC
  finds a row that is passed over. `ListBounded`: the estimate that
  halves the interval is right up to a node per row. `ChangesAnnounced`: a row
  that was deleted or taken out of service is noticed at the next alarm.
* `NoRepeatedTrap`: with one thread, and reactions 1 and 3, its traps alternate,
  also when the number jumps from too many to none and when the row changes
  meanwhile. The first trap of a new thread may repeat the last of the one before.
  `ActiveRowWatched`: but for the three races of the flag, which are described
  below, no order of SETs, undone SETs and restarts leaves an active row
  without a thread. `DownEndsAlert`: a thread that reports the process down has
  ended the CPU alert that it sent for this row. `TruthTold`: once the row, its
  thread and the port stay as they are, the manager ends up knowing whether the
  process runs, although lists may still fail and hours end.

Runs that end in a violation; each is a finding of `PROJECT.json`:

| Run | Property | What happens |
|---|---|---|
| `clean_spins` | `CleanInHourZero` | the midnight clean (1183) does not advance past a one-shot task that has not expired, and holds the master table's mutex |
| `holes` | `SuccessMeansWholeFile` | one lost packet; the sender repeats the window under the same `iCorrelater`, the receiver counts the first packet again (`Recv_Util.c:1079`) and acknowledges the window |

TLC refutes eight more statements of the code's comments, and the second of these
two for another reason. They are in the modules, at their ends, and have no run;
the instances below show them.

* `SleepsAtMostPollTime` ("If Sleep time is greates than CHECK_STATUS_TIME, sleep
  for CHECK_STATUS_TIME", `NASCenter_Scheduler.c:1445`; `core` with `LateTasks`
  and `add` only): a task is due in the last polling period of the hour; a second
  before it the loop calls `SLEEP(0)` again and again (1472), and when its second
  begins between the two readings of the clock (1382, 1448) the unsigned sleep
  time is 0 - 1: the thread sleeps for 2^32 - 1 seconds, with no delay of its own;
* `SuccessMeansWholeFile` with `WriteFails = TRUE` and no duplicates (one packet a
  window, so that a repeated packet cannot be counted for a missing one): nothing
  is lost; the destination acknowledges the window, then `write` fails and nobody
  looks at its result (`Recv_Util.c:764`);
* `FullQueueKeepsTraps` ("Dropping the Trap Msg", `NASCenter_JS.c:1964`; `traps`
  with `JS` only): at a full queue `JS_ListenTrap` logs that it drops the trap but
  stores it; the queue then looks empty, and the traps that waited are forgotten;
* `ReloadedWhenModified` (`NASCenter_MA_Fw.c:101`; `requests` with two requests):
  a SET changes the subagent table with its second variable; `sendPDU` notes a
  reload only for the first, and the next request goes to the agent of before;
* `DroppedIfUnconfigured` (`NASCenter_MA_Fw.c:85`; the same): a request of an
  enterprise that is not configured follows one for the local agent; `nassaflag`
  keeps its value and sends it there too, instead of the drop at 91;
* `FlagStandsForThread` (`psMonitorTable.c:4281`; this and the next three with one
  process and the content `OneColumn`, here without events): at the start
  `ProcMon_MasterThread` sets the flag of an inactive row after its thread has
  ended; a SET that activates the row starts no thread;
* `ExitsOnlyIfInactive` (4366-4372; two events): a SET activates the row while its
  thread is between the test of the status and the reset of the flag: the thread
  ends, the row stays active;
* `UndoRestores` (1208; one event): a SET writes notInService into the row, the
  thread ends, the SET is undone: the row is active without flag and thread;
* `RecoveryBeforeDown` (4345; four events): a CPU alert is sent, the row goes out
  of service and back, the new thread starts without the flag and reports the
  process down: the alert stays open.

`HourRebuilt`, `RunWhenDue` and three properties at the end of `Scheduler` are
violated too, on the instance of `periodic` with `ClientSeconds = 0 .. 7` and
`MaxNow = 18`, and describe what a user of the scheduler should know:

* `HourRebuilt`: a task is added in the last polling period of an hour; the sleep
  after an empty build (1374) crosses the hour and the next hour is not built;
* `RunWhenDue` (`ClientCalls = {"add", "delete"}`, the tasks of `PeriodicTasks`):
  the builder holds a node that is freed and used again for a task of another
  hour, goes on in the list of that hour, and the task is called an hour off;
* `NewTaskNoticed`: a task is added behind the builder, and `gbTaskChanged` is
  reset after the build (1351);
* `DeletedTaskNotRun` (`ClientCalls = {"add", "delete"}`): a deleted task is still
  called in the same hour, with an argument its client may have freed;
* `BuilderReadsLinkedNodes` (the same calls): the builder, which does not hold
  the table's mutex, reads a node that was freed.

Seen while modelling, without a run of their own. Scheduler and file transfer:

* from hour 18 on `ui16EndHrInSec` (636) wraps, and long intervals are listed in
  wrong hours (`sch_day` with `LastHour = 23`, which `SchDayAssumption` excludes);
* a repetition of a long interval that falls in this hour is listed at the
  remainder itself (687), which is its distance from the end of the hour and not
  the second "with '0' as start of the hour" of the comment at 679;
* `ui32NoOfExec` (702) keeps the value of the previous node, so a long interval
  that is not due can enter the list at a second beyond the hour; the loop
  then waits for it, and until a task is added no hour is built any more. For the
  same reason an interval task of one week day is listed on other days as well;
* the midnight clean is skipped when the thread slept until midnight, because it
  tests the time of before (1344);
* a one-shot task runs on each day until it is cleaned (723; the date is not
  compared);
* a list that is rebuilt within a second after a call calls the task again
  (1409-1411);
* `ExecList_mutex` is unlocked twice on some ways out of the loop (1515-1516);
* the bucket of a periodic task is its hour, which is not validated (469);
* a lost `DATA_NEG_ACK` makes the attempts of both ends differ for good, and the
  transfer fails; a counted duplicate can end the thread before the last window.

Job scheduler daemon (`NASCenter_JS.c`, and `jobProcessMasterTable.c`):

* createAndGo without the interval leaves an active row of which the daemon
  learns nothing (`jobProcessMasterTable.c:1226`), and so does every SET that has
  a CPU or memory column (1217) or whose file cannot be written (1056);
* an entry whose task was cleaned away, or refused in a change, may stand before
  the entry of a living task of the same row: `JS_GetTaskID` takes the first, and
  the daemon can no longer change or delete the other;
* after a refused interval there is no log task, and nothing that would add one
  again (1083-1097);
* a second SET of a row to active adds a second task, and deleting the row
  removes only the newer one;
* traps between the reading of the table and `JS_InitCBuffer` are lost (341-350);
* `uiEndTimeinNum` is read (2335) but not set for interval 0 (1300-1320), and the
  argument of the log task is never set (1031-1074);
* the log is truncated although its transfer failed (1210), and its buffer is
  cleared without the mutex (1166);
* the midnight clean frees a one-shot task that stays in the list; its address may
  be given to a task of another row, and deleting the first row deletes that task
  (1725; TLC refutes `DeletesOwnTask` of `JobSched` on the instance of `jobs`
  with three nodes and two traps);
* the thread of a job uses an argument that `JS_DeleteFromSched` may free (1740).

Master agent:

* a failed reading clears `reloadConfig` all the same: the old copy is used until
  the next SET of the table;
* a request that comes between the test of the list and the wait is answered
  with the next one only.

Real time monitor (`collectDataTable.c`), and NetAppMon, which has a copy:

* a frequency that does not divide the interval of a list leaves a gap of nearly
  two periods at the change of lists;
* samples beyond the interval of a list prolong it, and the other rows, also
  those whose window opens meanwhile, pause until its end: the first sample of
  a row that is rarer than the interval, or the last ones of a row whose window
  ends soon. With an interval of 3600 s and a row of 1000 s the others may pause
  for more than six minutes, whatever their frequency. The proof of
  `SampledInTime` led to the second case;
* a list that is formed in the second of a sample takes it a second later;
* a row whose file cannot be written has changed without notice (1482-1487);
* the first sample of a row is listed even beyond the end of its window (2782);
* an alarm number that is overwritten (3558, 3592) leaves an alarm nobody can
  cancel. When the log file cannot be opened at each sample of a row of 1 s, such
  alarms come in successive seconds; each throws the list away, and if it comes
  before the alarm for the samples of its second, these are not taken and listed a
  second later, where the next one throws them away again. Other rows may so be
  passed over for a minute at a time (the counterexample to `SampledInTime`
  without `cut`). A size-limit transfer leaves a second transfer alarm;
* `giFTProgress` stays set if the thread of a transfer cannot be started
  (3325-3331); that thread closes the log file without a lock (3272);
* the copy in NetAppMon waits for the mark at the end of its list (3643), which
  is the mistake `CollectLast_AwaitsMark`, and frees its list without resetting
  the head (2696-2731).

Process monitor (`psMonitorTable.c`):

* without a port of the alert manager (its default) the first trap leaves
  `sendTrapLock` locked (5578): the next trap of any row waits for ever, also
  after the port was set; a threshold trap waits with `procMonProcessCheckLock`
  (4558), which stops the list and all other threads;
* a row destroyed and created again within a sleep has two threads, which both
  send every trap; the old one finds it with an index in freed memory (4353);
* reaction 2 sends an up trap in every cycle in which the process is missing,
  whether the restart worked or not (4783-4818);
* a row that is destroyed and created again at the same address while its old
  thread is in a cycle (4549-4963) loses the flag of its alert (`thrcpu`) as a new
  thread does (`RecoveryBeforeDown`);
* after a re-activation or a restart the first trap repeats what the manager knows
  already, because `iStatus` starts at -1 (4333);
* the flag of the CPU alert is that of the row: with two processes it flaps, and
  a process that was not in the list before is reported in any case (7534);
* an end hour that is smaller than the start hour is moved by 23 instead of 24
  hours (7661, 7666): some minutes are counted twice or never;
* the data file is deleted although the new one could not be opened (6290).

### 3.1 Bounds

`NO_SECS_IN_HOUR` of 7 or 8 and `CHECK_STATUS_TIME = 3` keep what the code
distinguishes: seconds in the last polling period, with one for which the loop
waits busily (6 of 7; a poll of 2 s would have none), the second exactly at its
border, the last second, second 0, and seconds far from all of them. Two hours a
day and two days a week give a change of hour, of day and of week within `MaxNow`.
Two nodes let one be freed and reused while another is linked. `ClientSeconds`
restricts when clients change tasks: `periodic` lets them do so in seconds 0 and 1
because a later change leads to the counterexample to `HourRebuilt`. `core` has a
task for which the loop waits busily, and a second may then begin between the two
readings of the clock; the tasks of `periodic` avoid it, because a thread lost in
a wrapped sleep neither rebuilds nor stops. `UI32_SPAN` only has to exceed any
list's sum, `MaxNow` caps the clock. For `lossy`: two packets a window are the
fewest that can be told apart, two windows the fewest with an order, two retries
allow a positive answer after a timeout and after a negative answer, and two
threads a repeated handshake. Writes succeed in `lossy` and `holes`: what is in
the file influences no step, and failing writes only multiply its states; the
proofs are for both values of `WriteFails`.

`traps`: with three slots the indices wrap, the queue holds none, one or two
traps, and a third meets it full; two kinds of traps show an overtaking. `jobs`:
four nodes are a log task, a task per row and one that may reuse a freed address;
four SETs allow create, change, delete and create again, or two rows whose changes
interleave, with SETs that send no trap among them; the run visits every way the
daemon can be restarted in. `requests`: four requests are a SET of the table, a
request under way, one that waits and one that arrives; `Agents` of two lets the
table change its answer. `collect`: frequencies 1, 3, 4 and 5 against lists of 5 s
divide and do not divide the interval, 8 nodes force it to be halved, a window
that ends in second 9 puts samples beyond it, and the days change within `MaxNow`;
three events are failures in successive seconds, so that orphaned alarms cut two
lists in a row short, or a failure and SETs on top of it. `watch`, `told`: two
events are two SETs (out of service and active, destroy and create), a SET that is
undone and another, a SET and a restart, or a process that ends and returns; two
contexts let a new row have a freed or a new address, and two threads an old and a
new one. The processes run all or none at first. Two events are too few for an
alert, a row that goes out of service and back, and an end of the process: for
`DownEndsAlert` the proof covers them (section 4).

### 3.2 Fairness

`Scheduler`: weak fairness of the thread's steps (the operating system
schedules it; SLEEP returns), of the clock, and of a client's return from
`pthread_join`. Clients are not forced to call anything. `FileTrans`: weak
fairness of the sender's own steps, and of each timeout: select is given a time
that is counted down over the datagrams that are thrown away, so a flood of
stale ones cannot extend the wait; the thread at the destination goes on to
acknowledge and to write a window it has received. Nothing is assumed of the
network.

`TrapQueue`: weak fairness of the initialisation, strong fairness of both threads,
because each competes for a mutex that the other holds only for a few steps; no
trap is forced to arrive. `MasterAgent`: weak fairness of the signal that follows
an enqueued request and of `sendPDU` (`snmp_synch_response` has a timeout); the
manager is not forced to send. `ProcMon`: weak fairness of the main thread, which
starts and ends a SET it has begun, and of each thread, which sleeps for a fixed
time, and strong fairness of the list reader, which competes for a mutex that a
thread holds only while it goes through the list; SETs, processes and failures are
not forced. `JobSched` and `Collect` are checked for safety only.

## 4. Proofs

`SchedulerProofs` proves for every calendar, polling period, set of nodes, tasks
and clients that satisfies `CalendarAssumption` and `SchedulerAssumption`:

* `TypeCorrect`, `Spec => []TypeOK`. `TypeOK` is not inductive: the builder
  follows pointers without the mutex, so one has to know that what it can reach
  is a node with contents. `HeapInv` says so: no node is linked twice, linked
  nodes, the builder's node and successors of freed nodes hold a task, and a
  stored task was validated (its interval is not 0, which the remainder of
  lines 663-678 needs). `CalcInv` adds that a sleep is computed for a list that
  is not empty. `IInv` is their conjunction. The lemmas `LinkStep` and
  `FreeStep` treat the two ways the table changes, `NextNodeType` the walk, and
  `ClientIInv`, `SchedulerIInv`, `TickIInv` one action each.
* `NoSelfDeadlock`, `Spec => []ExecLockFree`, from `LockInv`: the places at which
  the mutex may be held are exactly those between its lock and its unlock.
* `SleepsInTime`, `Spec => NoOversleep`, for every `MaxLag`, from `SortInv` (the
  list is sorted inside the loop) and the arithmetic lemmas `SleepBound`,
  `PollBound` and `SleepAtDue` on `SleepArgument`. The property excepts `Wraps`,
  the case in which the unsigned time is 0 and one is subtracted from it.
* `CallsInTheirHour`, `Spec => CallsComeFromThisHour` if `MaxLag = 0`, from
  `HourInv`: a build takes no time, and as long as an entry up to second 3600 is
  left the hour of the build is not over, unless the thread is lost. The clock
  moves in a sleep that ends before the hour does (`AwakeInv`) and in the busy
  wait, whose second is not the last one (`HourGoesOn`). `DueInv` says that a
  sleep wraps only after a busy wait; the wrapped sleep is longer than the clock
  of the model goes (`MaxNow + 1 < UI32_SPAN`). Entries beyond second 3600 may be
  carried along, but are never run.
* `TasksRunWhenDue`, `Spec => []RunWhenDue` if `MaxLag = 0`, no client deletes or
  modifies tasks (as in FD), and repeating tasks have intervals of at most an hour
  and run on all days (`IntervalsOfAnHour`). `OriginInv` says that the nodes of a
  bucket hold tasks of that bucket, that the builder stays in the bucket it walks,
  and that every entry of the list is for a task that asks for this second of this
  hour (`EveryHourListed`, `HourListed`); `HourInv` carries that to the time of
  the call (`SameHourSameDay`). Without the second assumption TLC shows the
  counterexample above, without the third the code lists tasks in wrong hours and
  on wrong days (702, section 3).
* `HoursAreRebuilt`, `Spec => []HourRebuilt` if `MaxLag = 0`, no client deletes or
  modifies tasks, all tasks are periodic with intervals of at most an hour, and
  none is due at a second for which the loop waits busily, 3596 to 3599 in the
  code (`TasksOfAnHour`; a longer one can enter the list beyond the hour, the
  midnight clean hangs at a one-shot task, and the thread may be lost after a busy
  wait, section 3), and clients add them only while two polling periods are left
  of the hour (`QuietEndOfHour`; otherwise the counterexample to `HourRebuilt` in
  section 3). The property speaks of the list, and says nothing of why the thread
  is awake when the hour begins. `RebuildInv` does: no entry lies beyond the hour
  (`EntriesInHour`); no sleep passes its end, and the two that end there are
  announced by `bHourlySchedule` (`SleepInv`); a change is noticed, and the list
  built, before the last poll (`ChangeInv`); what the poll decides is decided in
  the second it has read (`PollInv`); the flag is set only at the start of an hour
  or while the last entry of the old one is due (`HourlyInv`); and a list of
  another hour is left only in the first second, with the thread on its way to the
  build (`FreshInv`). `RebuildClient`, `RebuildTick`, `RebuildOuter`,
  `RebuildBuild` and `RebuildLoop` treat the steps.

`SchDayProofs` proves for every calendar, interval and last hour that satisfies
`SchDayAssumption` (the end of each hour fits into the 16 bits of
`ui16EndHrInSec`):

* `RepetitionsHaveTheirHour`, `Spec => []EveryRepetitionHasItsHour`, which is
  inductive with the types (`DayInv`). `MultipleInHour` says that an hour shorter
  than the interval contains a repetition exactly if the remainder at its end is
  less than the hour, which is the test of the code; `EndOfBuiltHour` that the
  16 bits hold the end of the hour, and `LongListed` that the build lists the task
  in these hours.
* `HoursAreFilled`, `Spec => []RepetitionsFillTheHour`, from `ShortListed`.

`MasterAgentProofs` proves for all enterprises, agents and numbers of requests
that satisfy `MasterAgentAssumption`:

* `TypeCorrect`, `Spec => []TypeOK`; the type of `dest` says that the search of
  the table never uses an entry past its end.
* `NoRequestLost`, `Spec => []NoneLost`. `NoneLost` is inductive with the types:
  `AddToList` extends the run of numbers at its end, `TakeRequest` shortens it at
  its head.
* `RoutedByTable`, `Spec => []RightAgent`. `RightAgent` is not inductive: it must
  be known that the copy equals the table unless a reload is due, was missed or
  failed, that a SET that begins with the table is only sent with the reload
  noted, and that a request was routed with a copy that was not due. `RouteInv`
  says so. `KindKept` uses `NoneLost`: a new request has a number that is not the
  one being sent.

`TrapQueueProofs` proves for every number of slots, kinds of traps and traps
that satisfies `TrapQueueAssumption`:

* `TypeCorrect`, `Spec => []TypeOK`, and `TakesOnlyTraps`,
  `Spec => []NeverTakesEmptySlot`. The latter needs to know why the queue cannot
  be empty when the processor has only tested it before its wait. `QueueInv`
  says so: while the mutex protects the queue it is held exactly between its lock
  and its unlock (`MutexInv`), every slot between the indices holds a trap, and
  there is one after a signal and after the test (`SlotInv`). `IndexArithmetic`
  and `Moving` treat the indices modulo `MAX_ELEMENT`, `TrapStored` and
  `TrapTaken` the two ends.
* `ImplementsFifo`, `Spec => TrapsInOrder`: every step of the two threads maps to
  a step of `TrapFifo` or to a stutter (`StepRefines`), where the waiting traps
  are read off the slots (`WaitingTraps`).

`JobSchedProofs` proves for all rows, jobs, addresses and numbers of SETs that
satisfy `JobSchedAssumption`:

* `TypeCorrect` and `ArgumentsAlive` (`LinkedArgumentsAlive`), with the first half
  of `EveryTaskListed` (`Listed`). Neither is inductive: while a change is between
  its two halves, the structure it holds must belong to nobody else, and no two
  tasks may share one. `JobInv` adds that (`OpInv`, `ArgsInv`, `TrapsInv`). The
  lemmas `Added`, `Removed` and `FirstRemoved` say what the list's operations
  keep.
* `ScheduleFollows`, `Spec => []ScheduleFollowsTable`. The property speaks of the
  moments at which all traps are handled; the invariant has to speak of the
  others. `PlanInv` says that the traps in the queue lead, one after the other,
  from the schedule to the table, and that none of them adds a task to a row that
  has one; `FetchedInv` says the same of the rows that are still to be added at
  the start. `ListInv`, `OpTidy` and `LogInv` say that the list names one task
  per row, that the operation under way is for the row it found, and that there
  is no log task but the one the daemon knows. `PlanGrows` is the SET that sends a
  trap, `PlanShrinks` the trap that is handled, `SilentTidy` the SET that sends
  none and leaves what the table asks for.
* `TasksListed`, `Spec => []EveryTaskListed`: from `ListInv` and `OpInv`, the
  entry of a task is for its row and the only one for it.

`FileTransProofs` proves for files of any size, any sizes of windows and packets
and any number of retries and threads that satisfy `FileTransAssumption`, on a
network that loses, repeats and reorders:

* `TypeCorrect`, `PacketsInArrays` (`PlacesInArrays`) and `EndsInStep` (`InStep`),
  from `TransInv`. What has to be known is what the datagrams in flight may say
  (`NetInv`): a packet is of a window the sender has reached, and an answer was
  sent by a thread that has since not gone back; what counts is what it has
  acknowledged (`Acked`), which is one window more than it has written while it
  writes. With it a thread never waits for
  no packet (`CountInv`), only the thread the sender is connected to holds packets
  (`HeldInv`), and that thread is not behind the sender (`PeerInv`).
  `ThreadChanges` and `SenderChanges` carry `NetInv` over the steps of either end.
* `ImplementsCopy`, `Spec => WindowsCopied`: every step maps to a step of
  `FileCopy` or to a stutter (`WindowAcked` for `TakeWindow`, `WindowWritten` for
  `WriteWindow`), and success is reported only with the last window acknowledged
  (`DoneInv`).

`CollectProofs` proves for all tables, plans, days and lengths of a list that
satisfy `CollectAssumption`:

* `TypeCorrect`, `AlarmsInTime` (`AlarmForNextNode`) and `ChangesNoticed`
  (`ChangesAnnounced`), which are inductive together.
* `SampledOften`, `Spec => []SampledInTime`. `WaitInv` says of each row that is
  waited for that its nodes are at times of its plan, a period apart (`Chain`),
  and that it has a node within two periods of its last sample, or was sampled on
  time and the list will be used up before the second period is over
  (`Awaited`). `RowNodes` shows both for a new list, `FirstTime` that the first
  node of a new list misses no time of the row, `SampledKnown` that a row keeps
  its two periods when a list is used up or replaced after a change, `CutKnown`
  that a list that is cut short takes at most one period: the invariant counts a
  row from its last sample and a period for each such list (`Counted`). `SameDay`
  shows that its plan stays the same
  until midnight. That the halving of the interval ends with a number is shown by
  building the function from 0 on (`HalvingDefined`, `HalvingEnds`).
* `ListsAreBounded`, `Spec => []ListBounded` if the table has no more rows than
  `RTC_MAX_LIST_NODES`. The assumption is needed: the halving stops at an interval
  of a second whatever the estimate (2696-2701), and then a row of frequency 1
  gets two nodes when its window ends with the interval. `LengthInv` says that the
  list is finite and within one of the two bounds. `RowLength` compares the nodes
  of a row with the estimate, which leaves out the first time of a row beyond its
  window; `EstimateIsSum`, `SumDefined` and `SumBounds` carry that over all rows.
  The estimates are added up by a fold over a set, so what holds for every set is
  shown of a smallest set for which it would not (`WFMin`, the well-foundedness of
  `<`).

`ProcMonProofs` proves for any number of contexts, threads, processes, SETs and
restarts that satisfies `ProcMonAssumption`:

* `TypeCorrect`, and `RowsWatched` (`ActiveRowWatched`). `WatchInv` adds what the
  flag stands for as long as no race was lost: a thread that knows the row, once
  `ProcMon_MasterThread` is through, also in the middle of a SET.
* `TrapsAlternate` (`NoRepeatedTrap`), from `TrapInv`: what the only thread
  remembers in `iStatus` is what it told last (`Known`), also when one of the
  traps of a cycle was not sent. `SendFields` says what a trap does to each field,
  `SendFits` that it keeps thread and manager in agreement.
* `AlertsEnd` (`DownEndsAlert`). `AlertInv` says that an alert that was told for
  this row (`Alert`) is in the row the thread checks, and that there is none
  between the trap that the process is down and the next process that is counted.
  It needs `FlagInv`: a thread that still belongs to an earlier row finds the new
  one not to be watched, or is not alone. The assumption that `Threads` is not a
  single thread is used here: if `pthread_create` fails for an active row while
  the thread of an earlier row is still there, that thread takes the row over
  without knowing of its own alert.

Only model-checked is liveness (`StopTerminates`, `TransferEnds`, `TrapsParsed`,
`RequestsServed`, `TruthTold`): the prover has no rule for fairness. Every other
property of a passing run is a theorem; the theorems about `HourRebuilt`,
`RunWhenDue`, `NoOversleep`, `CallsComeFromThisHour` and `ListBounded` have the
assumptions named above, which the instances of their runs satisfy.

## 5. Plan

1. `SchTask`, `Scheduler`, their runs and proofs - done.
2. `FileTrans` with the abstract `FileCopy` - done; to come: a sequence of
   transfers to one path and two senders at one port.
3. `TrapQueue` with the abstract `TrapFifo` - done.
4. `JobSched` - done; the composition with `Scheduler` itself, instead of its
   table of tasks, has too many states for TLC.
5. `MasterAgent` with its proofs - done.
6. `Collect` - done.
7. `ProcMon` - done.
8. Proofs of `TrapQueue`, `JobSched`, `FileTrans`, `Collect` and `ProcMon`, of the
   calls and the hourly builds of `Scheduler` and of `SchDay` - done.

### Not modelled

* FD: its own logic is XML, one TCP transfer and calls of the two libraries. Seen
  while reading (`NASCenter_FD_FileDistribution.c`): the address of a variable is
  passed to each thread as its socket (1058-1060, 1105), `delFlag` is shared
  without a lock (549, 924), a block is lost by a loop that starts at 1 (899), a
  refusal of the scheduler is tested as 0 instead of -1 (427), the task id is
  stored after the task can run (433).
* BM and UM beyond the trap queue: the list of backups follows JobSched, running
  a backup is `tar` and a transfer; UM and UC write rules for other programs.
* LogMon, LogCol, FileMon, PortMon, RBM, TransMon: each polls something
  outside the repository (processes, files, ports, packets) and compares it with
  a row; the state between two polls is the last result. The surrounding SNMP
  table code is generated.
* AgentInfo, Common, sysStats, the other tables of G2Configure: get and set
  handlers without state over several steps, generated from one template.
* ICP: runs commands and edits accounts of the operating system.
* net-snmp, winpcap, libxml2 are third-party code, `Group2/Unix/backup` and
  `Nuri/Project` old copies. They are most of the repository's lines.

## 6. Running

`tlc -config Scheduler_core.cfg MCScheduler` and likewise for the others (module
and configuration of each run are in `PROJECT.json`);
`tlapm SchedulerProofs.tla` and likewise for the other modules named `...Proofs`.
Deadlock checking is off: the clock of a model ends at `MaxNow`, the scheduler
may have been stopped, a finished transfer does nothing more, a manager may send
nothing, a daemon that parsed an empty slot has crashed, and threads of the
process monitor may all wait for `sendTrapLock`.
