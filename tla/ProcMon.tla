------------------------------- MODULE ProcMon -------------------------------
(***************************************************************************)
(* The process monitor: one row of psMonitorTable, the threads that watch  *)
(* the processes it names (ProcMon_ProcMonThreadMain), the thread that     *)
(* reads the process list, and the SETs of the manager, which start        *)
(* threads and change the row under them without a lock.                   *)
(*                                                                         *)
(* A row is a psMonitorTable_context on the heap.  A thread keeps a        *)
(* pointer to it while it sleeps, and the row may be freed meanwhile: a    *)
(* freed context keeps its contents until malloc returns it again.         *)
(*                                                                         *)
(* A trap that is sent counts as received.  Without the port of the alert  *)
(* manager none is sent, and sendTrapLock stays locked.  The thresholds    *)
(* for memory are handled as those for CPU, which stand for both.          *)
(***************************************************************************)
EXTENDS Integers, FiniteSets

CONSTANTS Contexts,    \* addresses of psMonitorTable_context
          Threads,     \* bound: without a free one pthread_create fails
          Pids,        \* processes with the name of the row
          Greedy,      \* those of them that may need much CPU time
          Columns,     \* what the manager may write
          MaxEvents,   \* bound: SETs, restarts, failures, changes outside
          NULL

Rows == [status : {"active", "notInService", "destroy"}, valid : BOOLEAN,
         reaction : 1 .. 3, number : Nat, cpu : BOOLEAN, thrcpu : BOOLEAN,
         iThreadActiveFlag : BOOLEAN]

\* The variables of ProcMon_ProcMonThreadMain; left are the processes that
\* ProcMon_CheckProc comes to next.
Locals == [pc : {"begin", "find", "status", "exit", "check", "count", "react",
                 "hung", "blocked"},
           my : Contexts, iStatus : -1 .. 2, iProcCount : Nat,
           left : SUBSET Pids]

ASSUME ProcMonAssumption ==
    /\ Contexts # {}
    /\ \A t \in Threads : Threads # {t}    \* pthread_create finds a second one
    /\ IsFiniteSet(Pids) /\ Greedy \subseteq Pids
    /\ Columns \subseteq [valid : BOOLEAN,     \* name and interval are set
                          reaction : 1 .. 3,
                          number : Nat,        \* psMonitorNumber
                          cpu : BOOLEAN]       \* psMonitorCPU is set
    /\ MaxEvents \in Nat
    /\ NULL \notin Contexts /\ NULL \notin Locals

VARIABLES
    container,          \* the context in the table, or NULL
    ctx,                \* the contents of the contexts
    file,               \* the row in PROC_MON_DATA_FILE, or NULL
    mpc,                \* the main thread: "start", "flag", "serve" or "set"
    undo,               \* undo_info: the row before the SET under way, or NULL
    thread,             \* NULL or the Locals of the thread
    pids, hot,          \* external: the processes, and those over the threshold
    gpstPsInfo,         \* NULL or the process list: [pids, hot]
    gpstPrePsInfo,      \* the pids of the list before
    full_process_list,
    ready,              \* external: in the hours, the reaction path is usable
    port,               \* external: glAgentInfoAlertMgrPort is set
    sendTrapLock,       \* it is locked, and nobody will unlock it
    seen,               \* what the traps told the manager: status and cpu, and
                        \* history: whether an earlier thread told it
    repeated,           \* history: a trap told what the one before had told,
                        \* and a thread had told both
    mixed,              \* history: two threads at once, or one of an earlier
                        \* row at a new one, or reaction 2 told or hid
                        \* something
    raced,              \* history: a thread was not started, or its end was
                        \* not noticed
    events

table == <<container, ctx, file, mpc, undo>>
lists == <<gpstPsInfo, gpstPrePsInfo, full_process_list>>
outside == <<pids, hot, ready, port>>
view == <<seen, repeated, mixed, sendTrapLock>>
vars == <<table, thread, lists, outside, view, raced, events>>

\* Addresses and threads are alike.
Some(S) == CHOOSE x \in S : TRUE

Row(col, status, flag) ==
    [status |-> status, valid |-> col.valid, reaction |-> col.reaction,
     number |-> col.number, cpu |-> col.cpu, thrcpu |-> FALSE,
     iThreadActiveFlag |-> flag]

Views == [status : {"unknown", "up", "down", "over"}, oldStatus : BOOLEAN,
          cpu : BOOLEAN, oldCpu : BOOLEAN]

\* The traps of the threads that come have told nothing yet.  No trap tells the
\* manager that a thread begins: it keeps what it knows.
ToldBefore(v) == [v EXCEPT !.oldStatus = TRUE, !.oldCpu = TRUE]

\* ProcMon_LoadContainerFromFile.
Load(row) == /\ ctx' = [c \in Contexts |-> row]
             /\ container' = Some(Contexts)

Init == /\ \E col \in Columns, status \in {"active", "notInService"} :
               /\ file = Row(col, status, FALSE)
               /\ ctx = [c \in Contexts |-> file]
        /\ container = Some(Contexts)
        /\ mpc = "start"
        /\ undo = NULL
        /\ thread = [t \in Threads |-> NULL]
        /\ pids \in {{}, Pids}     \* bound: at first none or all of them run
        /\ hot = {}
        /\ gpstPsInfo = NULL
        /\ gpstPrePsInfo = {}
        /\ full_process_list = FALSE
        /\ ready = TRUE
        /\ port \in BOOLEAN
        /\ sendTrapLock = FALSE
        /\ seen = [status |-> "unknown", oldStatus |-> TRUE,
                   cpu |-> FALSE, oldCpu |-> TRUE]
        /\ repeated = FALSE
        /\ mixed = FALSE
        /\ raced = FALSE
        /\ events = 0

Event == events < MaxEvents /\ events' = events + 1

-----------------------------------------------------------------------------
(* Threads of a row.                                                       *)

Live == {t \in Threads : thread[t] # NULL}

StartThread(c) ==
    LET t == Some(Threads \ Live)
    IN  /\ Threads # Live
        /\ thread' = [thread EXCEPT ![t] = [pc |-> "begin", my |-> c,
                                            iStatus |-> -1, iProcCount |-> 0,
                                            left |-> {}]]
        /\ mixed' = (mixed \/ Live # {})

\* ProcMon_MasterThread, for the row of the file: the thread is started before
\* the flag is set, whatever the status of the row.
MasterStarts ==
    /\ mpc = "start"
    /\ IF container # NULL /\ ctx[container].valid
       THEN StartThread(container) /\ mpc' = "flag" /\ UNCHANGED ctx
       ELSE /\ mpc' = "serve"
            /\ ctx' = [c \in Contexts |->
                          IF c = container
                          THEN [ctx[c] EXCEPT !.iThreadActiveFlag = FALSE]
                          ELSE ctx[c]]
            /\ UNCHANGED <<thread, mixed>>
    /\ UNCHANGED <<container, file, undo, lists, outside, seen, repeated,
                   sendTrapLock, raced, events>>

\* Only now; the thread may have ended.
MasterFlags ==
    /\ mpc = "flag"
    /\ mpc' = "serve"
    /\ ctx' = [ctx EXCEPT ![container].iThreadActiveFlag = TRUE]
    /\ raced' = (raced \/ Live = {})
    /\ UNCHANGED <<container, file, undo, thread, lists, outside, view, events>>

-----------------------------------------------------------------------------
(* SETs: psMonitorTable_set_action and psMonitorTable_set_commit.          *)

\* ProcMon_UpdateDataFile.
UpdateDataFile(row) == file' = row

Commit(c, row) ==
    /\ UpdateDataFile(row)
    /\ IF row.valid /\ row.status = "active" /\ ~row.iThreadActiveFlag
       THEN \/ /\ StartThread(c)
               /\ ctx' = [ctx EXCEPT ![c] =
                             [row EXCEPT !.iThreadActiveFlag = TRUE]]
               /\ UNCHANGED raced
            \/ /\ Threads = Live
               /\ ctx' = [ctx EXCEPT ![c] = row]
               /\ raced' = TRUE
               /\ UNCHANGED <<thread, mixed>>
       ELSE ctx' = [ctx EXCEPT ![c] = row] /\ UNCHANGED <<thread, mixed, raced>>

\* The alert about an earlier row is not ended, and not known to the new one.
Create(col, status) ==
    /\ mpc = "serve"
    /\ container = NULL
    /\ Event
    /\ \E c \in Contexts : container' = c /\ Commit(c, Row(col, status, FALSE))
    /\ seen' = [seen EXCEPT !.oldCpu = TRUE]
    /\ UNCHANGED <<mpc, undo, lists, outside, repeated, sendTrapLock>>

\* set_action writes into the row itself, where the threads see it.  An active
\* row may be changed: the error that was found for it is overwritten.
Change(col, status) ==
    /\ mpc = "serve"
    /\ container # NULL
    /\ Event
    /\ LET old == ctx[container]
           row == [Row(col, status, old.iThreadActiveFlag)
                      EXCEPT !.thrcpu = old.thrcpu]
       IN  /\ row # old
           /\ ctx' = [ctx EXCEPT ![container] = row]
           /\ undo' = old
           /\ mixed' = (mixed \/ /\ row.status = "active" /\ row.valid
                                 /\ ~row.iThreadActiveFlag /\ Live # {})
    /\ mpc' = "set"
    /\ UNCHANGED <<container, file, thread, lists, outside, seen, repeated,
                   sendTrapLock, raced>>

ChangeCommitted ==
    /\ mpc = "set"
    /\ mpc' = "serve"
    /\ undo' = NULL
    /\ Commit(container, ctx[container])
    /\ UNCHANGED <<container, lists, outside, seen, repeated, sendTrapLock,
                   events>>

\* The SET is refused, for this row or for another one of the same request.
\* row_copy restores the columns, but not a thread that has ended meanwhile.
Undone(lost) ==
    /\ mpc = "set"
    /\ mpc' = "serve"
    /\ undo' = NULL
    /\ LET flag == ctx[container].iThreadActiveFlag
       IN  /\ ctx' = [ctx EXCEPT ![container] =
                         [undo EXCEPT !.iThreadActiveFlag = flag,
                                      !.thrcpu = ctx[container].thrcpu]]
           /\ raced' = \/ raced \/ lost
                       \/ undo.status = "active" /\ undo.valid /\ ~flag
    /\ UNCHANGED <<container, file, lists, outside, view, events>>

ChangeUndone == Undone(FALSE) /\ UNCHANGED thread

\* row_copy frees the index and allocates it again; a thread that looks its row
\* up with the freed one does not find it.
ChangeUndoneHidden ==
    \E t \in Threads :
        /\ thread[t] # NULL /\ thread[t].pc = "find"
        /\ thread[t].my = container
        /\ thread' = [thread EXCEPT ![t] = NULL]
        /\ Undone(TRUE)

\* The row is taken out of the table and, after the commit, freed.
Destroy ==
    /\ mpc = "serve"
    /\ container # NULL
    /\ Event
    /\ container' = NULL
    /\ LET row == [ctx[container] EXCEPT !.status = "destroy",
                                         !.iThreadActiveFlag = FALSE]
       IN  ctx' = [ctx EXCEPT ![container] = row] /\ UpdateDataFile(row)
    /\ UNCHANGED <<mpc, undo, thread, lists, outside, view, raced>>

Main == \/ MasterStarts \/ MasterFlags
        \/ ChangeCommitted \/ ChangeUndone \/ ChangeUndoneHidden

Manager == \/ \E col \in Columns, status \in {"active", "notInService"} :
                  Create(col, status) \/ Change(col, status)
           \/ Destroy

-----------------------------------------------------------------------------
(* ProcMon_ProcMonThreadMain.                                              *)

At(t, pc) == thread[t] # NULL /\ thread[t].pc = pc

Goto(t, pc) == thread' = [thread EXCEPT ![t].pc = pc]

Mine(t) == ctx[thread[t].my]

\* A new thread forgets the alert of an earlier one, and no trap says so.
Begin(t) ==
    /\ At(t, "begin")
    /\ Goto(t, "find")
    /\ ctx' = [ctx EXCEPT ![thread[t].my].thrcpu = FALSE]
    /\ seen' = ToldBefore(seen)
    /\ UNCHANGED <<container, file, mpc, undo, lists, outside, repeated, mixed,
                   sendTrapLock, raced, events>>

\* Mistake: a row that does not exist any more is used.
FindRow_Unchecked(t) ==
    /\ At(t, "find")
    /\ thread' = [thread EXCEPT ![t].pc = "status", ![t].my = container]
    /\ UNCHANGED <<table, lists, outside, view, raced, events>>

\* CONTAINER_FIND, with the index in the old context.
FindRow(t) ==
    /\ At(t, "find")
    /\ container # NULL
    /\ thread' = [thread EXCEPT ![t].pc = "status", ![t].my = container]
    /\ UNCHANGED <<table, lists, outside, view, raced, events>>

\* The row is gone, or the index that was read from freed memory is.
RowGone(t) ==
    /\ At(t, "find")
    /\ container # thread[t].my
    /\ thread' = [thread EXCEPT ![t] = NULL]
    /\ UNCHANGED <<table, lists, outside, view, raced, events>>

ReadStatus(t) ==
    /\ At(t, "status")
    /\ Goto(t, IF Mine(t).status # "active" THEN "exit"
               ELSE IF Mine(t).valid /\ ready THEN "check" ELSE "find")
    /\ UNCHANGED <<table, lists, outside, view, raced, events>>

\* Mistake: the flag stays set.
EndThread_Flagged(t) ==
    /\ At(t, "exit")
    /\ thread' = [thread EXCEPT ![t] = NULL]
    /\ UNCHANGED <<table, lists, outside, view, raced, events>>

\* The row may have been activated since its status was read; a SET that is
\* under way looks at the flag afterwards.
EndThread(t) ==
    /\ At(t, "exit")
    /\ thread' = [thread EXCEPT ![t] = NULL]
    /\ ctx' = [ctx EXCEPT ![thread[t].my].iThreadActiveFlag = FALSE]
    /\ raced' = (raced \/ /\ thread[t].my = container
                          /\ Mine(t).status = "active"
                          /\ mpc # "set")
    /\ UNCHANGED <<container, file, mpc, undo, lists, outside, view, events>>

\* A thread inside ProcMon_CheckProc holds procMonProcessCheckLock, also while
\* it waits for sendTrapLock there.
procMonProcessCheckLock == \E t \in Threads : At(t, "count") \/ At(t, "hung")

\* ProcMon_CheckProc without a complete list: -99.
NoList(t) ==
    /\ At(t, "check") /\ ~procMonProcessCheckLock
    /\ gpstPsInfo = NULL \/ ~full_process_list
    /\ Goto(t, "find")
    /\ UNCHANGED <<table, lists, outside, view, raced, events>>

After == [Up |-> "up", Down |-> "down", Threshold |-> "over",
          Recovery |-> "up"]

\* Common_SendAlert_And_Vars, on s: what was told, the flag of the row, the lock
\* and whether the thread waits for it.  The flag is set before the sending.
Send(s, trap) ==
    LET r == [s EXCEPT !.thrcpu = \/ trap = "CpuAlert"
                                  \/ @ /\ trap # "CpuRecovery"]
    IN  IF s.waits THEN s
        ELSE IF s.lock THEN [r EXCEPT !.waits = TRUE]
        ELSE IF ~port THEN [r EXCEPT !.lock = TRUE]
        ELSE IF trap \in DOMAIN After
        THEN [r EXCEPT !.told.status = After[trap],
                       !.told.oldStatus = FALSE,
                       !.again = \/ @
                                 \/ /\ After[trap] = s.told.status
                                    /\ ~s.told.oldStatus]
        ELSE [r EXCEPT !.told.cpu = r.thrcpu, !.told.oldCpu = FALSE]

Sender(t) == [told |-> seen, again |-> repeated, thrcpu |-> Mine(t).thrcpu,
              lock |-> sendTrapLock, waits |-> FALSE]

Sent(t, s) == /\ seen' = s.told
              /\ repeated' = s.again
              /\ sendTrapLock' = s.lock
              /\ ctx' = [ctx EXCEPT ![thread[t].my].thrcpu = s.thrcpu]

\* One process: the flag is that of the row, and a process that is not in the
\* list before is reported in any case.
checkThreshold(t, p) ==
    LET s == Sender(t)
    IN  IF ~Mine(t).cpu THEN s
        ELSE IF p \in gpstPsInfo.hot /\ (p \notin gpstPrePsInfo \/ ~s.thrcpu)
        THEN Send(s, "CpuAlert")
        ELSE IF p \notin gpstPsInfo.hot /\ p \in gpstPrePsInfo /\ s.thrcpu
        THEN Send(s, "CpuRecovery")
        ELSE s

\* ProcMon_CheckProc: the processes of the list one after the other, while the
\* row may be changed.
CheckProc(t) ==
    /\ At(t, "check") /\ ~procMonProcessCheckLock
    /\ gpstPsInfo # NULL /\ full_process_list
    /\ thread' = [thread EXCEPT
                     ![t].pc = IF gpstPsInfo.pids = {} THEN "react"
                               ELSE "count",
                     ![t].iProcCount = 0,
                     ![t].left = gpstPsInfo.pids]
    /\ UNCHANGED <<table, lists, outside, view, raced, events>>

CheckProcess(t) ==
    /\ At(t, "count")
    /\ \E p \in thread[t].left :
           LET s == checkThreshold(t, p)
           IN  /\ Sent(t, s)
               /\ thread' = [thread EXCEPT
                                ![t].pc = IF s.waits THEN "hung"
                                          ELSE IF thread[t].left = {p}
                                          THEN "react" ELSE "count",
                                ![t].iProcCount = @ + 1,
                                ![t].left = @ \ {p}]
    /\ UNCHANGED <<container, file, mpc, undo, lists, outside, mixed, raced,
                   events>>

-----------------------------------------------------------------------------
(* ProcMon_ProcMonThreadMain: the reactions.                               *)

\* A trap that is only sometimes sent before the next one.
SendIf(s, condition, trap) == IF condition THEN Send(s, trap) ELSE s

\* The end of a cycle; the number of processes is not read any more.
Sleep(t, iStatus) ==
    thread' = [thread EXCEPT ![t].pc = "find", ![t].iProcCount = 0,
                             ![t].iStatus = iStatus]

\* The traps of a cycle have been sent, with s as the result; iStatus is new (-1
\* unknown, 0 down, 1 up, 2 over the threshold of processes), unless the thread
\* waits for sendTrapLock for ever.
Tell(t, s, iStatus) ==
    /\ Sent(t, s)
    /\ IF s.waits THEN Goto(t, "blocked") ELSE Sleep(t, iStatus)
    /\ UNCHANGED <<container, file, mpc, undo, lists, raced, events>>

\* ProcMon_RestartProcess may fail, and the process may end at once.
RestartProcess ==
    /\ \/ UNCHANGED pids
       \/ \E p \in Pids \ pids : pids' = pids \cup {p}
    /\ UNCHANGED <<hot, ready, port>>

Reacts(t, reaction) == At(t, "react") /\ Mine(t).reaction = reaction

Count(t) == thread[t].iProcCount
Status(t) == thread[t].iStatus

Over(t) == Mine(t).number # 0 /\ Mine(t).number < Count(t)
Recovers(t) == Status(t) = 2 /\ Mine(t).number # 0 /\ ~Over(t)

TooMany(t) ==
    /\ Reacts(t, 1)
    /\ Over(t) /\ Status(t) # 2
    /\ Tell(t, Send(SendIf(Sender(t), Status(t) = 0, "Up"), "Threshold"), 2)
    /\ UNCHANGED <<outside, mixed>>

FewerAgain(t) ==
    /\ Reacts(t, 1)
    /\ Recovers(t) /\ Count(t) > 0
    /\ Tell(t, Send(Sender(t), "Recovery"), 1)
    /\ UNCHANGED <<outside, mixed>>

\* Mistake: the alert is left as it is.
DownTraps_Alert(t) ==
    Send(SendIf(Sender(t), Reacts(t, 1) /\ Recovers(t), "Recovery"), "Down")

\* The recovery of the CPU alert comes before the trap that the process is down.
DownTraps(t) ==
    LET s == SendIf(Sender(t), Reacts(t, 1) /\ Recovers(t), "Recovery")
    IN  Send(SendIf(s, Mine(t).thrcpu, "CpuRecovery"), "Down")

\* With reaction 3 the process is started again.
AfterDown(t) ==
    \/ Reacts(t, 1) /\ UNCHANGED outside
    \/ /\ Reacts(t, 3)
       /\ IF DownTraps(t).waits THEN UNCHANGED outside ELSE RestartProcess

\* Mistake: the thread does not remember it.
GoesDown_Forgets(t) ==
    /\ At(t, "react")
    /\ Count(t) = 0 /\ Status(t) # 0
    /\ Tell(t, DownTraps(t), Status(t))
    /\ AfterDown(t)
    /\ UNCHANGED mixed

GoesDown(t) ==
    /\ At(t, "react")
    /\ Count(t) = 0 /\ Status(t) # 0
    /\ Tell(t, DownTraps(t), 0)
    /\ AfterDown(t)
    /\ UNCHANGED mixed

\* Mistake: only an unknown process comes up.
ComesUp_Once(t) ==
    /\ At(t, "react")
    /\ Status(t) = -1
    /\ ~(Reacts(t, 1) /\ Over(t))
    /\ Count(t) > 0
    /\ Tell(t, Send(Sender(t), "Up"), 1)
    /\ UNCHANGED <<outside, mixed>>

\* With reaction 2 only the first time; a thread that knows the process as down
\* does not tell that it is up again.
ComesUp(t) ==
    /\ \/ Reacts(t, 1) /\ ~Over(t) /\ Status(t) < 1
       \/ Reacts(t, 2) /\ Status(t) = -1
       \/ Reacts(t, 3) /\ Status(t) < 1
    /\ Count(t) > 0
    /\ Tell(t, Send(Sender(t), "Up"), 1)
    /\ UNCHANGED <<outside, mixed>>

\* Reaction 2 tells that the process is up, every time.
Restarts(t) ==
    /\ Reacts(t, 2)
    /\ Count(t) = 0
    /\ RestartProcess
    /\ Tell(t, Send(Sender(t), "Up"), Status(t))
    /\ mixed' = TRUE

RestartsAgain(t) ==
    /\ Reacts(t, 3)
    /\ Count(t) = 0 /\ Status(t) = 0
    /\ RestartProcess
    /\ Sleep(t, Status(t))
    /\ UNCHANGED <<table, lists, view, raced, events>>

\* A process that was reported down runs again, and reaction 2 does not say so.
UpUntold(t) ==
    /\ Reacts(t, 2)
    /\ Count(t) > 0 /\ Status(t) = 0
    /\ Sleep(t, Status(t))
    /\ mixed' = TRUE
    /\ UNCHANGED <<table, lists, outside, seen, repeated, sendTrapLock, raced,
                   events>>

NothingNew(t) ==
    /\ \/ /\ Reacts(t, 1)
          /\ \/ Over(t) /\ Status(t) = 2
             \/ ~Over(t) /\ Status(t) = 1 /\ Count(t) > 0
             \/ Mine(t).number = 0 /\ Status(t) = 2 /\ Count(t) > 0
             \/ Status(t) = 0 /\ Count(t) = 0
       \/ Reacts(t, 2) /\ Status(t) > 0 /\ Count(t) > 0
       \/ Reacts(t, 3) /\ Status(t) > 0 /\ Count(t) > 0
    /\ Sleep(t, Status(t))
    /\ UNCHANGED <<table, lists, outside, view, raced, events>>

ProcMonThread(t) ==
    \/ Begin(t) \/ FindRow(t) \/ RowGone(t) \/ ReadStatus(t) \/ EndThread(t)
    \/ NoList(t) \/ CheckProc(t) \/ CheckProcess(t)
    \/ TooMany(t) \/ FewerAgain(t) \/ GoesDown(t) \/ ComesUp(t) \/ Restarts(t)
    \/ RestartsAgain(t) \/ UpUntold(t) \/ NothingNew(t)

-----------------------------------------------------------------------------
(* ProcMon_ProcCheckThreadMain, and what happens outside.                  *)

ReadList ==
    /\ ~procMonProcessCheckLock
    /\ gpstPrePsInfo' = IF gpstPsInfo = NULL THEN {} ELSE gpstPsInfo.pids
    /\ gpstPsInfo' = [pids |-> pids, hot |-> hot]
    /\ full_process_list' = TRUE
    /\ UNCHANGED <<table, thread, outside, view, raced, events>>

\* /proc could not be read to its end.
ReadFails ==
    /\ ~procMonProcessCheckLock
    /\ Event
    /\ full_process_list' = FALSE
    /\ UNCHANGED <<table, thread, gpstPsInfo, gpstPrePsInfo, outside, view,
                   raced>>

\* External: processes start, end, and need more or less time.
ProcessesChange ==
    /\ Event
    /\ pids' \in SUBSET Pids
    /\ hot' \in SUBSET (pids' \cap Greedy)
    /\ UNCHANGED <<table, thread, lists, ready, port, view, raced>>

\* External: the hours of the row begin or end, the reaction path is repaired.
ReadyChanges ==
    /\ Event
    /\ ready' = ~ready
    /\ UNCHANGED <<table, thread, lists, pids, hot, port, view, raced>>

\* External: the manager sets the port of the alert manager, or clears it.
PortChanges ==
    /\ Event
    /\ port' = ~port
    /\ UNCHANGED <<table, thread, lists, pids, hot, ready, view, raced>>

\* The agent is started again; the manager is not told.
Restart ==
    /\ Event
    /\ mpc' = "start"
    /\ undo' = NULL
    /\ IF file = NULL \/ file.status = "destroy"
       THEN file' = NULL /\ container' = NULL /\ UNCHANGED ctx
       ELSE Load(file) /\ UNCHANGED file
    /\ thread' = [t \in Threads |-> NULL]
    /\ gpstPsInfo' = NULL
    /\ gpstPrePsInfo' = {}
    /\ full_process_list' = FALSE
    /\ seen' = ToldBefore(seen)
    /\ repeated' = FALSE
    /\ mixed' = FALSE
    /\ raced' = FALSE
    /\ sendTrapLock' = FALSE
    /\ UNCHANGED outside

-----------------------------------------------------------------------------
Next == \/ Main \/ Manager
        \/ \E t \in Threads : ProcMonThread(t)
        \/ ReadList \/ ReadFails
        \/ ProcessesChange \/ ReadyChanges \/ PortChanges \/ Restart

Spec == Init /\ [][Next]_vars

\* The main thread, which ends a SET, and each thread are scheduled; SLEEP
\* returns.  The list reader gets procMonProcessCheckLock, which is free while
\* the threads sleep.  Nothing else has to happen.
FairSpec == /\ Spec
            /\ WF_vars(Main)
            /\ SF_vars(ReadList)
            /\ \A t \in Threads : WF_vars(ProcMonThread(t))

-----------------------------------------------------------------------------
(* Properties.                                                             *)

\* The types of the state.
TypeOK ==
    /\ container \in Contexts \cup {NULL}
    /\ ctx \in [Contexts -> Rows]
    /\ file \in Rows \cup {NULL}
    /\ mpc \in {"start", "flag", "serve", "set"}
    /\ undo \in Rows \cup {NULL}
    /\ thread \in [Threads -> Locals \cup {NULL}]
    /\ hot \subseteq pids /\ pids \subseteq Pids
    /\ gpstPsInfo \in [pids : SUBSET Pids, hot : SUBSET Pids] \cup {NULL}
    /\ gpstPrePsInfo \subseteq Pids
    /\ seen \in Views
    /\ full_process_list \in BOOLEAN /\ ready \in BOOLEAN /\ port \in BOOLEAN
    /\ sendTrapLock \in BOOLEAN /\ repeated \in BOOLEAN
    /\ mixed \in BOOLEAN /\ raced \in BOOLEAN
    /\ events \in 0 .. MaxEvents

\* A trap always tells something new: up, down, over and recovered alternate,
\* through all changes of the row between reactions 1 and 3, as long as one
\* thread watches the row.  The first trap of a new thread may repeat what an
\* earlier one had told: iStatus starts as unknown.
NoRepeatedTrap == repeated => mixed

\* An active row has its thread, through every sequence of SETs, accepted or
\* refused, and restarts, unless a thread could not be started or one of the
\* races was lost that three properties at the end are about.
ActiveRowWatched ==
    container # NULL /\ mpc = "serve" /\ ~raced =>
        (ctx[container].status = "active" /\ ctx[container].valid => Live # {})

\* When a thread has reported the process down, no alert about CPU time is left
\* that it has sent for this row, as long as traps are sent.
DownEndsAlert ==
    \A t \in Threads :
        At(t, "find") /\ ~mixed /\ ~sendTrapLock
        /\ seen.status = "down" /\ ~seen.oldStatus => ~seen.cpu \/ seen.oldCpu

\* The thread looks at this row, and can.
Settled == /\ container # NULL
           /\ \E t \in Threads : thread[t] # NULL /\ thread[t].my = container
           /\ ctx[container].status = "active" /\ ctx[container].valid
           /\ ctx[container].reaction \in {1, 3}
           /\ ready /\ full_process_list /\ ~sendTrapLock

\* Once the row, its thread and the port stay as they are, the manager ends up
\* knowing whether the process runs, through every list and hour that fails.
TruthTold ==
    <>[](Settled /\ ~mixed) =>
        <>[](seen.status \in IF pids = {} THEN {"down"} ELSE {"up", "over"})

-----------------------------------------------------------------------------
(***************************************************************************)
(* What comments of the code say and TLC refutes; the README describes the *)
(* counterexamples.                                                        *)
(***************************************************************************)

\* What the comment in set_commit takes iThreadActiveFlag for: that the thread of
\* the row has been created.
FlagStandsForThread ==
    mpc = "serve" /\ container # NULL =>
        (ctx[container].iThreadActiveFlag => Live # {})

\* What the comment in ProcMon_ProcMonThreadMain says: a thread exits if the
\* status of its row is not active.
ExitsOnlyIfInactive ==
    [][\A t \in Threads :
           At(t, "exit") /\ thread'[t] = NULL /\ mpc' = "serve"
           /\ thread[t].my = container => Mine(t).status # "active"]_vars

\* What the comment at set_undo asks for: after a refused SET everything has its
\* previous value, so that the row has its thread if it had one.
UndoRestores ==
    [][ChangeUndone \/ ChangeUndoneHidden =>
           ctx'[container].iThreadActiveFlag = undo.iThreadActiveFlag]_vars

\* What the comment before the down trap says: the recovery of the CPU alert is
\* sent before it, so that the manager has no alert of a process that is down.
RecoveryBeforeDown ==
    \A t \in Threads :
        At(t, "find") /\ ~mixed /\ ~sendTrapLock
        /\ seen.status = "down" /\ ~seen.oldStatus => ~seen.cpu
=============================================================================
