------------------------------- MODULE Collect -------------------------------
(***************************************************************************)
(* The collection schedule of the real time monitor (RTCM): the rows of    *)
(* collectDataTable name a variable, a window of the day and a frequency;  *)
(* RTC_callback forms the list of the samples that are due next, and       *)
(* alarms of net-snmp walk through it.                                     *)
(*                                                                         *)
(* The agent is one thread: a callback and a SET are one step each.  They  *)
(* take less than a second, and an alarm comes in the second it was set    *)
(* for.  The list is a set: RTC_callback sorts it by interval, and samples *)
(* of the same second are taken together.                                  *)
(***************************************************************************)
EXTENDS Naturals, FiniteSets, FiniteSetsExt

CONSTANTS Indices,             \* rows of the table
          Contents,            \* what a row may hold
          SecondsPerDay,
          DaysPerWeek,
          INIT_INTERVAL,       \* seconds a list is formed for: 3600
          RTC_MAX_LIST_NODES,  \* 5000
          RTC_IDLE_TIME,       \* 60
          MaxNow,              \* bound: the clock
          StartTimes,          \* bound: when the agent may start
          MaxEvents,           \* bound: SETs and failures to open a log file
          NULL

\* Dates in seconds, start and end of the day's window in seconds of the day.
Plans == [start : Nat, end : 0 .. SecondsPerDay, freq : Nat]

ASSUME CollectAssumption ==
    /\ SecondsPerDay \in Nat \ {0} /\ DaysPerWeek \in Nat \ {0}
    /\ INIT_INTERVAL \in Nat \ {0} /\ RTC_IDLE_TIME \in Nat \ {0}
    /\ RTC_MAX_LIST_NODES \in Nat /\ MaxNow \in Nat
    /\ MaxEvents \in Nat /\ StartTimes \subseteq Nat
    /\ IsFiniteSet(Indices)
    /\ Contents \subseteq [active : BOOLEAN, sDate : Nat, eDate : Nat,
                           week : [0 .. DaysPerWeek - 1 -> Plans]]
    /\ NULL \notin Contents \cup Nat

VARIABLES
    now,
    events,            \* SETs and failures so far
    table,             \* collectDataTable
    gpstHeadList,      \* the samples left: [interval, index], seconds counted
                       \* from the time the list was formed
    guiRTCReg1,        \* when RTC_callback is called, or NULL
    collectAlarm,      \* guiRTCReg2 or guiRTCReg3: when
                       \* RTC_Collect_Store_Variables is called, or NULL
    orphans,           \* alarms for RTC_callback whose number was overwritten
    giContextChanged,
    formed,            \* history: when the list was formed
    unsaved,           \* history: a change that was not announced
    since,             \* history: when the row was sampled last, or came into
                       \* the list; NULL while it need not be sampled
    cut                \* history: lists that were cut short since then

alarms == <<guiRTCReg1, collectAlarm, orphans>>
vars == <<now, events, table, gpstHeadList, alarms, giContextChanged, formed,
          unsaved, since, cut>>

-----------------------------------------------------------------------------
(* The list: Form_Linked_List.                                             *)

Today(t) == (t \div SecondsPerDay) % DaysPerWeek
CTime(t) == t % SecondsPerDay

\* RTC_Get_Time_Frequency.
Plan(row, t) == row.week[Today(t)]

RTC_Within_Period(row, t) == row.sDate <= t /\ t <= row.eDate

\* The rows that get nodes; start and end themselves do not count.
Eligible(row, t) ==
    /\ row # NULL
    /\ row.active
    /\ RTC_Within_Period(row, t)
    /\ Plan(row, t).start < CTime(t) /\ CTime(t) < Plan(row, t).end
    /\ Plan(row, t).freq # 0

EligibleRows(tbl, t) == {i \in Indices : Eligible(tbl[i], t)}

\* From now to the next time of the row; a time that is just now is taken a
\* second late, and so are then all times of this list.
InitDelay(p, t) ==
    LET delay == p.freq - ((CTime(t) - p.start) % p.freq)
    IN  IF delay = p.freq THEN 1 ELSE delay

ASTime(p, t) == CTime(t) + InitDelay(p, t)

\* RTC_Calc_Num_Nodes_Interval estimates the nodes of a row, and halves the
\* interval until all fit.
Estimate(p, t, iInterval) ==
    IF ASTime(p, t) > p.end THEN 0
    ELSE IF p.end > iInterval + ASTime(p, t)
    THEN 1 + iInterval \div p.freq
    ELSE 1 + (p.end - ASTime(p, t)) \div p.freq

EstimateAll(tbl, t, iInterval) ==
    MapThenSumSet(LAMBDA i : Estimate(Plan(tbl[i], t), t, iInterval),
                  EligibleRows(tbl, t))

\* Mistake: the interval is not halved.
RTC_Calc_Num_Nodes_Interval_Whole(tbl, t) == INIT_INTERVAL

RTC_Calc_Num_Nodes_Interval(tbl, t) ==
    LET halve[n \in 0 .. INIT_INTERVAL] ==
            IF n <= 1 \/ EstimateAll(tbl, t, n) <= RTC_MAX_LIST_NODES
            THEN n ELSE halve[n \div 2]
    IN  halve[INIT_INTERVAL]

\* Mistake: the first time is left to the list before.
NodesOf_NotFirst(i, p, t, iInterval) ==
    LET iCnt == IF p.end > iInterval + ASTime(p, t)
                THEN iInterval \div p.freq
                ELSE (p.end - CTime(t)) \div p.freq
    IN  {[interval |-> InitDelay(p, t) + k * p.freq, index |-> i] :
            k \in 1 .. iCnt - 1}

\* RTC_Add_Intervals_To_List: the first time is added in any case.
NodesOf(i, p, t, iInterval) ==
    LET iCnt == IF p.end > iInterval + ASTime(p, t)
                THEN iInterval \div p.freq
                ELSE (p.end - CTime(t)) \div p.freq
    IN  {[interval |-> InitDelay(p, t) + k * p.freq, index |-> i] :
            k \in {0} \cup 1 .. iCnt - 1}

Form_Linked_List(tbl, t) ==
    UNION {NodesOf(i, Plan(tbl[i], t), t, RTC_Calc_Num_Nodes_Interval(tbl, t)) :
              i \in EligibleRows(tbl, t)}

First(list) == Min({node.interval : node \in list})

-----------------------------------------------------------------------------
(* RTC_callback, for the table tbl: the alarms it knows are cancelled.     *)

\* No sample lies beyond the interval the list is formed for.  The first time of
\* a row rarer than the interval may lie beyond it, and so may the times of a row
\* whose window ends soon: the other rows pause until these have been taken.
WithinInterval(tbl, t) ==
    \A node \in Form_Linked_List(tbl, t) :
        node.interval <= RTC_Calc_Num_Nodes_Interval(tbl, t)

\* History: rows that are in the new list are waited for, and the wait for those
\* that are known goes on.
NoneTracked == [i \in Indices |-> NULL]

Track(tbl, known) ==
    [i \in Indices |->
        IF ~Eligible(tbl[i], now) \/ ~WithinInterval(tbl, now) THEN NULL
        ELSE IF known[i] = NULL THEN now ELSE known[i]]

RTC_callback(tbl, known, lists) ==
    LET list == Form_Linked_List(tbl, now)
    IN  /\ gpstHeadList' = list
        /\ IF list = {}
           THEN guiRTCReg1' = now + RTC_IDLE_TIME /\ collectAlarm' = NULL
           ELSE guiRTCReg1' = NULL /\ collectAlarm' = now + First(list)
        /\ formed' = now
        /\ unsaved' = FALSE
        /\ since' = Track(tbl, known)
        /\ cut' = [i \in Indices |-> IF known[i] = NULL THEN 0 ELSE lists[i]]

\* init_collectDataTable: the rows are read from the file, and the list formed.
Init ==
    /\ now \in StartTimes
    /\ events = 0
    /\ table \in [Indices -> Contents \cup {NULL}]
    /\ gpstHeadList = Form_Linked_List(table, now)
    /\ IF gpstHeadList = {}
       THEN guiRTCReg1 = now + RTC_IDLE_TIME /\ collectAlarm = NULL
       ELSE guiRTCReg1 = NULL /\ collectAlarm = now + First(gpstHeadList)
    /\ orphans = {}
    /\ giContextChanged = FALSE
    /\ formed = now
    /\ unsaved = FALSE
    /\ since = Track(table, NoneTracked)
    /\ cut = [i \in Indices |-> 0]

-----------------------------------------------------------------------------
(* collectDataTable_set_commit.                                            *)

Event == events < MaxEvents /\ events' = events + 1

SetRow(i, row) ==
    /\ row # table[i]
    /\ Event
    /\ table' = [table EXCEPT ![i] = row]

Untracked(i) == [since EXCEPT ![i] = NULL]

\* The list that is replaced was not used up.
CutShort == [i \in Indices |-> cut[i] + 1]

\* When the monitor is idle, or a log file could not be opened, the list is
\* formed at once.
SetWhileIdle(i, row) ==
    /\ guiRTCReg1 # NULL
    /\ SetRow(i, row)
    /\ giContextChanged' = FALSE
    /\ RTC_callback(table', Untracked(i), CutShort)
    /\ UNCHANGED <<now, orphans>>

\* Mistake: the change is not announced.
SetWhileCollecting_Quiet(i, row) ==
    /\ guiRTCReg1 = NULL
    /\ SetRow(i, row)
    /\ since' = Untracked(i)
    /\ UNCHANGED <<now, gpstHeadList, alarms, giContextChanged, formed, unsaved,
                   cut>>

SetWhileCollecting(i, row) ==
    /\ guiRTCReg1 = NULL
    /\ SetRow(i, row)
    /\ giContextChanged' = TRUE
    /\ since' = Untracked(i)
    /\ UNCHANGED <<now, gpstHeadList, alarms, formed, unsaved, cut>>

\* The file cannot be written: the row has changed all the same.
SetUnsaved(i, row) ==
    /\ SetRow(i, row)
    /\ since' = Untracked(i)
    /\ unsaved' = TRUE
    /\ UNCHANGED <<now, gpstHeadList, alarms, giContextChanged, formed, cut>>

-----------------------------------------------------------------------------
(* Alarms.                                                                 *)

\* Mistake: the number of no alarm is kept as well.
LogFileFails_NoNumber ==
    /\ Event
    /\ guiRTCReg1' = now + RTC_IDLE_TIME
    /\ orphans' = orphans \cup {guiRTCReg1}
    /\ UNCHANGED <<now, table, gpstHeadList, collectAlarm, giContextChanged,
                   formed, unsaved, since, cut>>

\* RTC_Check_LogFile_Name cannot open a file, in the thread RTC_Transfer_File or
\* in a sample, whose other effects follow in the same second: it asks for
\* RTC_callback, and forgets an earlier number.
LogFileFails ==
    /\ Event
    /\ guiRTCReg1' = now + RTC_IDLE_TIME
    /\ orphans' = orphans \cup ({guiRTCReg1} \ {NULL})
    /\ UNCHANGED <<now, table, gpstHeadList, collectAlarm, giContextChanged,
                   formed, unsaved, since, cut>>

CallbackAlarm ==
    /\ guiRTCReg1 = now
    /\ RTC_callback(table, since, CutShort)
    /\ UNCHANGED <<now, events, table, orphans, giContextChanged>>

OrphanedAlarm ==
    /\ now \in orphans
    /\ orphans' = orphans \ {now}
    /\ RTC_callback(table, since, CutShort)
    /\ UNCHANGED <<now, events, table, giContextChanged>>

\* The nodes of this second, and what follows them.
ThisSecond == {node \in gpstHeadList : node.interval = First(gpstHeadList)}
Later == gpstHeadList \ ThisSecond

\* RTC_Retrieve_Log_Variable, for the rows that still exist.  Whether the value
\* could be fetched and written to the log is left out.
InTurn(i) == \E node \in ThisSecond : node.index = i
Sampled ==
    [i \in Indices |-> IF since[i] # NULL /\ InTurn(i) THEN now ELSE since[i]]
Uncut == [i \in Indices |-> IF InTurn(i) THEN 0 ELSE cut[i]]

CollectAndWait ==
    /\ collectAlarm = now
    /\ Later # {}
    /\ ~giContextChanged
    /\ gpstHeadList' = Later
    /\ collectAlarm' = now + (First(Later) - First(gpstHeadList))
    /\ since' = Sampled
    /\ cut' = Uncut
    /\ UNCHANGED <<now, events, table, guiRTCReg1, orphans, giContextChanged,
                   formed, unsaved>>

CollectAfterChange ==
    /\ collectAlarm = now
    /\ Later # {}
    /\ giContextChanged
    /\ giContextChanged' = FALSE
    /\ RTC_callback(table, Sampled, Uncut)
    /\ UNCHANGED <<now, events, table, orphans>>

\* Mistake: the node that marks the end of the list, with interval 2147483647,
\* is waited for; NAM_Collect_Store_Variables does so.
CollectLast_AwaitsMark ==
    /\ collectAlarm = now
    /\ Later = {}
    /\ gpstHeadList' = {}
    /\ collectAlarm' = NULL
    /\ since' = Sampled
    /\ cut' = Uncut
    /\ UNCHANGED <<now, events, table, guiRTCReg1, orphans, giContextChanged,
                   formed, unsaved>>

\* The list is used up; the flag is left as it is.
CollectLast ==
    /\ collectAlarm = now
    /\ Later = {}
    /\ RTC_callback(table, Sampled, Uncut)
    /\ UNCHANGED <<now, events, table, orphans, giContextChanged>>

AlarmDue == now \in {guiRTCReg1, collectAlarm} \cup orphans

\* A second passes when all alarms of this one have been handled.
Tick ==
    /\ now < MaxNow
    /\ ~AlarmDue
    /\ now' = now + 1
    /\ since' = [i \in Indices |-> IF Eligible(table[i], now') THEN since[i]
                                                               ELSE NULL]
    /\ UNCHANGED <<events, table, gpstHeadList, alarms, giContextChanged, formed,
                   unsaved, cut>>

-----------------------------------------------------------------------------
Next == \/ \E i \in Indices, row \in Contents \cup {NULL} :
               \/ SetWhileIdle(i, row) \/ SetWhileCollecting(i, row)
               \/ SetUnsaved(i, row)
        \/ LogFileFails \/ CallbackAlarm \/ OrphanedAlarm
        \/ CollectAndWait \/ CollectAfterChange \/ CollectLast
        \/ Tick

Spec == Init /\ [][Next]_vars

-----------------------------------------------------------------------------
(* Properties.                                                             *)

\* The types of the state.
TypeOK ==
    /\ now \in Nat
    /\ events \in 0 .. MaxEvents
    /\ table \in [Indices -> Contents \cup {NULL}]
    /\ \A node \in gpstHeadList : node.interval \in Nat /\ node.index \in Indices
    /\ guiRTCReg1 \in Nat \cup {NULL}
    /\ collectAlarm \in Nat \cup {NULL}
    /\ \A t \in orphans : t \in Nat
    /\ giContextChanged \in BOOLEAN
    /\ formed \in 0 .. now
    /\ unsaved \in BOOLEAN
    /\ since \in [Indices -> 0 .. now \cup {NULL}]
    /\ cut \in [Indices -> Nat]

\* The waits from node to node add up: the alarm comes when the next node is
\* due, counted from when the list was formed; without nodes the monitor is
\* woken some time.  No list is left without an alarm.
AlarmForNextNode ==
    IF gpstHeadList = {}
    THEN guiRTCReg1 # NULL
    ELSE collectAlarm = formed + First(gpstHeadList) /\ collectAlarm >= now

\* A row of the table that is in its window is sampled at least every second
\* time its frequency names, through all lists that are used up or end with a
\* change, and each list that an alarm of RTC_callback or a SET cuts short, when
\* a log file could not be opened, costs it at most one time more.  This holds
\* as long as no list reaches beyond the interval it is formed for.
SampledInTime ==
    \A i \in Indices : since[i] # NULL =>
        now - since[i] <= (2 + cut[i]) * Plan(table[i], now).freq

\* A list is never much longer than allowed: only the first times of the rows
\* come on top.
ListBounded ==
    Cardinality(gpstHeadList) <= RTC_MAX_LIST_NODES + Cardinality(Indices)

\* A row whose nodes are still in the list although it may no longer be sampled
\* is found at the next alarm.
ChangesAnnounced ==
    (\E node \in gpstHeadList : LET row == table[node.index]
                                IN  row = NULL \/ ~row.active)
        => giContextChanged \/ unsaved \/ guiRTCReg1 # NULL
=============================================================================
