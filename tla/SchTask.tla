------------------------------- MODULE SchTask -------------------------------
(***************************************************************************)
(* The data of the task scheduler (Common/NASCenter_Scheduler.c): the      *)
(* stTask record, the calendar the code reads with time()/localtime(), the *)
(* validation of a task and what BuildExecutionList derives from one node  *)
(* of the master table.  Everything here is a pure operator; the threads   *)
(* and the locks are in module Scheduler.                                  *)
(*                                                                         *)
(* A point in time is a number of seconds since a midnight that starts a   *)
(* week and a month.  The calendar is parameterised so that a model can    *)
(* use a short day; the run of SchDay uses the real one.                   *)
(***************************************************************************)
EXTENDS Integers, Sequences

CONSTANTS NO_SECS_IN_HOUR,   \* seconds in an hour          (3600)
          NO_HOUR_IN_DAY,    \* hours in a day              (24)
          DAYS_IN_WEEK,      \* tm_wday is in 0..6          (7)
          DAYS_IN_MONTH,     \* all months have this length (31)
          UI16_SPAN          \* values of a UI16            (65536)

ASSUME CalendarAssumption ==
    /\ NO_SECS_IN_HOUR \in Nat \ {0}
    /\ NO_HOUR_IN_DAY \in Nat \ {0}
    /\ DAYS_IN_WEEK \in Nat \ {0}
    /\ DAYS_IN_MONTH \in Nat \ {0}
    /\ UI16_SPAN \in Nat \ {0}

NO_SECS_IN_DAY == NO_SECS_IN_HOUR * NO_HOUR_IN_DAY

\* Index of the master table's bucket for tasks that repeat within a day.
EVERY_HOUR_TASK == NO_HOUR_IN_DAY

\* The value of eWeekDay that means every day (the week days are 0..6).
SCH_ALL_DAYS == DAYS_IN_WEEK

-----------------------------------------------------------------------------
(* What localtime() makes of a point in time.                              *)

Hour(t)     == (t \div NO_SECS_IN_HOUR) % NO_HOUR_IN_DAY
SecOfHour(t) == t % NO_SECS_IN_HOUR            \* tm_min * 60 + tm_sec
Day(t)      == t \div NO_SECS_IN_DAY           \* the date, as a day number
WeekDay(t)  == Day(t) % DAYS_IN_WEEK
MonthDay(t) == Day(t) % DAYS_IN_MONTH

-----------------------------------------------------------------------------
(* stTask.  day stands for StartDate, hour and sec for StartTime (sec is   *)
(* the minute and the second together).  EndDate and EndTime are never     *)
(* read by the scheduler.  vpArg identifies the job the callback gets.     *)

TaskType(Args) ==
    [ eType        : {"SCH_ONE_SHOT", "SCH_PERIODIC"},
      ePCity       : {"SCH_SEC_MIN_HOUR", "SCH_DAY", "SCH_WEEK", "SCH_MONTH"},
      ui32Interval : Nat,
      eWeekDay     : 0 .. SCH_ALL_DAYS,
      day          : Nat,
      hour         : 0 .. NO_HOUR_IN_DAY - 1,
      sec          : 0 .. NO_SECS_IN_HOUR - 1,
      vpArg        : Args ]

\* ValidateDateTime(..., SCH_DATE_ONLY) fails: the start date is over.
DateExpired(task, t) == task.day < Day(t)

\* ValidateTask.  Its range check of StartTime is skipped for periodic tasks
\* (line 469); the daemons submit times of day, the type of hour and sec.
ValidateTask(task, t) ==
    /\ task.eType = "SCH_ONE_SHOT" => ~DateExpired(task, t)
    /\ task.ePCity = "SCH_SEC_MIN_HOUR" =>
         /\ task.ui32Interval # 0
         /\ task.ui32Interval <= NO_SECS_IN_DAY
         /\ task.eType = "SCH_PERIODIC"
    /\ task.ePCity \in {"SCH_WEEK", "SCH_MONTH"} =>
         task.eWeekDay # SCH_ALL_DAYS

\* The bucket SCH_AddTask appends a task to.
Bucket(task) == IF task.ePCity = "SCH_SEC_MIN_HOUR"
                THEN EVERY_HOUR_TASK ELSE task.hour

-----------------------------------------------------------------------------
(* BuildExecutionList, one node of the EVERY_HOUR_TASK bucket.             *)

\* ui16EndHrInSec: both products and the sum are stored in a UI16.
EndHrInSec(t) ==
    (((Hour(t) * NO_SECS_IN_HOUR) % UI16_SPAN) + NO_SECS_IN_HOUR) % UI16_SPAN

OnThisDay(task, t) == task.eWeekDay \in {WeekDay(t), SCH_ALL_DAYS}

\* The node passes the test that decides whether its repetitions are computed.
Repeats(task, t) == task.ePCity = "SCH_SEC_MIN_HOUR" /\ OnThisDay(task, t)

\* Mistake: the hour before the repetition is taken as well.
DueThisHour_Inclusive(task, t) ==
    EndHrInSec(t) % task.ui32Interval <= NO_SECS_IN_HOUR

\* A task with an interval above an hour is due in the hour that contains t.
DueThisHour(task, t) == EndHrInSec(t) % task.ui32Interval < NO_SECS_IN_HOUR

\* Mistake: one repetition too many within the hour.
NoOfExec_OffByOne(task, t, before) ==
    IF Repeats(task, t) /\ task.ui32Interval <= NO_SECS_IN_HOUR
    THEN NO_SECS_IN_HOUR \div task.ui32Interval + 1
    ELSE IF Repeats(task, t) /\ DueThisHour(task, t) THEN 1 ELSE before

\* ui32NoOfExec after the node.  The variable is declared outside the loop:
\* a node that assigns nothing keeps the value "before" of the previous node.
NoOfExec(task, t, before) ==
    CASE ~Repeats(task, t) -> before
      [] Repeats(task, t) /\ task.ui32Interval <= NO_SECS_IN_HOUR
           -> NO_SECS_IN_HOUR \div task.ui32Interval
      [] OTHER -> IF DueThisHour(task, t) THEN 1 ELSE before

\* ui32Interval as it is passed to AddToExecutionList.
IntervalInHour(task, t) ==
    LET mod == EndHrInSec(t) % task.ui32Interval
    IN  IF /\ Repeats(task, t)
           /\ task.ui32Interval > NO_SECS_IN_HOUR
           /\ DueThisHour(task, t)
        THEN IF mod = 0 THEN NO_SECS_IN_HOUR ELSE mod
        ELSE task.ui32Interval

\* The nodes AddToExecutionList appends for it, in order.
EveryHourEntries(task, t, before) ==
    [k \in 1 .. NoOfExec(task, t, before) |->
        [vpArg |-> task.vpArg, ui32Interval |-> IntervalInHour(task, t) * k]]

(* BuildExecutionList, one node of the current hour's bucket.              *)

\* Mistake: a weekly task is listed on every day.
InThisHourList_AnyDay(task, t) ==
    \/ task.ePCity = "SCH_DAY" /\ OnThisDay(task, t)
    \/ task.ePCity = "SCH_WEEK"
    \/ task.ePCity = "SCH_MONTH" /\ task.day % DAYS_IN_MONTH = MonthDay(t)

InThisHourList(task, t) ==
    \/ task.ePCity = "SCH_DAY" /\ OnThisDay(task, t)
    \/ task.ePCity = "SCH_WEEK" /\ task.eWeekDay = WeekDay(t)
    \/ task.ePCity = "SCH_MONTH" /\ task.day % DAYS_IN_MONTH = MonthDay(t)

HourEntries(task, t) ==
    IF InThisHourList(task, t)
    THEN << [vpArg |-> task.vpArg, ui32Interval |-> task.sec] >>
    ELSE << >>

=============================================================================
