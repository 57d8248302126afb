------------------------------- MODULE SchDay --------------------------------
(***************************************************************************)
(* The hourly builds of one day: a single task in the EVERY_HOUR_TASK      *)
(* bucket (the daemons' log upload) and one build at the start of each     *)
(* hour, as the outer loop of Common/NASCenter_Scheduler.c makes them.     *)
(***************************************************************************)
EXTENDS SchTask

CONSTANTS Intervals,   \* the values of ui32Interval that are tried
          LastHour     \* the last hour that is built

\* The end of every hour that is built fits into ui16EndHrInSec: of the real
\* day these are the hours 0 to 17.
ASSUME SchDayAssumption ==
    /\ Intervals \subseteq Nat \ {0}
    /\ LastHour \in 0 .. NO_HOUR_IN_DAY - 1
    /\ (LastHour + 1) * NO_SECS_IN_HOUR < UI16_SPAN

VARIABLES hour,        \* the hour being built
          interval,    \* ui32Interval of the task
          due          \* how many of the hours 0..hour listed the task

vars == <<hour, interval, due>>

Task(i) ==
    [ eType |-> "SCH_PERIODIC", ePCity |-> "SCH_SEC_MIN_HOUR",
      ui32Interval |-> i, eWeekDay |-> SCH_ALL_DAYS,
      day |-> 0, hour |-> 0, sec |-> 0, vpArg |-> "log" ]

\* What the build at the start of hour k puts on the execution list for a task
\* with interval i; ui32NoOfExec starts at 0.
ListedIn(k, i) == EveryHourEntries(Task(i), k * NO_SECS_IN_HOUR, 0)

Listed == ListedIn(hour, interval)

Init == /\ hour = 0
        /\ interval \in Intervals
        /\ due = IF Listed = << >> THEN 0 ELSE 1

NextHour == /\ hour < LastHour
            /\ hour' = hour + 1
            /\ interval' = interval
            /\ due' = IF ListedIn(hour', interval) = << >> THEN due ELSE due + 1

Next == NextHour

Spec == Init /\ [][Next]_vars

-----------------------------------------------------------------------------
\* A task that repeats after more than an hour is listed in exactly as many
\* hours as it has repetitions since midnight: no hour is listed twice and
\* none is left out (the test on ui32Mod, lines 674-691).
EveryRepetitionHasItsHour ==
    interval > NO_SECS_IN_HOUR =>
        due = ((hour + 1) * NO_SECS_IN_HOUR) \div interval

\* The repetitions of a task that runs within the hour stay in the hour and
\* leave no room for another one (lines 663-666 and 702-705).
RepetitionsFillTheHour ==
    interval <= NO_SECS_IN_HOUR =>
        /\ Listed # << >>
        /\ Listed[Len(Listed)].ui32Interval \in
              (NO_SECS_IN_HOUR - interval + 1) .. NO_SECS_IN_HOUR

=============================================================================
