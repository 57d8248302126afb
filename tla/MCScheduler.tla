---------------------------- MODULE MCScheduler ----------------------------
(***************************************************************************)
(* The tasks the runs of module Scheduler submit: an hour has 7 seconds (8 *)
(* in the run periodic, 6 in clean_spins), a day 2 hours, a week 2 days    *)
(* and a month 3.  With the polling period of 3 seconds the loop waits     *)
(* busily for entries of the last second but one of the hour.              *)
(***************************************************************************)
EXTENDS Scheduler, TLC

Every(arg, interval) ==
    [eType |-> "SCH_PERIODIC", ePCity |-> "SCH_SEC_MIN_HOUR",
     ui32Interval |-> interval, eWeekDay |-> SCH_ALL_DAYS,
     day |-> 0, hour |-> 0, sec |-> 0, vpArg |-> arg]

At(arg, type, pcity, wday, d, h, s) ==
    [eType |-> type, ePCity |-> pcity, ui32Interval |-> 0, eWeekDay |-> wday,
     day |-> d, hour |-> h, sec |-> s, vpArg |-> arg]

Daily(arg, h, s)  == At(arg, "SCH_PERIODIC", "SCH_DAY", SCH_ALL_DAYS, 0, h, s)
Once(arg, d, h, s) == At(arg, "SCH_ONE_SHOT", "SCH_DAY", SCH_ALL_DAYS, d, h, s)
Weekly(arg, w, h, s) == At(arg, "SCH_PERIODIC", "SCH_WEEK", w, 0, h, s)
Monthly(arg, d, h, s) == At(arg, "SCH_PERIODIC", "SCH_MONTH", 0, d, h, s)

\* A log upload and a job that can be modified from a one-shot job of day 0
\* into a daily one, at a second for which the loop waits busily.
CoreTasks == { Every("log", 7), Once("job1", 0, 1, 2), Daily("job1", 1, 6) }

\* A task of each periodicity, as a daemon without one-shot jobs submits them.
WeekTasks == { Every("log", 4), Daily("job1", 1, 5), Daily("job1", 0, 0),
               Weekly("job2", 1, 1, 4), Monthly("job3", 1, 0, 3) }

\* The same without the weekly and the monthly task, for shorter runs.
PeriodicTasks == { Every("log", 4), Every("log", 5), Daily("job1", 1, 5),
                   Daily("job2", 0, 0) }

\* A log upload in every hour's last second and jobs shortly before it.
LateTasks == { Every("log", 7), Daily("job1", 0, 5), Daily("job2", 1, 6) }

\* A log upload every second, and a one-shot job of day 1.
LogAndOneShot == { Every("log", 1), Once("job1", 1, 1, 2) }

NodeSymmetry == Permutations(Nodes)
=============================================================================
