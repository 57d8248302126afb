---------------------------- MODULE SchDayProofs ----------------------------
(***************************************************************************)
(* The arithmetic of BuildExecutionList over the hours of a day, for every *)
(* interval and every calendar whose hours fit into a UI16.                *)
(***************************************************************************)
EXTENDS SchDay, TLAPS

\* Division with remainder, and that quotient and remainder are determined by it.
LEMMA DivMod ==
    ASSUME NEW h \in Nat \ {0}, NEW t \in Nat
    PROVE  /\ t = h * (t \div h) + (t % h)
           /\ t \div h \in Nat
           /\ t % h \in 0 .. h - 1
OBVIOUS

LEMMA DivModUnique ==
    ASSUME NEW h \in Nat \ {0}, NEW q \in Nat, NEW r \in 0 .. h - 1,
           NEW x \in Nat, x = h * q + r
    PROVE  x % h = r /\ x \div h = q
<1>1. PICK p \in Nat, s \in 0 .. h - 1 :
          x = h * p + s /\ p = x \div h /\ s = x % h
  BY DivMod
<1>2. h * (p - q) = r - s
  <2>1. h * (p - q) = h * p - h * q
    BY <1>1
  <2>2. h * p \in Nat /\ h * q \in Nat
    BY <1>1
  <2> QED BY <1>1, <2>1, <2>2
<1>3. p - q = 0
  <2>1. CASE p - q >= 1
    <3>1. h * (p - q) >= h
      BY <2>1, <1>1
    <3> QED BY <3>1, <1>1, <1>2
  <2>2. CASE p - q <= -1
    <3>1. h * (p - q) <= -h
      BY <2>2, <1>1
    <3> QED BY <3>1, <1>1, <1>2
  <2> QED BY <2>1, <2>2, <1>1
<1> QED BY <1>1, <1>2, <1>3

\* An hour of h seconds, shorter than i, contains a multiple of i exactly if
\* what is left at its end is less than the hour.
LEMMA MultipleInHour ==
    ASSUME NEW h \in Nat \ {0}, NEW i \in Nat, h < i, NEW x \in Nat
    PROVE  (x + h) \div i = IF (x + h) % i < h THEN x \div i + 1 ELSE x \div i
<1>1. PICK q \in Nat, r \in 0 .. i - 1 : x = i * q + r /\ q = x \div i
  BY DivMod
<1> DEFINE y == x + h
<1>0. y \in Nat /\ i \in Nat \ {0}
  OBVIOUS
<1> HIDE DEF y
<1>2. CASE r + h < i
  <2>1. y = i * q + (r + h) /\ r + h \in 0 .. i - 1
    BY <1>1, <1>2 DEF y
  <2>2. y % i = r + h /\ y \div i = q
    BY <1>0, <2>1, DivModUnique
  <2> QED BY <1>1, <2>2 DEF y
<1>3. CASE r + h >= i
  <2>1. /\ y = i * (q + 1) + (r + h - i) /\ r + h - i \in 0 .. i - 1
        /\ r + h - i < h /\ q + 1 \in Nat
    BY <1>1, <1>3 DEF y
  <2>2. PICK p \in Nat, s \in 0 .. i - 1 : p = q + 1 /\ s = r + h - i
    BY <2>1
  <2>3. y = i * p + s
    BY <2>1, <2>2
  <2>4. y % i = s /\ y \div i = p
    BY <1>0, <2>3, DivModUnique
  <2> QED BY <1>1, <2>1, <2>2, <2>4 DEF y
<1> QED BY <1>1, <1>2, <1>3

\* ui16EndHrInSec is the end of the hour, as long as it fits.
LEMMA EndOfBuiltHour ==
    ASSUME NEW k \in 0 .. LastHour
    PROVE  EndHrInSec(k * NO_SECS_IN_HOUR) = (k + 1) * NO_SECS_IN_HOUR
<1> DEFINE h == NO_SECS_IN_HOUR
           n == NO_HOUR_IN_DAY
           m == UI16_SPAN
<1>1. /\ h \in Nat \ {0} /\ n \in Nat \ {0} /\ m \in Nat \ {0}
      /\ LastHour \in 0 .. n - 1 /\ k \in 0 .. n - 1
      /\ (LastHour + 1) * h < m
  BY CalendarAssumption, SchDayAssumption
<1> HIDE DEF h, n, m
<1>2. k * h \in Nat /\ k * h = h * k + 0 /\ 0 \in 0 .. h - 1 /\ k \in Nat
  BY <1>1
<1>3. (k * h) \div h = k
  BY <1>1, <1>2, DivModUnique
<1>4. k % n = k
  <2>1. k = n * 0 + k
    BY <1>1
  <2> QED BY <1>1, <1>2, <2>1, DivModUnique
<1>5. Hour(k * h) = k
  BY <1>3, <1>4 DEF Hour, h, n
<1>6. (k + 1) * h < m /\ k * h < m /\ (k + 1) * h \in Nat /\ (k + 1) * h = k * h + h
  <2>1. (LastHour - k) * h >= 0
    BY <1>1, <1>2
  <2>2. (LastHour + 1) * h = (k + 1) * h + (LastHour - k) * h
    BY <1>1, <1>2
  <2>3. (k + 1) * h = k * h + h
    BY <1>1, <1>2
  <2> QED BY <1>1, <1>2, <2>1, <2>2, <2>3
<1>7. \A y \in Nat : y < m => y % m = y
  <2> SUFFICES ASSUME NEW y \in Nat, y < m PROVE y % m = y
    OBVIOUS
  <2>1. y = m * 0 + y /\ y \in 0 .. m - 1
    BY <1>1
  <2> QED BY <1>1, <2>1, DivModUnique
<1>8. (k * h) % m = k * h /\ (k * h + h) % m = k * h + h
  BY <1>2, <1>6, <1>7
<1> QED BY <1>5, <1>6, <1>8 DEF EndHrInSec, h, m

-----------------------------------------------------------------------------
\* The hours are built one after the other, for one interval.
DayTypeOK == hour \in 0 .. LastHour /\ interval \in Intervals

\* The task repeats on every day.
LEMMA TaskRepeats ==
    ASSUME NEW i \in Intervals, NEW t
    PROVE  /\ Repeats(Task(i), t) /\ Task(i).ui32Interval = i
           /\ i \in Nat \ {0} /\ NO_SECS_IN_HOUR \in Nat \ {0}
  BY CalendarAssumption, SchDayAssumption
     DEF Task, Repeats, OnThisDay, SCH_ALL_DAYS

\* A task with a long interval is listed in the hours that contain one of its
\* repetitions.
LEMMA LongListed ==
    ASSUME NEW k \in 0 .. LastHour, NEW i \in Intervals, i > NO_SECS_IN_HOUR
    PROVE  ListedIn(k, i) = << >> <=>
             ~(((k + 1) * NO_SECS_IN_HOUR) % i < NO_SECS_IN_HOUR)
<1> DEFINE h == NO_SECS_IN_HOUR
           n == NoOfExec(Task(i), k * h, 0)
           list == ListedIn(k, i)
<1>1. /\ Repeats(Task(i), k * h) /\ Task(i).ui32Interval = i
      /\ i \in Nat \ {0} /\ h \in Nat \ {0}
  BY TaskRepeats
<1>2. EndHrInSec(k * h) = (k + 1) * h
  BY EndOfBuiltHour
<1>3. n = IF ((k + 1) * h) % i < h THEN 1 ELSE 0
  BY <1>1, <1>2 DEF NoOfExec, DueThisHour
<1>4. DOMAIN list = 1 .. n /\ list = [j \in 1 .. n |-> list[j]]
  BY DEF ListedIn, EveryHourEntries
<1> HIDE DEF n, list
<1>5. CASE ((k + 1) * h) % i < h
  <2>1. 1 \in DOMAIN list
    BY <1>3, <1>4, <1>5
  <2> QED BY <1>5, <2>1 DEF list
<1>6. CASE ~(((k + 1) * h) % i < h)
  <2>1. DOMAIN list = {} /\ list = [j \in {} |-> list[j]]
    BY <1>3, <1>4, <1>6
  <2>2. list = << >>
    BY <2>1
  <2> QED BY <1>6, <2>2 DEF list
<1> QED BY <1>5, <1>6

\* A task with a short interval is listed for the last time where no further
\* repetition fits into the hour.
LEMMA ShortListed ==
    ASSUME DayTypeOK
    PROVE  RepetitionsFillTheHour
<1> SUFFICES ASSUME interval <= NO_SECS_IN_HOUR
             PROVE  /\ Listed # << >>
                    /\ Listed[Len(Listed)].ui32Interval \in
                          (NO_SECS_IN_HOUR - interval + 1) .. NO_SECS_IN_HOUR
  BY DEF RepetitionsFillTheHour
<1> DEFINE h == NO_SECS_IN_HOUR
           q == h \div interval
           r == h % interval
           t == Task(interval)
           at == hour * h
<1>1. /\ Repeats(t, at) /\ t.ui32Interval = interval
      /\ interval \in Nat \ {0} /\ h \in Nat \ {0}
  BY TaskRepeats DEF DayTypeOK
<1>2. NoOfExec(t, at, 0) = q /\ IntervalInHour(t, at) = interval
  BY <1>1 DEF NoOfExec, IntervalInHour
<1>3. Listed = [k \in 1 .. q |->
                   [vpArg |-> t.vpArg, ui32Interval |-> interval * k]]
  BY <1>2 DEF Listed, ListedIn, EveryHourEntries
<1> HIDE DEF h, q, r, t
<1>4. h = interval * q + r /\ q \in Nat /\ r \in 0 .. interval - 1
  BY <1>1, DivMod DEF q, r
<1>5. q >= 1
  <2>1. CASE q = 0
    BY <1>1, <1>4, <2>1 DEF h
  <2> QED BY <1>4, <2>1
<1>6. Len(Listed) = q /\ q \in 1 .. q /\ 1 \in DOMAIN Listed
  BY <1>3, <1>4, <1>5
<1>7. Listed[Len(Listed)].ui32Interval = interval * q
  BY <1>3, <1>6
<1>8. interval * q \in Nat
  BY <1>1, <1>4
<1>9. interval * q \in (h - interval + 1) .. h
  BY <1>1, <1>4, <1>8
<1> QED BY <1>6, <1>7, <1>9 DEF h

-----------------------------------------------------------------------------
DayInv == DayTypeOK /\ EveryRepetitionHasItsHour

\* The list of hour 0 has no repetition of a task with a long interval.
LEMMA InitDayInv == Init => DayInv
<1> SUFFICES ASSUME Init PROVE DayInv
  OBVIOUS
<1>1. DayTypeOK /\ hour = 0
  BY CalendarAssumption, SchDayAssumption DEF Init, DayTypeOK
<1>2. EveryRepetitionHasItsHour
  <2> SUFFICES ASSUME interval > NO_SECS_IN_HOUR
               PROVE  due = ((hour + 1) * NO_SECS_IN_HOUR) \div interval
    BY DEF EveryRepetitionHasItsHour
  <2>1. interval \in Nat \ {0} /\ NO_SECS_IN_HOUR \in Nat \ {0}
    BY <1>1, TaskRepeats DEF DayTypeOK
  <2>2. /\ (hour + 1) * NO_SECS_IN_HOUR = interval * 0 + NO_SECS_IN_HOUR
        /\ (hour + 1) * NO_SECS_IN_HOUR \in Nat
        /\ NO_SECS_IN_HOUR \in 0 .. interval - 1
    BY <1>1, <2>1
  <2>3. /\ ((hour + 1) * NO_SECS_IN_HOUR) \div interval = 0
        /\ ((hour + 1) * NO_SECS_IN_HOUR) % interval = NO_SECS_IN_HOUR
    BY <2>1, <2>2, DivModUnique
  <2>4. Listed = << >>
    BY <1>1, <2>1, <2>3, LongListed DEF Listed, DayTypeOK
  <2> QED BY <2>3, <2>4 DEF Init
<1> QED BY <1>1, <1>2 DEF DayInv

\* The next hour is listed exactly if it contains the next repetition.
LEMMA NextDayInv ==
    ASSUME DayInv, [Next]_vars
    PROVE  DayInv'
<1>1. CASE UNCHANGED vars
  BY <1>1 DEF vars, DayInv, DayTypeOK, EveryRepetitionHasItsHour
<1>2. CASE NextHour
  <2>1. DayTypeOK' /\ hour' = hour + 1 /\ interval' = interval /\ hour \in Nat
    BY <1>2, SchDayAssumption, CalendarAssumption DEF NextHour, DayInv, DayTypeOK
  <2>2. EveryRepetitionHasItsHour'
    <3> SUFFICES ASSUME interval > NO_SECS_IN_HOUR
                 PROVE  due' = ((hour + 2) * NO_SECS_IN_HOUR) \div interval
      BY <2>1 DEF EveryRepetitionHasItsHour
    <3> DEFINE h == NO_SECS_IN_HOUR
               x == (hour + 1) * h
    <3>1. interval \in Nat \ {0} /\ h \in Nat \ {0}
      BY TaskRepeats DEF DayInv, DayTypeOK
    <3>2. x \in Nat /\ (hour + 2) * h = x + h
      BY <2>1, <3>1
    <3>3. due = x \div interval
      BY DEF DayInv, EveryRepetitionHasItsHour
    <3>4. ListedIn(hour + 1, interval) = << >> <=>
              ~((((hour + 1) + 1) * h) % interval < h)
      BY <2>1, LongListed DEF DayTypeOK
    <3>5. (x + h) \div interval =
              IF (x + h) % interval < h THEN x \div interval + 1
              ELSE x \div interval
      <4> HIDE DEF x, h
      <4> QED BY <3>1, <3>2, MultipleInHour DEF h
    <3>6. ((hour + 1) + 1) * h = x + h
      BY <2>1, <3>1
    <3>7. due' = IF ListedIn(hour + 1, interval) = << >> THEN due ELSE due + 1
      BY <1>2 DEF NextHour
    <3> QED BY <3>2, <3>3, <3>4, <3>5, <3>6, <3>7
  <2> QED BY <2>1, <2>2 DEF DayInv
<1> QED BY <1>1, <1>2 DEF Next

\* In the hours whose end fits into 16 bits a task with an interval above an
\* hour is listed once for each of its repetitions since midnight, for every
\* interval.
THEOREM RepetitionsHaveTheirHour == Spec => []EveryRepetitionHasItsHour
<1>1. DayInv => EveryRepetitionHasItsHour
  BY DEF DayInv
<1>2. DayInv /\ [Next]_vars => DayInv'
  BY NextDayInv
<1> QED BY <1>1, <1>2, InitDayInv, PTL DEF Spec

\* The repetitions of a task with an interval of at most an hour stay in the
\* hour and leave no room for another one, for every interval.
THEOREM HoursAreFilled == Spec => []RepetitionsFillTheHour
<1>1. DayInv => RepetitionsFillTheHour
  BY ShortListed DEF DayInv
<1>2. DayInv /\ [Next]_vars => DayInv'
  BY NextDayInv
<1> QED BY <1>1, <1>2, InitDayInv, PTL DEF Spec
=============================================================================
