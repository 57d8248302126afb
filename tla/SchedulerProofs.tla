--------------------------- MODULE SchedulerProofs ---------------------------
(***************************************************************************)
(* Proofs about module Scheduler, for every calendar, every set of tasks,  *)
(* nodes and clients and every polling period.                             *)
(***************************************************************************)
EXTENDS Scheduler, TLAPS

-----------------------------------------------------------------------------
(* The calendar.                                                           *)

\* A point in time falls on an hour of the day and a second of the hour.
LEMMA CalendarTypes ==
    ASSUME NEW t \in Nat
    PROVE  /\ SecOfHour(t) \in 0 .. NO_SECS_IN_HOUR - 1
           /\ Hour(t) \in 0 .. NO_HOUR_IN_DAY - 1
<1>1. NO_SECS_IN_HOUR \in Nat \ {0} /\ NO_HOUR_IN_DAY \in Nat \ {0}
  BY CalendarAssumption
<1>2. SecOfHour(t) \in 0 .. NO_SECS_IN_HOUR - 1
  BY <1>1 DEF SecOfHour
<1>3. t \div NO_SECS_IN_HOUR \in Nat
  BY <1>1
<1>4. Hour(t) \in 0 .. NO_HOUR_IN_DAY - 1
  BY <1>1, <1>3 DEF Hour
<1> QED BY <1>2, <1>4

\* Division with remainder, and that the remainder is determined by it.
LEMMA DivMod ==
    ASSUME NEW h \in Nat \ {0}, NEW t \in Nat
    PROVE  /\ t = h * (t \div h) + (t % h)
           /\ t \div h \in Nat
           /\ t % h \in 0 .. h - 1
OBVIOUS

LEMMA ModUnique ==
    ASSUME NEW h \in Nat \ {0}, NEW q \in Nat, NEW r \in 0 .. h - 1
    PROVE  (h * q + r) % h = r
<1>1. PICK x \in Nat : x = h * q + r
  OBVIOUS
<1>2. x = h * (x \div h) + (x % h) /\ x \div h \in Nat /\ x % h \in 0 .. h - 1
  BY DivMod
<1>3. h * (x \div h - q) = r - (x % h)
  BY <1>1, <1>2
<1>4. x \div h - q = 0
  <2>1. CASE x \div h - q >= 1
    <3>1. h * (x \div h - q) >= h
      BY <2>1, <1>2
    <3> QED BY <3>1, <1>2, <1>3
  <2>2. CASE x \div h - q <= -1
    <3>1. h * (x \div h - q) <= -h
      BY <2>2, <1>2
    <3> QED BY <3>1, <1>2, <1>3
  <2> QED BY <2>1, <2>2, <1>2
<1> QED BY <1>1, <1>2, <1>3, <1>4

\* So is the quotient.
LEMMA DivUnique ==
    ASSUME NEW h \in Nat \ {0}, NEW q \in Nat, NEW r \in 0 .. h - 1
    PROVE  (h * q + r) \div h = q
<1>1. PICK x \in Nat : x = h * q + r
  OBVIOUS
<1>2. x = h * (x \div h) + (x % h) /\ x \div h \in Nat
  BY DivMod
<1>3. x % h = r
  BY <1>1, ModUnique
<1>4. h * (x \div h) = h * q
  BY <1>1, <1>2, <1>3
<1>5. x \div h = q
  BY <1>2, <1>4
<1> QED BY <1>1, <1>5

\* A second later it is the next second of the hour, or the hour is over.
LEMMA NextSecond ==
    ASSUME NEW t \in Nat
    PROVE  SecOfHour(t + 1) = IF SecOfHour(t) = NO_SECS_IN_HOUR - 1
                              THEN 0 ELSE SecOfHour(t) + 1
<1> DEFINE h == NO_SECS_IN_HOUR
           q == t \div h
           r == t % h
<1>1. h \in Nat \ {0}
  BY CalendarAssumption
<1> HIDE DEF h
<1>2. t = h * q + r /\ q \in Nat /\ r \in 0 .. h - 1
  BY <1>1, DivMod
<1> HIDE DEF q, r
<1>3. CASE r = h - 1
  <2>1. t + 1 = h * (q + 1) + 0
    BY <1>1, <1>2, <1>3
  <2>2. (h * (q + 1) + 0) % h = 0
    BY <1>1, <1>2, ModUnique
  <2> QED BY <2>1, <2>2, <1>3 DEF SecOfHour, r, h
<1>4. CASE r # h - 1
  <2>1. t + 1 = h * q + (r + 1)
    BY <1>1, <1>2
  <2>2. (h * q + (r + 1)) % h = r + 1
    BY <1>1, <1>2, <1>4, ModUnique
  <2> QED BY <2>1, <2>2, <1>4 DEF SecOfHour, r, h
<1> QED BY <1>3, <1>4

\* What the builder appends for a node are entries of the execution list.
LEMMA EntriesTypes ==
    ASSUME NEW t \in TASKS, Accepted(t), NEW at \in Nat, NEW k \in Nat
    PROVE  /\ NoOfExec(t, at, k) \in Nat
           /\ EveryHourEntries(t, at, k) \in Seq(EntryType)
           /\ HourEntries(t, at) \in Seq(EntryType)
<1>1. /\ t \in TaskType(Args) /\ t.vpArg \in Args
      /\ t.ui32Interval \in Nat /\ t.sec \in Nat
      /\ NO_SECS_IN_HOUR \in Nat \ {0} /\ UI16_SPAN \in Nat \ {0}
  BY SchedulerAssumption, CalendarAssumption DEF TaskType, Args
<1>2. EndHrInSec(at) \in Nat
  BY <1>1, CalendarTypes DEF EndHrInSec
<1>3. NoOfExec(t, at, k) \in Nat
  <2>1. CASE ~Repeats(t, at)
    BY <2>1 DEF NoOfExec
  <2>2. CASE Repeats(t, at) /\ t.ui32Interval <= NO_SECS_IN_HOUR
    <3>1. t.ui32Interval \in Nat \ {0}
      BY <1>1, <2>2 DEF Accepted, Repeats
    <3>2. NO_SECS_IN_HOUR \div t.ui32Interval \in Nat
      BY <3>1, <1>1
    <3> QED BY <3>2, <2>2 DEF NoOfExec
  <2>3. CASE Repeats(t, at) /\ ~(t.ui32Interval <= NO_SECS_IN_HOUR)
    BY <2>3 DEF NoOfExec
  <2> QED BY <2>1, <2>2, <2>3
<1>4. IntervalInHour(t, at) \in Nat
  <2>1. CASE t.ui32Interval = 0
    BY <2>1, <1>1 DEF IntervalInHour, Accepted, Repeats
  <2>2. CASE t.ui32Interval # 0
    <3>1. EndHrInSec(at) % t.ui32Interval \in Nat
      BY <1>1, <1>2, <2>2
    <3> QED BY <3>1, <1>1 DEF IntervalInHour
  <2> QED BY <2>1, <2>2
<1>5. EveryHourEntries(t, at, k) \in Seq(EntryType)
  <2> DEFINE n == NoOfExec(t, at, k)
             v == IntervalInHour(t, at)
  <2>1. n \in Nat /\ v \in Nat
    BY <1>3, <1>4
  <2> HIDE DEF n, v
  <2>2. \A j \in 1 .. n :
           [vpArg |-> t.vpArg, ui32Interval |-> v * j] \in EntryType
    BY <2>1, <1>1 DEF EntryType
  <2>3. [j \in 1 .. n |-> [vpArg |-> t.vpArg, ui32Interval |-> v * j]]
            \in Seq(EntryType)
    BY <2>1, <2>2
  <2> QED BY <2>3 DEF EveryHourEntries, n, v
<1>6. HourEntries(t, at) \in Seq(EntryType)
  <2> DEFINE e == [vpArg |-> t.vpArg, ui32Interval |-> t.sec]
  <2>1. e \in EntryType
    BY <1>1 DEF EntryType
  <2>2. HourEntries(t, at) = << e >> \/ HourEntries(t, at) = << >>
    BY DEF HourEntries
  <2> HIDE DEF e
  <2>3. << e >> \in Seq(EntryType)
    BY <2>1
  <2>4. << >> \in Seq(EntryType)
    OBVIOUS
  <2> QED BY <2>2, <2>3, <2>4
<1> QED BY <1>3, <1>5, <1>6

-----------------------------------------------------------------------------
(* The memory of the master table.                                         *)

IInv == TypeOK /\ HeapInv

\* A step that leaves the table, and the builder's place in it, alone.
LEMMA HeapFrame ==
    ASSUME HeapInv, UNCHANGED <<tableVars, pTemp>>,
           Building' => Building, pTemp # NULL => Building'
    PROVE  HeapInv'
BY DEF HeapInv, tableVars, Building, Accepted

\* The buckets a task can be put into.
LEMMA BucketType ==
    ASSUME NEW t \in TASKS PROVE Bucket(t) \in Buckets
BY SchedulerAssumption, CalendarAssumption
   DEF Bucket, Buckets, EVERY_HOUR_TASK, TaskType

\* The successor of a node, linked or freed, is a node that has contents.
LEMMA NextNodeType ==
    ASSUME IInv, Building, NEW n \in Nodes
    PROVE  /\ NextNode(n) \in Nodes \cup {NULL}
           /\ NextNode(n) # NULL => task[NextNode(n)] # NULL
<1>1. CASE Linked(n)
  <2> DEFINE b == CHOOSE x \in Buckets :
                      \E j \in DOMAIN table[x] : table[x][j] = n
             i == CHOOSE j \in DOMAIN table[b] : table[b][j] = n
  <2>1. b \in Buckets /\ \E j \in DOMAIN table[b] : table[b][j] = n
    BY <1>1 DEF Linked
  <2>2. i \in DOMAIN table[b]
    BY <2>1
  <2>3. NextNode(n) = Successor(b, i)
    BY <1>1 DEF NextNode
  <2> HIDE DEF b, i
  <2>4. table[b] \in Seq(Nodes)
    BY <2>1 DEF IInv, TypeOK
  <2>5. CASE i = Len(table[b])
    BY <2>3, <2>5 DEF Successor
  <2>6. CASE i # Len(table[b])
    <3>1. i + 1 \in DOMAIN table[b] /\ table[b][i + 1] \in Nodes
      BY <2>2, <2>4, <2>6
    <3> QED BY <3>1, <2>1, <2>3, <2>6 DEF Successor, IInv, HeapInv
  <2> QED BY <2>5, <2>6
<1>2. CASE ~Linked(n)
  BY <1>2 DEF NextNode, IInv, TypeOK, HeapInv
<1> QED BY <1>1, <1>2

\* So is the first node of a bucket.
LEMMA FirstType ==
    ASSUME IInv, NEW b \in Buckets
    PROVE  /\ First(b) \in Nodes \cup {NULL}
           /\ First(b) # NULL => task[First(b)] # NULL
<1>1. table[b] \in Seq(Nodes)
  BY DEF IInv, TypeOK
<1>2. CASE table[b] = << >>
  BY <1>2 DEF First
<1>3. CASE table[b] # << >>
  <2>1. 1 \in DOMAIN table[b] /\ table[b][1] \in Nodes
    BY <1>1, <1>3
  <2> QED BY <2>1, <1>3 DEF First, IInv, HeapInv
<1> QED BY <1>2, <1>3

\* Linking a new node keeps the table's types and its memory.
LEMMA LinkStep ==
    ASSUME IInv, NEW n \in Nodes, NEW t \in TASKS, ValidateTask(t, now),
           Link(n, t), UNCHANGED <<pTemp, pc>>
    PROVE  /\ table' \in [Buckets -> Seq(Nodes)]
           /\ task' \in [Nodes -> TASKS \cup {NULL}]
           /\ freedNext' \in [Nodes -> Nodes \cup {NULL}]
           /\ gbTaskChanged' \in BOOLEAN
           /\ HeapInv'
<1> DEFINE k == Bucket(t)
<1>1. k \in Buckets
  BY BucketType
<1>2. /\ table \in [Buckets -> Seq(Nodes)] /\ task \in [Nodes -> TASKS \cup {NULL}]
      /\ freedNext \in [Nodes -> Nodes \cup {NULL}]
  BY DEF IInv, TypeOK
<1>3. /\ table' = [table EXCEPT ![k] = Append(table[k], n)]
      /\ task' = [task EXCEPT ![n] = t] /\ gbTaskChanged' = TRUE
      /\ freedNext' = freedNext /\ ~Linked(n)
  BY DEF Link
<1> HIDE DEF k
<1>4. \A b \in Buckets : \A i \in DOMAIN table[b] : table[b][i] # n
  BY <1>3 DEF Linked
<1>5. /\ table' \in [Buckets -> Seq(Nodes)] /\ task' \in [Nodes -> TASKS \cup {NULL}]
  BY <1>1, <1>2, <1>3
<1>6. t # NULL /\ Accepted(t)
  BY SchedulerAssumption DEF ValidateTask, Accepted
<1>7. \A b \in Buckets : \A i \in DOMAIN table'[b] :
          \/ b = k /\ i = Len(table[k]) + 1 /\ table'[b][i] = n
          \/ i \in DOMAIN table[b] /\ table'[b][i] = table[b][i]
  BY <1>1, <1>2, <1>3
<1>8. \A b, d \in Buckets : \A i \in DOMAIN table'[b], j \in DOMAIN table'[d] :
          table'[b][i] = table'[d][j] => b = d /\ i = j
  BY <1>4, <1>7 DEF IInv, HeapInv
<1>9. \A b \in Buckets : \A i \in DOMAIN table'[b] : task'[table'[b][i]] # NULL
  BY <1>2, <1>3, <1>5, <1>6, <1>7 DEF IInv, HeapInv
<1>10. \A m \in Nodes : task'[m] # NULL => Accepted(task'[m])
  BY <1>2, <1>3, <1>6 DEF IInv, HeapInv
<1>11. pTemp' # NULL => Building' /\ task'[pTemp'] # NULL
  BY <1>2, <1>3, <1>6 DEF IInv, HeapInv, Building, TypeOK
<1>12. Building' => \A m \in Nodes :
                       freedNext'[m] # NULL => task'[freedNext'[m]] # NULL
  BY <1>2, <1>3, <1>6 DEF IInv, HeapInv, Building
<1> QED BY <1>2, <1>3, <1>5, <1>8, <1>9, <1>10, <1>11, <1>12 DEF HeapInv

\* So does freeing one.
LEMMA FreeStep ==
    ASSUME IInv, NEW b \in Buckets, NEW i \in DOMAIN table[b],
           Free(b, i), UNCHANGED <<pTemp, pc>>
    PROVE  /\ table' \in [Buckets -> Seq(Nodes)]
           /\ task' \in [Nodes -> TASKS \cup {NULL}]
           /\ freedNext' \in [Nodes -> Nodes \cup {NULL}]
           /\ HeapInv'
<1> DEFINE n == table[b][i]
           s == table[b]
<1>1. /\ table \in [Buckets -> Seq(Nodes)] /\ task \in [Nodes -> TASKS \cup {NULL}]
      /\ freedNext \in [Nodes -> Nodes \cup {NULL}]
      /\ s \in Seq(Nodes) /\ n \in Nodes
  BY DEF IInv, TypeOK
<1>2. Unlink(s, i) \in Seq(Nodes) /\ Len(Unlink(s, i)) = Len(s) - 1
  BY <1>1 DEF Unlink
<1>3. table' = [table EXCEPT ![b] = Unlink(s, i)]
  BY DEF Free
<1>4. table' \in [Buckets -> Seq(Nodes)]
  BY <1>1, <1>2, <1>3
<1>5. \A d \in Buckets : \A j \in DOMAIN table'[d] :
          LET o == IF d = b /\ j >= i THEN j + 1 ELSE j
          IN  o \in DOMAIN table[d] /\ table'[d][j] = table[d][o]
  BY <1>1, <1>2, <1>3 DEF Unlink
<1>6. \A d \in Buckets : \A j \in DOMAIN table'[d] : table'[d][j] # n
  <2> SUFFICES ASSUME NEW d \in Buckets, NEW j \in DOMAIN table'[d],
                      table'[d][j] = n
               PROVE  FALSE
    OBVIOUS
  <2> DEFINE o == IF d = b /\ j >= i THEN j + 1 ELSE j
  <2>1. o \in DOMAIN table[d] /\ table[d][o] = n
    BY <1>5
  <2>2. d = b /\ o = i
    BY <2>1 DEF IInv, HeapInv
  <2> QED BY <2>2, <1>1, <1>4
<1>7. \A d, e \in Buckets : \A j \in DOMAIN table'[d], k \in DOMAIN table'[e] :
          table'[d][j] = table'[e][k] => d = e /\ j = k
  <2> SUFFICES ASSUME NEW d \in Buckets, NEW e \in Buckets,
                      NEW j \in DOMAIN table'[d], NEW k \in DOMAIN table'[e],
                      table'[d][j] = table'[e][k]
               PROVE  d = e /\ j = k
    OBVIOUS
  <2> DEFINE o == IF d = b /\ j >= i THEN j + 1 ELSE j
             p == IF e = b /\ k >= i THEN k + 1 ELSE k
  <2>1. /\ o \in DOMAIN table[d] /\ table'[d][j] = table[d][o]
        /\ p \in DOMAIN table[e] /\ table'[e][k] = table[e][p]
    BY <1>5
  <2>2. d = e /\ o = p
    <3> HIDE DEF o, p
    <3>1. table[d][o] = table[e][p]
      BY <2>1
    <3> QED BY <2>1, <3>1 DEF IInv, HeapInv
  <2>3. j \in Nat /\ k \in Nat /\ i \in Nat
    BY <1>1, <1>4
  <2> QED BY <2>2, <2>3
<1>8. CASE ~Building
  <2>1. task' = [task EXCEPT ![n] = NULL] /\ freedNext' = freedNext
    BY <1>8 DEF Free
  <2>2. \A d \in Buckets : \A j \in DOMAIN table'[d] : task'[table'[d][j]] # NULL
    BY <2>1, <1>1, <1>4, <1>5, <1>6 DEF IInv, HeapInv
  <2>3. \A m \in Nodes : task'[m] # NULL => Accepted(task'[m])
    BY <2>1, <1>1 DEF IInv, HeapInv
  <2>4. ~Building' /\ pTemp' = NULL
    BY <1>8 DEF IInv, HeapInv, Building
  <2> QED BY <2>1, <2>2, <2>3, <2>4, <1>1, <1>4, <1>7 DEF HeapInv
<1>9. CASE Building
  <2>1. task' = task /\ freedNext' = [freedNext EXCEPT ![n] = Successor(b, i)]
    BY <1>9 DEF Free
  <2>2. /\ Successor(b, i) \in Nodes \cup {NULL}
        /\ Successor(b, i) # NULL => task[Successor(b, i)] # NULL
    BY <1>1 DEF Successor, IInv, HeapInv
  <2>3. \A d \in Buckets : \A j \in DOMAIN table'[d] : task'[table'[d][j]] # NULL
    BY <2>1, <1>5 DEF IInv, HeapInv
  <2>4. freedNext' \in [Nodes -> Nodes \cup {NULL}]
    BY <2>1, <2>2, <1>1
  <2>5. \A m \in Nodes : freedNext'[m] # NULL => task'[freedNext'[m]] # NULL
    BY <2>1, <2>2, <1>1, <1>9 DEF IInv, HeapInv
  <2>6. pTemp' # NULL => Building' /\ task'[pTemp'] # NULL
    BY <2>1, <1>9 DEF IInv, HeapInv, Building
  <2>7. \A m \in Nodes : task'[m] # NULL => Accepted(task'[m])
    BY <2>1 DEF IInv, HeapInv
  <2> QED BY <2>1, <2>3, <2>4, <2>5, <2>6, <2>7, <1>1, <1>4, <1>7 DEF HeapInv
<1> QED BY <1>8, <1>9

-----------------------------------------------------------------------------
(* Type correctness.                                                       *)

LEMMA InitIInv == Init => IInv
<1> SUFFICES ASSUME Init PROVE IInv
  OBVIOUS
<1>1. table \in [Buckets -> Seq(Nodes)]
  BY DEF Init
<1>2. /\ now \in Nat /\ lag \in 0 .. MaxLag /\ wake \in Nat /\ pCurrTime \in Nat
      /\ buildTime \in Nat /\ bucket \in Buckets
  BY SchedulerAssumption, CalendarAssumption DEF Init, Buckets, EVERY_HOUR_TASK
<1>3. ran \in CallRecord
  BY DEF Init, NoCall, CallRecord
<1>4. execList \in Seq(EntryType)
  BY DEF Init
<1>5. /\ task \in [Nodes -> TASKS \cup {NULL}]
      /\ freedNext \in [Nodes -> Nodes \cup {NULL}]
      /\ client \in [Clients -> {"idle", "modify", "join"}]
      /\ newTask \in [Clients -> TASKS \cup {NULL}]
      /\ \A c \in Clients : client[c] = "modify" => newTask[c] \in TASKS
  BY DEF Init
<1>6. TypeOK
  BY <1>1, <1>2, <1>3, <1>4, <1>5 DEF Init, TypeOK, Labels
<1>7. HeapInv
  BY DEF Init, HeapInv, Building
<1> QED BY <1>6, <1>7 DEF IInv

\* The steps of the clients.
LEMMA ClientIInv ==
    ASSUME IInv, ClientStep
    PROVE  IInv'
<1> USE DEF IInv
<1>1. PICK c \in Clients :
        \/ \E n \in Nodes, t \in TASKS : SCH_AddTask(c, n, t)
        \/ \E b \in Buckets : \E i \in DOMAIN table[b] :
              \/ SCH_DeleteTask(c, b, i)
              \/ \E t \in TASKS : SCH_ModifyTask(c, b, i, t)
        \/ \E n \in Nodes : ModifyAdds(c, n)
        \/ ModifyFails(c)
        \/ SCH_StopScheduler(c)
        \/ WaitForScheduler(c)
  BY DEF ClientStep
<1>2. CASE \E n \in Nodes, t \in TASKS : SCH_AddTask(c, n, t)
  <2>1. PICK n \in Nodes, t \in TASKS : SCH_AddTask(c, n, t)
    BY <1>2
  <2>2. ValidateTask(t, now) /\ Link(n, t) /\ UNCHANGED <<pTemp, pc>>
    BY <2>1 DEF SCH_AddTask, buildVars
  <2>3. /\ table' \in [Buckets -> Seq(Nodes)]
        /\ task' \in [Nodes -> TASKS \cup {NULL}]
        /\ freedNext' \in [Nodes -> Nodes \cup {NULL}]
        /\ gbTaskChanged' \in BOOLEAN
        /\ HeapInv'
    BY <2>2, LinkStep
  <2>4. TypeOK'
    BY <2>1, <2>3 DEF TypeOK, SCH_AddTask, clockVars, sleepVars, localVars,
                      buildVars, clientVars
  <2> QED BY <2>3, <2>4
<1>3. CASE \E b \in Buckets : \E i \in DOMAIN table[b] : SCH_DeleteTask(c, b, i)
  <2> PICK b \in Buckets : \E i \in DOMAIN table[b] : SCH_DeleteTask(c, b, i)
    BY <1>3
  <2>1. PICK i \in DOMAIN table[b] : SCH_DeleteTask(c, b, i)
    OBVIOUS
  <2>2. Free(b, i) /\ UNCHANGED <<pTemp, pc>>
    BY <2>1 DEF SCH_DeleteTask, buildVars
  <2>3. /\ table' \in [Buckets -> Seq(Nodes)]
        /\ task' \in [Nodes -> TASKS \cup {NULL}]
        /\ freedNext' \in [Nodes -> Nodes \cup {NULL}]
        /\ HeapInv'
    BY <2>2, FreeStep
  <2>4. TypeOK'
    BY <2>1, <2>3 DEF TypeOK, SCH_DeleteTask, clockVars, flagVars, sleepVars,
                      localVars, buildVars, clientVars
  <2> QED BY <2>3, <2>4
<1>4. CASE \E b \in Buckets : \E i \in DOMAIN table[b] :
              \E t \in TASKS : SCH_ModifyTask(c, b, i, t)
  <2> PICK b \in Buckets : \E i \in DOMAIN table[b] :
                               \E t \in TASKS : SCH_ModifyTask(c, b, i, t)
    BY <1>4
  <2> PICK i \in DOMAIN table[b] : \E t \in TASKS : SCH_ModifyTask(c, b, i, t)
    OBVIOUS
  <2>1. PICK t \in TASKS : SCH_ModifyTask(c, b, i, t)
    OBVIOUS
  <2>2. Free(b, i) /\ UNCHANGED <<pTemp, pc>>
    BY <2>1 DEF SCH_ModifyTask, buildVars
  <2>3. /\ table' \in [Buckets -> Seq(Nodes)]
        /\ task' \in [Nodes -> TASKS \cup {NULL}]
        /\ freedNext' \in [Nodes -> Nodes \cup {NULL}]
        /\ HeapInv'
    BY <2>2, FreeStep
  <2>4. /\ client' \in [Clients -> {"idle", "modify", "join"}]
        /\ newTask' \in [Clients -> TASKS \cup {NULL}]
        /\ \A d \in Clients : client'[d] = "modify" => newTask'[d] \in TASKS
    BY <2>1 DEF TypeOK, SCH_ModifyTask
  <2>5. TypeOK'
    BY <2>1, <2>3, <2>4 DEF TypeOK, SCH_ModifyTask, clockVars, flagVars,
                            sleepVars, localVars, buildVars
  <2> QED BY <2>3, <2>5
<1>5. CASE \E n \in Nodes : ModifyAdds(c, n)
  <2>1. PICK n \in Nodes : ModifyAdds(c, n)
    BY <1>5
  <2>2. /\ newTask[c] \in TASKS /\ ValidateTask(newTask[c], now)
        /\ Link(n, newTask[c]) /\ UNCHANGED <<pTemp, pc>>
    BY <2>1 DEF ModifyAdds, buildVars, TypeOK
  <2>3. /\ table' \in [Buckets -> Seq(Nodes)]
        /\ task' \in [Nodes -> TASKS \cup {NULL}]
        /\ freedNext' \in [Nodes -> Nodes \cup {NULL}]
        /\ gbTaskChanged' \in BOOLEAN
        /\ HeapInv'
    BY <2>2, LinkStep
  <2>4. /\ client' \in [Clients -> {"idle", "modify", "join"}]
        /\ newTask' \in [Clients -> TASKS \cup {NULL}]
        /\ \A d \in Clients : client'[d] = "modify" => newTask'[d] \in TASKS
    BY <2>1 DEF TypeOK, ModifyAdds
  <2>5. TypeOK'
    BY <2>1, <2>3, <2>4 DEF TypeOK, ModifyAdds, clockVars, sleepVars,
                            localVars, buildVars
  <2> QED BY <2>3, <2>5
<1>6. CASE ModifyFails(c) \/ SCH_StopScheduler(c) \/ WaitForScheduler(c)
  <2>1. HeapInv'
    BY <1>6, HeapFrame DEF ModifyFails, SCH_StopScheduler, WaitForScheduler,
                           buildVars, Building, HeapInv
  <2>2. /\ client' \in [Clients -> {"idle", "modify", "join"}]
        /\ newTask' \in [Clients -> TASKS \cup {NULL}]
        /\ \A d \in Clients : client'[d] = "modify" => newTask'[d] \in TASKS
    BY <1>6 DEF TypeOK, ModifyFails, SCH_StopScheduler, WaitForScheduler
  <2>3. TypeOK'
    BY <1>6, <2>2 DEF TypeOK, ModifyFails, SCH_StopScheduler, WaitForScheduler,
                      clockVars, tableVars, flagVars, sleepVars, localVars,
                      buildVars
  <2> QED BY <2>1, <2>3
<1> QED BY <1>1, <1>2, <1>3, <1>4, <1>5, <1>6

\* The list the execution loop works on, and a call it makes.
LEMMA CallType ==
    ASSUME TypeOK, execList # << >>
    PROVE  /\ Tail(execList) \in Seq(EntryType)
           /\ Due \in Nat
           /\ Call(Head(execList)) \in CallRecord
<1>1. execList \in Seq(EntryType) /\ now \in Nat
  BY DEF TypeOK
<1>2. Head(execList) \in EntryType /\ Tail(execList) \in Seq(EntryType)
  BY <1>1
<1>3. Due \in Nat /\ Head(execList).vpArg \in Args
  BY <1>2 DEF Due, EntryType
<1>4. (~ran.turn) \in BOOLEAN
  OBVIOUS
<1>5. Call(Head(execList)) \in CallRecord
  BY <1>1, <1>3, <1>4 DEF Call, CallRecord
<1> QED BY <1>2, <1>3, <1>5

\* The argument of SLEEP is an unsigned number.
LEMMA SleepArgumentType ==
    ASSUME NEW d \in Nat, NEW x \in Nat
    PROVE  SleepArgument(d, x) \in Nat
<1>1. UI32_SPAN \in Nat \ {0} /\ CHECK_STATUS_TIME \in Nat
  BY SchedulerAssumption, CalendarAssumption DEF NO_SECS_IN_DAY
<1>2. SleepTime(d, x) \in Nat
  BY <1>1 DEF SleepTime
<1>3. (SleepTime(d, x) - 1) % UI32_SPAN \in Nat
  BY <1>1, <1>2
<1> QED BY <1>1, <1>2, <1>3 DEF SleepArgument

\* A sleep is only computed for an entry of the list.
LEMMA CalcStep ==
    ASSUME TypeOK, CalcInv, [Next]_vars
    PROVE  CalcInv'
<1>1. CASE NothingDue
  BY <1>1 DEF NothingDue, InLoop, CalcInv
<1>2. CASE ClientStep
  BY <1>2 DEF ClientStep, SCH_AddTask, SCH_DeleteTask, SCH_ModifyTask,
              ModifyAdds, ModifyFails, SCH_StopScheduler, WaitForScheduler,
              CalcInv
<1>3. CASE Tick \/ UNCHANGED vars
  BY <1>3 DEF Tick, vars, CalcInv
<1>4. CASE SchedulerStep /\ pc' # "calc"
  BY <1>4 DEF CalcInv
<1>5. SchedulerStep /\ pc' = "calc" => NothingDue \/ Wake
  BY DEF SchedulerStep, GoTo, Sleep, Top, ClearMasterTable, HourlyCheck,
         Recheck, AutoCleanStarts, AutoCleanRemoves, AutoCleanAdvances,
         BuildStarts, VisitEveryHour, VisitThisHour, ResetFlags, SortStarts,
         SortSwaps, SortEnds, LoopEnds, LoopStops, SkipTask, RunTask,
         RunTaskAtEndOfHour, SleepTillNextTask, Woken, UnlockForSafety
<1>6. CASE Wake /\ pc' = "calc"
  BY <1>6 DEF Wake, TypeOK
<1> QED BY <1>1, <1>2, <1>3, <1>4, <1>5, <1>6 DEF Next

\* The steps of the scheduler thread.
LEMMA SchedulerIInv ==
    ASSUME IInv, CalcInv, SchedulerStep
    PROVE  IInv'
<1> USE DEF IInv
<1>0. CASE Wake
  <2>1. HeapInv'
    BY <1>0, HeapFrame DEF Wake, buildVars, Building, HeapInv, TypeOK
  <2>2. pc' \in Labels /\ wake' \in Nat
    BY <1>0 DEF Wake, TypeOK, Labels
  <2>3. TypeOK'
    BY <1>0, <2>2 DEF TypeOK, Wake, clockVars, tableVars, flagVars, localVars,
                      buildVars, clientVars
  <2> QED BY <2>1, <2>3
<1>1. CASE LoopEnds \/ LoopStops \/ Woken \/ UnlockForSafety
  <2>1. HeapInv'
    BY <1>1, HeapFrame
       DEF LoopEnds, LoopStops, Woken, UnlockForSafety, GoTo, buildVars,
           Building, HeapInv
  <2>2. TypeOK'
    BY <1>1 DEF TypeOK, Labels, LoopEnds, LoopStops, Woken,
                UnlockForSafety, GoTo, clockVars, tableVars, flagVars,
                sleepVars, localVars, buildVars, clientVars
  <2> QED BY <2>1, <2>2
<1>2. CASE Top
  <2>1. HeapInv'
    BY <1>2, HeapFrame DEF Top, GoTo, buildVars, Building, HeapInv
  <2>2. execList \in Seq(EntryType) /\ << >> \in Seq(EntryType)
    BY DEF TypeOK
  <2>3. execList' \in Seq(EntryType)
    BY <1>2, <2>2 DEF Top
  <2>4. TypeOK'
    BY <1>2, <2>3 DEF TypeOK, Labels, Top, GoTo, clockVars, tableVars,
                      sleepVars, buildVars, clientVars
  <2> QED BY <2>1, <2>4
<1>3. CASE ClearMasterTable
  <2>1. /\ table' = [b \in Buckets |-> << >>]
        /\ table' \in [Buckets -> Seq(Nodes)]
        /\ task' \in [Nodes -> TASKS \cup {NULL}]
    BY <1>3 DEF ClearMasterTable
  <2>2. ~Building' /\ pTemp' = NULL
    BY <1>3 DEF ClearMasterTable, GoTo, Building, HeapInv, buildVars
  <2>3. HeapInv'
    <3>1. \A b \in Buckets : DOMAIN table'[b] = {}
      BY <2>1
    <3>2. \A n \in Nodes : task'[n] = NULL
      BY <1>3 DEF ClearMasterTable
    <3> QED BY <3>1, <3>2, <2>2 DEF HeapInv
  <2>4. TypeOK'
    BY <1>3, <2>1 DEF TypeOK, Labels, ClearMasterTable, GoTo, clockVars,
                      flagVars, sleepVars, localVars, buildVars, clientVars
  <2> QED BY <2>3, <2>4
<1>4. CASE HourlyCheck
  <2>1. HeapInv'
    BY <1>4, HeapFrame DEF HourlyCheck, Sleep, GoTo, buildVars, Building, HeapInv
  <2>2. NO_SECS_IN_HOUR - SecOfHour(pCurrTime) \in Nat
    <3>1. pCurrTime \in Nat
      BY DEF TypeOK
    <3>2. SecOfHour(pCurrTime) \in 0 .. NO_SECS_IN_HOUR - 1
      BY <3>1, CalendarTypes
    <3> QED BY <3>2, CalendarAssumption
  <2>3. now' \in Nat /\ lag' \in 0 .. MaxLag /\ wake' \in Nat
    BY <1>4, <2>2, SchedulerAssumption
       DEF HourlyCheck, Sleep, GoTo, TypeOK, clockVars, sleepVars
  <2>4. TypeOK'
    BY <1>4, <2>3 DEF TypeOK, Labels, HourlyCheck, Sleep, GoTo, tableVars,
                      flagVars, sleepVars, buildVars, clientVars
  <2> QED BY <2>1, <2>4
<1>5. CASE Recheck
  <2>1. HeapInv'
    BY <1>5, HeapFrame DEF Recheck, Sleep, GoTo, buildVars, Building, HeapInv
  <2>2. now' \in Nat /\ lag' \in 0 .. MaxLag /\ wake' \in Nat
    BY <1>5, SchedulerAssumption
       DEF Recheck, Sleep, GoTo, TypeOK, clockVars, sleepVars
  <2>3. TypeOK'
    BY <1>5, <2>2 DEF TypeOK, Labels, Recheck, Sleep, GoTo, tableVars, flagVars,
                      sleepVars, localVars, buildVars, clientVars
  <2> QED BY <2>1, <2>3
<1>6. CASE AutoCleanStarts
  <2>1. HeapInv'
    BY <1>6, HeapFrame DEF AutoCleanStarts, GoTo, buildVars, Building, HeapInv
  <2>2. 0 \in Buckets
    BY CalendarAssumption DEF Buckets, EVERY_HOUR_TASK
  <2>3. TypeOK'
    BY <1>6, <2>2 DEF TypeOK, Labels, AutoCleanStarts, GoTo, clockVars,
                      tableVars, flagVars, sleepVars, localVars, buildVars,
                      clientVars
  <2> QED BY <2>1, <2>3
<1>7. CASE AutoCleanRemoves
  <2>1. PICK i \in DOMAIN table[bucket] : Free(bucket, i)
    BY <1>7 DEF AutoCleanRemoves
  <2>2. bucket \in Buckets /\ UNCHANGED <<pTemp, pc>>
    BY <1>7 DEF AutoCleanRemoves, GoTo, buildVars, TypeOK
  <2>3. /\ table' \in [Buckets -> Seq(Nodes)]
        /\ task' \in [Nodes -> TASKS \cup {NULL}]
        /\ freedNext' \in [Nodes -> Nodes \cup {NULL}]
        /\ HeapInv'
    BY <2>1, <2>2, FreeStep
  <2>4. TypeOK'
    BY <1>7, <2>3 DEF TypeOK, AutoCleanRemoves, GoTo, clockVars, flagVars,
                      sleepVars, localVars, buildVars, clientVars
  <2> QED BY <2>3, <2>4
<1>8. CASE AutoCleanAdvances
  <2>1. HeapInv'
    BY <1>8, HeapFrame DEF AutoCleanAdvances, GoTo, buildVars, Building, HeapInv
  <2>2. bucket' \in Buckets
    BY <1>8, CalendarAssumption
       DEF AutoCleanAdvances, LastBucket, Buckets, EVERY_HOUR_TASK, TypeOK
  <2>3. TypeOK'
    BY <1>8, <2>2 DEF TypeOK, Labels, AutoCleanAdvances, GoTo, clockVars,
                      tableVars, flagVars, sleepVars, localVars, buildVars,
                      clientVars
  <2> QED BY <2>1, <2>3
<1>9. CASE BuildStarts
  <2>1. EVERY_HOUR_TASK \in Buckets
    BY CalendarAssumption DEF Buckets, EVERY_HOUR_TASK
  <2>2. /\ pTemp' \in Nodes \cup {NULL}
        /\ pTemp' # NULL => task[pTemp'] # NULL
    BY <1>9, <2>1, FirstType DEF BuildStarts
  <2>3. /\ freedNext' \in [Nodes -> Nodes \cup {NULL}]
        /\ \A n \in Nodes : freedNext'[n] = NULL
        /\ execList' \in Seq(EntryType)
    BY <1>9 DEF BuildStarts
  <2>4. HeapInv'
    BY <1>9, <2>2, <2>3 DEF BuildStarts, GoTo, HeapInv, Building, Accepted
  <2>5. TypeOK'
    BY <1>9, <2>2, <2>3 DEF TypeOK, Labels, BuildStarts, GoTo, clockVars,
                            flagVars, sleepVars, localVars, clientVars
  <2> QED BY <2>4, <2>5
<1>10. CASE VisitEveryHour
  <2>1. Building /\ Building'
    BY <1>10 DEF VisitEveryHour, GoTo, Building
  <2>2. /\ pTemp' \in Nodes \cup {NULL}
        /\ pTemp' # NULL => task[pTemp'] # NULL
        /\ execList' \in Seq(EntryType)
        /\ ui32NoOfExec' \in Nat
    <3>1. CASE pTemp = NULL
      <4>1. Hour(buildTime) \in Buckets
        <5>1. buildTime \in Nat
          BY DEF TypeOK
        <5>2. Hour(buildTime) \in 0 .. NO_HOUR_IN_DAY - 1
          BY <5>1, CalendarTypes
        <5> QED BY <5>2, CalendarAssumption DEF Buckets, EVERY_HOUR_TASK
      <4> QED BY <4>1, <3>1, <1>10, FirstType DEF VisitEveryHour, TypeOK
    <3>2. CASE pTemp # NULL
      <4>1. pTemp \in Nodes /\ task[pTemp] \in TASKS /\ Accepted(task[pTemp])
        BY <3>2 DEF TypeOK, HeapInv
      <4>2. buildTime \in Nat /\ ui32NoOfExec \in Nat /\ execList \in Seq(EntryType)
        BY DEF TypeOK
      <4>3. /\ NoOfExec(task[pTemp], buildTime, ui32NoOfExec) \in Nat
            /\ EveryHourEntries(task[pTemp], buildTime, ui32NoOfExec)
                  \in Seq(EntryType)
        BY <4>1, <4>2, EntriesTypes
      <4>4. /\ NextNode(pTemp) \in Nodes \cup {NULL}
            /\ NextNode(pTemp) # NULL => task[NextNode(pTemp)] # NULL
        BY <4>1, <2>1, NextNodeType
      <4>5. /\ execList' = execList \o
                  EveryHourEntries(task[pTemp], buildTime, ui32NoOfExec)
            /\ ui32NoOfExec' = NoOfExec(task[pTemp], buildTime, ui32NoOfExec)
            /\ pTemp' = NextNode(pTemp)
        BY <3>2, <1>10 DEF VisitEveryHour
      <4>6. execList' \in Seq(EntryType)
        BY <4>2, <4>3, <4>5
      <4> QED BY <4>3, <4>4, <4>5, <4>6
    <3> QED BY <3>1, <3>2
  <2>3. HeapInv'
    BY <1>10, <2>1, <2>2 DEF VisitEveryHour, HeapInv, tableVars, Accepted
  <2>4. TypeOK'
    BY <1>10, <2>2 DEF TypeOK, Labels, VisitEveryHour, GoTo, clockVars,
                       tableVars, flagVars, sleepVars, localVars, clientVars
  <2> QED BY <2>3, <2>4
<1>11. CASE VisitThisHour
  <2>1. CASE pTemp = NULL
    <3>1. HeapInv'
      BY <1>11, <2>1, HeapFrame DEF VisitThisHour, GoTo, Building
    <3>2. TypeOK'
      BY <1>11, <2>1 DEF TypeOK, Labels, VisitThisHour, GoTo, clockVars,
                         tableVars, flagVars, sleepVars, localVars, clientVars
    <3> QED BY <3>1, <3>2
  <2>2. CASE pTemp # NULL
    <3>1. pTemp \in Nodes /\ task[pTemp] \in TASKS /\ Accepted(task[pTemp])
      BY <2>2 DEF TypeOK, HeapInv
    <3>2. buildTime \in Nat /\ execList \in Seq(EntryType)
      BY DEF TypeOK
    <3>3. HourEntries(task[pTemp], buildTime) \in Seq(EntryType)
      BY <3>1, <3>2, EntriesTypes
    <3>4. Building /\ Building'
      BY <1>11, <2>2 DEF VisitThisHour, GoTo, Building
    <3>5. /\ NextNode(pTemp) \in Nodes \cup {NULL}
          /\ NextNode(pTemp) # NULL => task[NextNode(pTemp)] # NULL
      BY <3>1, <3>4, NextNodeType
    <3>6. /\ execList' = execList \o HourEntries(task[pTemp], buildTime)
          /\ pTemp' = NextNode(pTemp)
      BY <2>2, <1>11 DEF VisitThisHour
    <3>7. execList' \in Seq(EntryType)
      BY <3>2, <3>3, <3>6
    <3>8. HeapInv'
      BY <1>11, <3>4, <3>5, <3>6 DEF VisitThisHour, HeapInv, tableVars, Accepted
    <3>9. TypeOK'
      BY <1>11, <2>2, <3>5, <3>6, <3>7
         DEF TypeOK, Labels, VisitThisHour, GoTo, clockVars, tableVars,
             flagVars, sleepVars, localVars, clientVars
    <3> QED BY <3>8, <3>9
  <2> QED BY <2>1, <2>2
<1>12. CASE ResetFlags \/ SortStarts \/ NothingDue
  <2>1. HeapInv'
    BY <1>12, HeapFrame DEF ResetFlags, SortStarts, NothingDue, InLoop, GoTo,
                            buildVars, Building, HeapInv
  <2>2. TypeOK'
    BY <1>12 DEF TypeOK, Labels, ResetFlags, SortStarts, NothingDue, InLoop,
                 GoTo, clockVars, tableVars, flagVars, sleepVars, localVars,
                 buildVars, clientVars
  <2> QED BY <2>1, <2>2
<1>13. CASE SortSwaps
  <2>1. HeapInv'
    BY <1>13, HeapFrame DEF SortSwaps, GoTo, buildVars, Building, HeapInv
  <2>2. execList' \in Seq(EntryType)
    <3>1. PICK i \in 1 .. Len(execList) - 1 :
              execList' = [execList EXCEPT ![i] = execList[i + 1],
                                           ![i + 1] = execList[i]]
      BY <1>13 DEF SortSwaps
    <3>2. execList \in Seq(EntryType)
      BY DEF TypeOK
    <3>3. /\ i \in DOMAIN execList /\ i + 1 \in DOMAIN execList
          /\ execList[i] \in EntryType /\ execList[i + 1] \in EntryType
      BY <3>1, <3>2
    <3> QED BY <3>1, <3>2, <3>3
  <2>3. TypeOK'
    BY <1>13, <2>2 DEF TypeOK, Labels, SortSwaps, GoTo, clockVars, tableVars,
                       flagVars, sleepVars, localVars, buildVars, clientVars
  <2> QED BY <2>1, <2>3
<1>14. CASE SortEnds
  <2>1. HeapInv'
    BY <1>14, HeapFrame DEF SortEnds, Sleep, GoTo, buildVars, Building, HeapInv
  <2>2. now' \in Nat /\ lag' \in 0 .. MaxLag /\ wake' \in Nat
    BY <1>14, SchedulerAssumption
       DEF SortEnds, Sleep, GoTo, TypeOK, clockVars, sleepVars
  <2>3. TypeOK'
    BY <1>14, <2>2 DEF TypeOK, Labels, SortEnds, Sleep, GoTo, tableVars,
                       flagVars, sleepVars, localVars, buildVars, clientVars
  <2> QED BY <2>1, <2>3
<1>15. CASE SkipTask \/ RunTask
  <2>1. HeapInv'
    BY <1>15, HeapFrame DEF SkipTask, RunTask, InLoop, GoTo, buildVars,
                            Building, HeapInv
  <2>2. execList' \in Seq(EntryType) /\ ran' \in CallRecord
    BY <1>15, CallType DEF SkipTask, RunTask, InLoop, TypeOK
  <2>3. TypeOK'
    BY <1>15, <2>2 DEF TypeOK, Labels, SkipTask, RunTask, InLoop, GoTo,
                       clockVars, tableVars, flagVars, sleepVars, localVars,
                       buildVars, clientVars
  <2> QED BY <2>1, <2>3
<1>16. CASE RunTaskAtEndOfHour
  <2>1. HeapInv'
    BY <1>16, HeapFrame DEF RunTaskAtEndOfHour, InLoop, Sleep, GoTo, buildVars,
                            Building, HeapInv
  <2>2. execList' \in Seq(EntryType) /\ ran' \in CallRecord
    BY <1>16, CallType DEF RunTaskAtEndOfHour, InLoop, TypeOK
  <2>3. now' \in Nat /\ lag' \in 0 .. MaxLag /\ wake' \in Nat
    BY <1>16, SchedulerAssumption
       DEF RunTaskAtEndOfHour, Sleep, GoTo, TypeOK, clockVars, sleepVars
  <2>4. TypeOK'
    BY <1>16, <2>2, <2>3 DEF TypeOK, Labels, RunTaskAtEndOfHour, InLoop, Sleep,
                             GoTo, tableVars, flagVars, sleepVars, localVars,
                             buildVars, clientVars
  <2> QED BY <2>1, <2>4
<1>17. CASE SleepTillNextTask
  <2>1. HeapInv'
    BY <1>17, HeapFrame DEF SleepTillNextTask, Sleep, buildVars, Building, HeapInv
  <2>2. SleepArgument(Due, SecOfHour(now)) \in Nat
    <3>1. Due \in Nat
      BY <1>17, CallType DEF SleepTillNextTask, CalcInv
    <3>2. now \in Nat
      BY DEF TypeOK
    <3>3. SecOfHour(now) \in Nat
      BY <3>2, CalendarTypes, CalendarAssumption
    <3> QED BY <3>1, <3>3, SleepArgumentType
  <2>3. now' \in Nat /\ lag' \in 0 .. MaxLag /\ wake' \in Nat
    BY <1>17, <2>2, SchedulerAssumption DEF SleepTillNextTask, Sleep, TypeOK
  <2>4. TypeOK'
    BY <1>17, <2>3 DEF TypeOK, Labels, SleepTillNextTask, Sleep, tableVars,
                       flagVars, localVars, buildVars, clientVars
  <2> QED BY <2>1, <2>4
<1> QED
  BY <1>0, <1>1, <1>2, <1>3, <1>4, <1>5, <1>6, <1>7, <1>8, <1>9, <1>10, <1>11,
     <1>12, <1>13, <1>14, <1>15, <1>16, <1>17 DEF SchedulerStep

\* A tick of the clock.
LEMMA TickIInv ==
    ASSUME IInv, Tick
    PROVE  IInv'
<1>1. now' \in Nat /\ lag' \in 0 .. MaxLag
  BY SchedulerAssumption DEF Tick, IInv, TypeOK
<1>2. TypeOK'
  BY <1>1 DEF IInv, Tick, TypeOK, tableVars, flagVars, sleepVars, localVars,
              buildVars, clientVars
<1>3. HeapInv'
  BY HeapFrame DEF IInv, Tick, buildVars, Building, HeapInv
<1> QED BY <1>2, <1>3 DEF IInv

LEMMA NextIInv ==
    ASSUME IInv, CalcInv, [Next]_vars
    PROVE  IInv'
<1>1. CASE UNCHANGED vars
  <2>1. HeapInv'
    BY <1>1, HeapFrame DEF IInv, vars, buildVars, Building, HeapInv
  <2>2. TypeOK'
    BY <1>1 DEF IInv, vars, TypeOK, clockVars, tableVars, flagVars, sleepVars,
                localVars, buildVars, clientVars
  <2> QED BY <2>1, <2>2 DEF IInv
<1> QED BY <1>1, ClientIInv, SchedulerIInv, TickIInv DEF Next

\* Everything the clients and the scheduler thread share keeps its type, whatever
\* their interleaving: every pointer the unlocked builder follows, into freed and
\* recycled nodes too, leads to a task that SCH_AddTask has validated, and the
\* clean never leaves the array of buckets.
THEOREM TypeCorrect == Spec => []TypeOK
<1>1. Init => IInv /\ CalcInv
  BY InitIInv DEF Init, CalcInv
<1>2. IInv /\ CalcInv /\ [Next]_vars => (IInv /\ CalcInv)'
  BY NextIInv, CalcStep DEF IInv
<1>3. IInv => TypeOK
  BY DEF IInv
<1> QED BY <1>1, <1>2, <1>3, PTL DEF Spec

-----------------------------------------------------------------------------
(* The locking discipline of the scheduler thread.                         *)

LEMMA LockStep ==
    ASSUME TypeOK, LockInv, [Next]_vars
    PROVE  LockInv'
<1>1. CASE ClientStep
  BY <1>1 DEF ClientStep, SCH_AddTask, SCH_DeleteTask, SCH_ModifyTask,
              ModifyAdds, ModifyFails, SCH_StopScheduler, WaitForScheduler,
              sleepVars, LockInv
<1>2. CASE Tick \/ UNCHANGED vars
  BY <1>2 DEF Tick, vars, sleepVars, LockInv
<1>3. CASE Wake
  BY <1>3 DEF Wake, LockInv
<1>4. CASE \/ Top \/ ClearMasterTable \/ HourlyCheck \/ Recheck
           \/ AutoCleanStarts \/ AutoCleanRemoves \/ AutoCleanAdvances
  BY <1>4 DEF Top, ClearMasterTable, HourlyCheck, Recheck, AutoCleanStarts,
              AutoCleanRemoves, AutoCleanAdvances, Sleep, GoTo, LockInv
<1>5. CASE \/ BuildStarts \/ VisitEveryHour \/ VisitThisHour \/ ResetFlags
           \/ SortStarts \/ SortSwaps \/ SortEnds
  BY <1>5 DEF BuildStarts, VisitEveryHour, VisitThisHour, ResetFlags,
              SortStarts, SortSwaps, SortEnds, Sleep, GoTo, LockInv
<1>6. CASE LoopEnds \/ LoopStops \/ SkipTask \/ RunTask \/ RunTaskAtEndOfHour
  BY <1>6 DEF LoopEnds, LoopStops, SkipTask, RunTask, RunTaskAtEndOfHour,
              InLoop, Sleep, GoTo, LockInv
<1>7. CASE NothingDue \/ SleepTillNextTask \/ Woken \/ UnlockForSafety
  BY <1>7 DEF NothingDue, SleepTillNextTask, Woken, UnlockForSafety, InLoop,
              Sleep, GoTo, LockInv
<1> QED BY <1>1, <1>2, <1>3, <1>4, <1>5, <1>6, <1>7 DEF Next, SchedulerStep

\* The scheduler thread never waits for ExecList_mutex while it holds it, and
\* never waits for gMasterTable_mutex while it holds ExecList_mutex, although it
\* leaves the execution loop in four ways, with and without the lock.
THEOREM NoSelfDeadlock == Spec => []ExecLockFree
<1>1. Init => LockInv
  BY DEF Init, LockInv
<1>2. TypeOK /\ LockInv /\ [Next]_vars => LockInv'
  BY LockStep
<1>3. LockInv => ExecLockFree
  BY DEF LockInv, ExecLockFree
<1> QED BY <1>1, <1>2, <1>3, TypeCorrect, PTL DEF Spec

-----------------------------------------------------------------------------
(* The sleeps of the execution loop.                                       *)

\* The list stays sorted while the loop removes its head.
LEMMA SortStep ==
    ASSUME TypeOK, SortInv, [Next]_vars
    PROVE  SortInv'
<1> DEFINE tail == Tail(execList)
<1>1. execList # << >> /\ Sorted(execList) => Sorted(tail)
  <2> SUFFICES ASSUME execList # << >>, Sorted(execList)
               PROVE  Sorted(tail)
    OBVIOUS
  <2>1. execList \in Seq(EntryType)
    BY DEF TypeOK
  <2>2. \A i \in DOMAIN tail : i + 1 \in DOMAIN execList /\ tail[i] = execList[i + 1]
    BY <2>1
  <2>3. \A i, j \in DOMAIN tail : i <= j => i + 1 <= j + 1
    BY <2>1
  <2> QED BY <2>2, <2>3 DEF Sorted
<1> HIDE DEF tail
<1>2. CASE ClientStep
  BY <1>2 DEF ClientStep, SCH_AddTask, SCH_DeleteTask, SCH_ModifyTask,
              ModifyAdds, ModifyFails, SCH_StopScheduler, WaitForScheduler,
              sleepVars, SortInv, InLoopOnList, Sorted
<1>3. CASE UNCHANGED vars
  BY <1>3 DEF vars, sleepVars, SortInv, InLoopOnList, Sorted
<1>4. CASE Tick
  BY <1>4 DEF Tick, sleepVars, SortInv, InLoopOnList, Sorted
<1>5. CASE Wake
  BY <1>5 DEF Wake, TypeOK, SortInv, InLoopOnList, Sorted
<1>6. CASE \/ Top \/ ClearMasterTable \/ HourlyCheck \/ Recheck
           \/ AutoCleanStarts \/ AutoCleanRemoves \/ AutoCleanAdvances
  BY <1>6 DEF Top, ClearMasterTable, HourlyCheck, Recheck, AutoCleanStarts,
              AutoCleanRemoves, AutoCleanAdvances, Sleep, GoTo, SortInv,
              InLoopOnList
<1>7. CASE \/ BuildStarts \/ VisitEveryHour \/ VisitThisHour \/ ResetFlags
           \/ SortStarts \/ SortSwaps \/ LoopEnds \/ LoopStops
           \/ UnlockForSafety
  BY <1>7 DEF BuildStarts, VisitEveryHour, VisitThisHour, ResetFlags,
              SortStarts, SortSwaps, LoopEnds, LoopStops, UnlockForSafety, GoTo,
              SortInv, InLoopOnList
<1>8. CASE SortEnds
  BY <1>8 DEF SortEnds, Sleep, GoTo, SortInv, InLoopOnList, Sorted
<1>9. CASE SkipTask \/ RunTask \/ RunTaskAtEndOfHour
  <2>1. Sorted(execList) /\ execList # << >> /\ execList' = tail
    BY <1>9 DEF SkipTask, RunTask, RunTaskAtEndOfHour, InLoop, SortInv,
                InLoopOnList, tail
  <2>2. Sorted(execList')
    BY <2>1, <1>1
  <2> QED BY <2>2 DEF SortInv, Sorted
<1>10. CASE NothingDue
  BY <1>10 DEF NothingDue, InLoop, GoTo, SortInv, InLoopOnList, Sorted
<1>11. CASE SleepTillNextTask \/ Woken
  BY <1>11 DEF SleepTillNextTask, Woken, Sleep, GoTo, SortInv, InLoopOnList,
               Sorted
<1> QED BY <1>2, <1>3, <1>4, <1>5, <1>6, <1>7, <1>8, <1>9, <1>10, <1>11
        DEF Next, SchedulerStep

\* Without delays the clock goes on under a computed sleep only when the loop
\* waits busily.
LEMMA CalcDueStep ==
    ASSUME MaxLag = 0, TypeOK, CalcInv, DueInv, [Next]_vars
    PROVE  DueInv'
<1>1. CASE NothingDue
  BY <1>1 DEF NothingDue, InLoop, GoTo, clockVars, DueInv, Due, SecOfHour
<1>2. CASE ClientStep
  BY <1>2 DEF ClientStep, SCH_AddTask, SCH_DeleteTask, SCH_ModifyTask,
              ModifyAdds, ModifyFails, SCH_StopScheduler, WaitForScheduler,
              clockVars, DueInv, Due, SecOfHour
<1>3. CASE UNCHANGED vars
  BY <1>3 DEF vars, clockVars, DueInv, Due, SecOfHour
<1>4. CASE Tick /\ pc' = "calc"
  <2>1. pc = "calc" /\ execList' = execList /\ now' = now + 1 /\ ~Ready
    BY <1>4 DEF Tick, TypeOK
  <2>2. BusyWaiting
    BY <2>1 DEF Ready, Spinning
  <2>3. /\ NO_SECS_IN_HOUR \in Nat /\ CHECK_STATUS_TIME \in 1 .. NO_SECS_IN_HOUR - 1
        /\ now \in Nat /\ SecOfHour(now) \in 0 .. NO_SECS_IN_HOUR - 1
    BY CalendarTypes, CalendarAssumption, SchedulerAssumption DEF TypeOK
  <2>4. /\ Due = SecOfHour(now) + 1 /\ Due < NO_SECS_IN_HOUR
        /\ SecOfHour(now) > NO_SECS_IN_HOUR - CHECK_STATUS_TIME
    BY <2>2 DEF BusyWaiting
  <2>5. SecOfHour(now + 1) = SecOfHour(now) + 1
    BY <2>3, <2>4, NextSecond
  <2>6. Due' = Due /\ SecOfHour(now)' = SecOfHour(now + 1)
    BY <2>1 DEF Due, SecOfHour
  <2>7. Due \in BusySeconds
    BY <2>3, <2>4 DEF BusySeconds
  <2>8. BusySeconds' = BusySeconds
    BY DEF BusySeconds
  <2> QED BY <2>4, <2>5, <2>6, <2>7, <2>8 DEF DueInv
<1>5. CASE Wake /\ pc' = "calc"
  BY <1>5 DEF Wake, TypeOK
<1>6. SchedulerStep /\ pc' = "calc" => NothingDue \/ Wake
  BY DEF SchedulerStep, GoTo, Sleep, Top, ClearMasterTable, HourlyCheck,
         Recheck, AutoCleanStarts, AutoCleanRemoves, AutoCleanAdvances,
         BuildStarts, VisitEveryHour, VisitThisHour, ResetFlags, SortStarts,
         SortSwaps, SortEnds, LoopEnds, LoopStops, SkipTask, RunTask,
         RunTaskAtEndOfHour, SleepTillNextTask, Woken, UnlockForSafety
<1>7. CASE pc' # "calc"
  BY <1>7 DEF DueInv
<1> QED BY <1>1, <1>2, <1>3, <1>4, <1>5, <1>6, <1>7 DEF Next

\* A sleep computed at second x for an entry of second d does not pass d, and
\* ends a second earlier for the last second of the hour.
LEMMA SleepBound ==
    ASSUME NEW d \in Nat, NEW x \in 0 .. NO_SECS_IN_HOUR - 1, x < d
    PROVE  /\ SleepArgument(d, x) \in Nat
           /\ x + SleepArgument(d, x) <= d
           /\ d = NO_SECS_IN_HOUR => x + SleepArgument(d, x) < d
<1> DEFINE h == NO_SECS_IN_HOUR
           m == UI32_SPAN
           c == CHECK_STATUS_TIME
           y == d - x
           e == y % m
<1>1. h \in Nat \ {0} /\ c \in 1 .. h - 1 /\ x \in Nat /\ y \in Nat \ {0}
  BY SchedulerAssumption, CalendarAssumption
<1>2. m \in Nat /\ m > h
  <2>1. NO_SECS_IN_DAY \in Nat \ {0} /\ NO_SECS_IN_DAY * h >= h
    BY CalendarAssumption DEF NO_SECS_IN_DAY
  <2> QED BY <2>1, SchedulerAssumption, CalendarAssumption
<1>3. SleepTime(d, x) = e
  BY DEF SleepTime
<1> HIDE DEF h, m, c, y, e
<1>4. m \in Nat \ {0}
  BY <1>1, <1>2
<1>5. PICK q \in Nat : y = m * q + e /\ e \in 0 .. m - 1
  BY <1>1, <1>4, DivMod DEF e
<1>6. e \in 0 .. m - 1 /\ e <= y
  <2>1. m * q >= 0
    BY <1>4, <1>5
  <2> QED BY <1>1, <1>4, <1>5, <2>1
<1>7. e > 0 => (e - 1) % m = e - 1
  <2> SUFFICES ASSUME e > 0 PROVE (e - 1) % m = e - 1
    OBVIOUS
  <2>1. e - 1 \in 0 .. m - 1 /\ m * 0 + (e - 1) = e - 1
    BY <1>4, <1>6
  <2>2. (m * 0 + (e - 1)) % m = e - 1
    BY <1>4, <2>1, ModUnique
  <2> QED BY <2>1, <2>2
<1>8. e = 0 => (e - 1) % m = m - 1 /\ m <= y
  <2> SUFFICES ASSUME e = 0 PROVE (e - 1) % m = m - 1 /\ m <= y
    OBVIOUS
  <2>1. (0 - 1) % m = m - 1
    BY <1>4
  <2>2. q >= 1 /\ y = m * q
    BY <1>1, <1>4, <1>5
  <2>3. m * q >= m
    BY <1>4, <1>5, <2>2
  <2> QED BY <2>1, <2>2, <2>3
<1>9. (e - 1) % m \in Nat /\ (e - 1) % m <= y - 1
  BY <1>1, <1>2, <1>6, <1>7, <1>8
<1>10. SleepArgument(d, x) = IF \/ e = c /\ x = h - c
                                \/ e < c /\ x > h - c
                             THEN (e - 1) % m ELSE IF e < c THEN e ELSE c
  BY <1>3 DEF SleepArgument, h, m, c
<1>11. SleepArgument(d, x) \in Nat /\ SleepArgument(d, x) <= y
  BY <1>1, <1>6, <1>9, <1>10
<1>12. d = h => SleepArgument(d, x) <= y - 1
  <2> SUFFICES ASSUME d = h PROVE SleepArgument(d, x) <= y - 1
    OBVIOUS
  <2>1. y = h - x
    BY DEF y
  <2>2. y \in 0 .. m - 1 /\ m * 0 + y = y
    BY <1>1, <1>2, <2>1
  <2>3. (m * 0 + y) % m = y
    BY <1>4, <2>2, ModUnique
  <2>4. e = y
    BY <2>2, <2>3 DEF e
  <2> QED BY <1>1, <1>9, <1>10, <2>1, <2>4
<1> QED BY <1>1, <1>11, <1>12 DEF y, h

\* The hour of a later point in time does not start earlier.
LEMMA HourStartGrows ==
    ASSUME NEW t \in Nat
    PROVE  HourStart(t) \in Int /\ HourStart(t + 1) >= HourStart(t)
<1>1. SecOfHour(t) \in Nat /\ SecOfHour(t + 1) \in Nat
  BY CalendarTypes, CalendarAssumption
<1>2. SecOfHour(t + 1) <= SecOfHour(t) + 1
  BY <1>1, NextSecond
<1> QED BY <1>1, <1>2 DEF HourStart

\* A sleep that does not wrap is at most a polling period long.
LEMMA PollBound ==
    ASSUME NEW d \in Nat, NEW x \in 0 .. NO_SECS_IN_HOUR - 1,
           \/ SleepTime(d, x) # 0
           \/ x <= NO_SECS_IN_HOUR - CHECK_STATUS_TIME
    PROVE  SleepArgument(d, x) <= CHECK_STATUS_TIME
<1> DEFINE m == UI32_SPAN
           c == CHECK_STATUS_TIME
           e == SleepTime(d, x)
           h == NO_SECS_IN_HOUR
<1>1. /\ h \in Nat \ {0} /\ c \in 1 .. h - 1 /\ x \in Nat /\ m \in Nat \ {0}
  BY SchedulerAssumption, CalendarAssumption DEF NO_SECS_IN_DAY
<1>2. e \in 0 .. m - 1
  BY <1>1 DEF SleepTime
<1>3. SleepArgument(d, x) = IF \/ e = c /\ x = h - c
                               \/ e < c /\ x > h - c
                            THEN (e - 1) % m ELSE IF e < c THEN e ELSE c
  BY DEF SleepArgument
<1>4. e # 0 \/ x <= h - c
  OBVIOUS
<1> HIDE DEF m, c, e, h
<1>5. e > 0 => (e - 1) % m = e - 1
  <2> SUFFICES ASSUME e > 0 PROVE (e - 1) % m = e - 1
    OBVIOUS
  <2>1. e - 1 \in 0 .. m - 1 /\ m * 0 + (e - 1) = e - 1
    BY <1>1, <1>2
  <2>2. (m * 0 + (e - 1)) % m = e - 1
    BY <1>1, <2>1, ModUnique
  <2> QED BY <2>1, <2>2
<1>6. CASE (e = c /\ x = h - c) \/ (e < c /\ x > h - c)
  <2>1. e > 0
    BY <1>1, <1>2, <1>4, <1>6
  <2> QED BY <1>1, <1>2, <1>3, <1>5, <1>6, <2>1 DEF c
<1>7. CASE ~((e = c /\ x = h - c) \/ (e < c /\ x > h - c))
  BY <1>1, <1>2, <1>3, <1>7 DEF c
<1> QED BY <1>6, <1>7

\* A sleep computed at the second of the entry.
LEMMA SleepAtDue ==
    ASSUME NEW x \in 0 .. NO_SECS_IN_HOUR - 1
    PROVE  /\ SleepTime(x, x) = 0
           /\ x <= NO_SECS_IN_HOUR - CHECK_STATUS_TIME => SleepArgument(x, x) = 0
           /\ x > NO_SECS_IN_HOUR - CHECK_STATUS_TIME =>
                 SleepArgument(x, x) = UI32_SPAN - 1
<1>1. /\ NO_SECS_IN_HOUR \in Nat \ {0} /\ x \in Nat
      /\ CHECK_STATUS_TIME \in 1 .. NO_SECS_IN_HOUR - 1
      /\ UI32_SPAN \in Nat \ {0}
  BY SchedulerAssumption, CalendarAssumption DEF NO_SECS_IN_DAY
<1>2. SleepTime(x, x) = 0
  BY <1>1 DEF SleepTime
<1>3. (0 - 1) % UI32_SPAN = UI32_SPAN - 1
  BY <1>1
<1> QED BY <1>1, <1>2, <1>3 DEF SleepArgument

\* The sleep does not pass the second of any entry of the sorted list.
LEMMA AwakeForEntries ==
    ASSUME TypeOK, CalcInv, SortInv, SleepTillNextTask,
           \/ SecOfHour(now) < Due
           \/ SecOfHour(now) = Due /\ ~Wraps,
           NEW i \in DOMAIN execList
    PROVE  wake' <= HourStart(now) + LastSecond(execList[i])
<1> DEFINE due == execList[i].ui32Interval
           last == LastSecond(execList[i])
           s == SecOfHour(now)
           a == SleepArgument(Due, s)
<1>1. execList \in Seq(EntryType) /\ now \in Nat
  BY DEF TypeOK
<1>2. pc = "calc" /\ execList # << >> /\ wake' = now + a
  BY DEF SleepTillNextTask, Sleep, CalcInv
<1>3. due \in Nat /\ Due \in Nat
  <2>1. execList[i] \in EntryType
    BY <1>1
  <2> QED BY <1>2, <2>1, CallType DEF EntryType
<1>4. Due <= due
  <2>1. Sorted(execList)
    BY <1>2 DEF SortInv, InLoopOnList
  <2> QED BY <1>1, <1>2, <1>3, <2>1 DEF Sorted, Due
<1>5. /\ s \in 0 .. NO_SECS_IN_HOUR - 1 /\ NO_SECS_IN_HOUR \in Nat
      /\ CHECK_STATUS_TIME \in Nat
  <2>1. NO_SECS_IN_HOUR \in Nat /\ CHECK_STATUS_TIME \in Nat
    BY CalendarAssumption, SchedulerAssumption
  <2> QED BY <1>1, <2>1, CalendarTypes
<1>6. a \in Nat /\ s + a <= Due /\ (Due = NO_SECS_IN_HOUR => s + a < Due)
  <2>1. CASE s < Due
    BY <1>3, <1>5, <2>1, SleepBound
  <2>2. CASE s = Due /\ ~Wraps
    <3>1. SleepTime(Due, s) = 0
      BY <1>5, <2>2, SleepAtDue
    <3>2. s <= NO_SECS_IN_HOUR - CHECK_STATUS_TIME
      BY <1>5, <2>2, <3>1 DEF Wraps
    <3>3. a = 0
      BY <1>5, <2>2, <3>2, SleepAtDue
    <3> QED BY <1>5, <2>2, <3>3
  <2> QED BY <2>1, <2>2
<1>7. last \in Int /\ s + a <= last
  BY <1>3, <1>4, <1>5, <1>6 DEF LastSecond
<1> HIDE DEF a, last
<1> QED BY <1>1, <1>2, <1>5, <1>6, <1>7 DEF HourStart, last

\* However late the execution loop computes its sleep, it is at most a polling
\* period long and passes no entry of the list whose head is not overdue: the
\* shortened sleeps in the last CHECK_STATUS_TIME seconds are right for every
\* calendar, polling period, list and delay, but for the sleep that wraps.
THEOREM SleepsInTime == Spec => NoOversleep
<1> DEFINE SleepIInv == IInv /\ CalcInv /\ SortInv
<1>1. Init => SleepIInv
  BY InitIInv DEF Init, CalcInv, SortInv, InLoopOnList
<1>2. SleepIInv /\ [Next]_vars => SleepIInv'
  BY NextIInv, CalcStep, SortStep DEF IInv
<1>3. SleepIInv /\ [Next]_vars =>
          [pc = "calc" /\ pc' = "sleep" /\ ~Wraps =>
              /\ wake' - now <= CHECK_STATUS_TIME
              /\ SecOfHour(now) <= Due =>
                    \A i \in DOMAIN execList :
                        wake' <= HourStart(now) + LastSecond(execList[i])]_vars
  <2> SUFFICES ASSUME SleepIInv, [Next]_vars, pc = "calc", pc' = "sleep", ~Wraps
               PROVE  /\ wake' - now <= CHECK_STATUS_TIME
                      /\ SecOfHour(now) <= Due =>
                            \A i \in DOMAIN execList :
                                wake' <= HourStart(now) + LastSecond(execList[i])
    OBVIOUS
  <2>1. TypeOK /\ CalcInv /\ SortInv /\ execList # << >>
    BY DEF IInv, CalcInv
  <2>2. SleepTillNextTask
    <3>1. ~(ClientStep \/ Tick \/ UNCHANGED vars)
      BY DEF ClientStep, SCH_AddTask, SCH_DeleteTask, SCH_ModifyTask,
             ModifyAdds, ModifyFails, SCH_StopScheduler, WaitForScheduler,
             Tick, vars
    <3>2. SchedulerStep => SleepTillNextTask
      BY DEF SchedulerStep, Wake, Top, ClearMasterTable, HourlyCheck,
             Recheck, AutoCleanStarts, AutoCleanRemoves, AutoCleanAdvances,
             BuildStarts, VisitEveryHour, VisitThisHour, ResetFlags,
             SortStarts, SortSwaps, SortEnds, LoopEnds, LoopStops, SkipTask,
             RunTask, RunTaskAtEndOfHour, NothingDue, InLoop, Woken,
             UnlockForSafety
    <3> QED BY <3>1, <3>2 DEF Next
  <2>3. /\ Due \in Nat /\ now \in Nat /\ NO_SECS_IN_HOUR \in Nat
        /\ CHECK_STATUS_TIME \in Nat
        /\ SecOfHour(now) \in 0 .. NO_SECS_IN_HOUR - 1
    <3>1. NO_SECS_IN_HOUR \in Nat /\ CHECK_STATUS_TIME \in Nat
      BY CalendarAssumption, SchedulerAssumption
    <3>2. Due \in Nat /\ now \in Nat
      BY <2>1, CallType DEF TypeOK
    <3> QED BY <3>1, <3>2, CalendarTypes
  <2> DEFINE a == SleepArgument(Due, SecOfHour(now))
  <2>4. wake' = now + a
    BY <2>2 DEF SleepTillNextTask, Sleep
  <2>5. a \in Nat
    <3>1. SecOfHour(now) \in Nat
      BY <2>3
    <3> QED BY <2>3, <3>1, SleepArgumentType
  <2>6. a <= CHECK_STATUS_TIME
    <3>1. \/ SleepTime(Due, SecOfHour(now)) # 0
          \/ SecOfHour(now) <= NO_SECS_IN_HOUR - CHECK_STATUS_TIME
      BY <2>3 DEF Wraps
    <3> QED BY <2>3, <3>1, PollBound
  <2> HIDE DEF a
  <2>7. wake' - now <= CHECK_STATUS_TIME
    BY <2>3, <2>4, <2>5, <2>6
  <2>8. ASSUME SecOfHour(now) <= Due, NEW i \in DOMAIN execList
        PROVE  wake' <= HourStart(now) + LastSecond(execList[i])
    <3>1. SecOfHour(now) < Due \/ (SecOfHour(now) = Due /\ ~Wraps)
      BY <2>3, <2>8
    <3> QED BY <2>1, <2>2, <3>1, AwakeForEntries
  <2> QED BY <2>7, <2>8
<1> QED BY <1>1, <1>2, <1>3, PTL DEF Spec, NoOversleep

-----------------------------------------------------------------------------
(* A machine without delays.                                               *)

ClockInv == now <= MaxNow

LEMMA ClockStep ==
    ASSUME TypeOK, ClockInv, [Next]_vars
    PROVE  ClockInv'
<1>1. CASE Tick
  BY <1>1, SchedulerAssumption DEF Tick, TypeOK, ClockInv
<1>2. CASE ClientStep \/ UNCHANGED vars
  BY <1>2 DEF ClientStep, SCH_AddTask, SCH_DeleteTask, SCH_ModifyTask,
              ModifyAdds, ModifyFails, SCH_StopScheduler, WaitForScheduler,
              clockVars, vars, ClockInv
<1>3. CASE SchedulerStep
  BY <1>3 DEF SchedulerStep, GoTo, Sleep, clockVars, Wake, Top,
              ClearMasterTable, HourlyCheck, Recheck, AutoCleanStarts,
              AutoCleanRemoves, AutoCleanAdvances, BuildStarts,
              VisitEveryHour, VisitThisHour, ResetFlags, SortStarts,
              SortSwaps, SortEnds, LoopEnds, LoopStops, SkipTask, RunTask,
              RunTaskAtEndOfHour, NothingDue, SleepTillNextTask, Woken,
              UnlockForSafety, ClockInv
<1> QED BY <1>1, <1>2, <1>3 DEF Next

\* The loop is awake in time for every entry, unless its sleep has wrapped: then
\* it does not wake up again.
LEMMA AwakeStep ==
    ASSUME MaxNow + 1 < UI32_SPAN, TypeOK, CalcInv, SortInv, DueInv, AwakeInv,
           [Next]_vars
    PROVE  AwakeInv'
<1> SUFFICES ASSUME pc' = "sleep", afterSleep' = "woken", ~(wake' > MaxNow),
                    NEW i \in DOMAIN execList'
             PROVE  wake' <= HourStart(now') + LastSecond(execList'[i])
  BY DEF AwakeInv, Lost, HourStart, SecOfHour, LastSecond
<1>1. /\ execList \in Seq(EntryType) /\ now \in Nat /\ wake \in Nat
      /\ MaxNow \in Nat /\ UI32_SPAN \in Nat
  BY SchedulerAssumption DEF TypeOK
<1>2. CASE SleepTillNextTask
  <2>1. /\ pc = "calc" /\ execList' = execList /\ now' = now
        /\ wake' = now + SleepArgument(Due, SecOfHour(now))
    BY <1>2 DEF SleepTillNextTask, Sleep
  <2>2. SecOfHour(now) \in 0 .. NO_SECS_IN_HOUR - 1
    BY <1>1, CalendarTypes
  <2>3. SecOfHour(now) < Due
    <3> SUFFICES ASSUME SecOfHour(now) = Due, Due \in BusySeconds PROVE FALSE
      BY <2>1 DEF DueInv
    <3>1. SecOfHour(now) > NO_SECS_IN_HOUR - CHECK_STATUS_TIME
      BY <2>2, SchedulerAssumption, CalendarAssumption DEF BusySeconds
    <3>2. SleepArgument(Due, SecOfHour(now)) = UI32_SPAN - 1
      BY <2>2, <3>1, SleepAtDue
    <3>3. wake' = now + (UI32_SPAN - 1)
      BY <2>1, <3>2
    <3> QED BY <1>1, <3>3
  <2> QED BY <1>2, <2>1, <2>3, AwakeForEntries
<1>3. CASE Tick
  <2>1. /\ pc = "sleep" /\ afterSleep = "woken" /\ execList' = execList
        /\ wake' = wake /\ now' = now + 1
    BY <1>3 DEF Tick, sleepVars
  <2>2. wake <= HourStart(now) + LastSecond(execList[i])
    BY <2>1 DEF AwakeInv, Lost
  <2>3. LastSecond(execList[i]) \in Int
    <3>1. execList[i] \in EntryType
      BY <1>1, <2>1
    <3> QED BY <3>1, CalendarAssumption DEF EntryType, LastSecond
  <2>4. HourStart(now) \in Int /\ HourStart(now + 1) >= HourStart(now)
    BY <1>1, HourStartGrows
  <2>5. HourStart(now + 1) \in Int
    BY <1>1, HourStartGrows
  <2> QED BY <1>1, <2>1, <2>2, <2>3, <2>4, <2>5
<1>4. CASE ClientStep \/ UNCHANGED vars
  <2>1. /\ pc' = pc /\ afterSleep' = afterSleep /\ execList' = execList
        /\ wake' = wake /\ now' = now
    BY <1>4 DEF ClientStep, SCH_AddTask, SCH_DeleteTask, SCH_ModifyTask,
                ModifyAdds, ModifyFails, SCH_StopScheduler, WaitForScheduler,
                sleepVars, clockVars, vars
  <2> QED BY <2>1 DEF AwakeInv, Lost
<1>5. SchedulerStep => SleepTillNextTask
  <2>1. ~Wake
    BY DEF Wake, TypeOK
  <2>2. ~(HourlyCheck \/ Recheck \/ SortEnds \/ RunTaskAtEndOfHour)
    BY DEF HourlyCheck, Recheck, SortEnds, RunTaskAtEndOfHour, Sleep, GoTo
  <2>3. ~(\/ Top \/ ClearMasterTable \/ AutoCleanStarts \/ AutoCleanRemoves
          \/ AutoCleanAdvances \/ BuildStarts \/ VisitEveryHour
          \/ VisitThisHour \/ ResetFlags \/ SortStarts \/ SortSwaps)
    BY DEF Top, ClearMasterTable, AutoCleanStarts, AutoCleanRemoves,
           AutoCleanAdvances, BuildStarts, VisitEveryHour, VisitThisHour,
           ResetFlags, SortStarts, SortSwaps, GoTo
  <2>4. ~(\/ LoopEnds \/ LoopStops \/ SkipTask \/ RunTask \/ NothingDue
          \/ Woken \/ UnlockForSafety)
    BY DEF LoopEnds, LoopStops, SkipTask, RunTask, NothingDue, Woken,
           UnlockForSafety, GoTo
  <2> QED BY <2>1, <2>2, <2>3, <2>4 DEF SchedulerStep
<1> QED BY <1>2, <1>3, <1>4, <1>5 DEF Next

\* The invariant of a machine on which nothing takes time but SLEEP and the two
\* loops that spin.
LoopIInv == /\ IInv /\ CalcInv /\ SortInv /\ DueInv /\ ClockInv /\ AwakeInv

LEMMA InitLoopIInv == Init => LoopIInv
<1>1. Init => CalcInv /\ SortInv /\ DueInv /\ ClockInv /\ AwakeInv
  BY SchedulerAssumption
     DEF Init, CalcInv, SortInv, DueInv, ClockInv, InLoopOnList, AwakeInv
<1> QED BY <1>1, InitIInv DEF LoopIInv

LEMMA NextLoopIInv ==
    ASSUME MaxLag = 0, MaxNow + 1 < UI32_SPAN, LoopIInv, [Next]_vars
    PROVE  LoopIInv'
<1>1. TypeOK /\ IInv /\ CalcInv /\ SortInv /\ DueInv /\ ClockInv /\ AwakeInv
  BY DEF LoopIInv, IInv
<1>2. IInv' /\ CalcInv'
  BY <1>1, NextIInv, CalcStep
<1>3. SortInv' /\ DueInv' /\ ClockInv'
  BY <1>1, SortStep, CalcDueStep, ClockStep
<1>4. AwakeInv'
  BY <1>1, AwakeStep
<1> QED BY <1>2, <1>3, <1>4 DEF LoopIInv

-----------------------------------------------------------------------------
(* The hour of a call.                                                     *)

\* The hour goes on for another second, unless this one is its last.
LEMMA HourGoesOn ==
    ASSUME NEW t \in Nat, SecOfHour(t) + 1 < NO_SECS_IN_HOUR
    PROVE  HourIndex(t + 1) = HourIndex(t)
<1> DEFINE h == NO_SECS_IN_HOUR
           q == t \div h
           r == t % h
<1>1. h \in Nat \ {0} /\ r + 1 < h
  BY CalendarAssumption DEF SecOfHour
<1> HIDE DEF h
<1>2. t = h * q + r /\ q \in Nat /\ r \in 0 .. h - 1
  BY <1>1, DivMod
<1> HIDE DEF q, r
<1>3. t + 1 = h * q + (r + 1) /\ r + 1 \in 0 .. h - 1
  BY <1>1, <1>2
<1>4. (h * q + (r + 1)) \div h = q
  BY <1>1, <1>2, <1>3, DivUnique
<1> QED BY <1>3, <1>4 DEF HourIndex, q, h

LEMMA HourStep ==
    ASSUME MaxLag = 0, LoopIInv, HourInv, [Next]_vars
    PROVE  HourInv'
<1>1. /\ TypeOK /\ execList \in Seq(EntryType) /\ now \in Nat /\ wake \in Nat
      /\ lag = 0
  BY DEF LoopIInv, IInv, TypeOK
<1>2. CASE ClientStep
  BY <1>2 DEF ClientStep, SCH_AddTask, SCH_DeleteTask, SCH_ModifyTask,
              ModifyAdds, ModifyFails, SCH_StopScheduler, WaitForScheduler,
              sleepVars, clockVars, buildVars, HourInv, InLoopOnList, Lost,
              HourIndex
<1>3. CASE UNCHANGED vars
  BY <1>3 DEF vars, sleepVars, clockVars, buildVars, HourInv, InLoopOnList,
              Lost, HourIndex
<1>4. CASE Tick
  <2>1. /\ ~Ready /\ now' = now + 1 /\ pc' = pc /\ afterSleep' = afterSleep
        /\ execList' = execList /\ buildTime' = buildTime /\ wake' = wake
    BY <1>1, <1>4 DEF Tick, sleepVars, buildVars
  <2>2. \/ pc \in {"dead", "cleaning"}
        \/ pc = "sleep" /\ now < wake
        \/ BusyWaiting
    BY <2>1 DEF Ready, Spinning
  <2>3. Lost' <=> Lost
    BY <2>1 DEF Lost
  <2>4. /\ pc' \notin {"everyHour", "thisHour", "built", "sort", "sorting"}
        /\ InLoopOnList' <=> InLoopOnList
    BY <2>1, <2>2 DEF BusyWaiting, InLoopOnList
  <2> SUFFICES ASSUME InLoopOnList, ~Lost, NEW i \in DOMAIN execList,
                      execList[i].ui32Interval <= NO_SECS_IN_HOUR
               PROVE  HourIndex(buildTime) = HourIndex(now + 1)
    BY <2>1, <2>3, <2>4 DEF HourInv, HourIndex
  <2>5. NO_SECS_IN_HOUR \in Nat /\ SecOfHour(now) \in Nat
    <3>1. SecOfHour(now) \in 0 .. NO_SECS_IN_HOUR - 1 /\ NO_SECS_IN_HOUR \in Nat
      BY <1>1, CalendarTypes, CalendarAssumption
    <3> QED BY <3>1
  <2>6. SecOfHour(now) + 1 < NO_SECS_IN_HOUR
    <3>1. CASE BusyWaiting
      BY <3>1 DEF BusyWaiting
    <3>2. CASE pc = "sleep" /\ now < wake
      <4>1. wake <= HourStart(now) + LastSecond(execList[i])
        BY <3>2 DEF LoopIInv, AwakeInv, InLoopOnList
      <4>2. LastSecond(execList[i]) \in Int /\ LastSecond(execList[i]) < NO_SECS_IN_HOUR
        <5>1. execList[i] \in EntryType
          BY <1>1
        <5>2. execList[i].ui32Interval \in Nat
          BY <5>1 DEF EntryType
        <5> QED BY <2>5, <5>2 DEF LastSecond
      <4>3. now + 1 <= (now - SecOfHour(now)) + LastSecond(execList[i])
        BY <1>1, <2>5, <3>2, <4>1, <4>2 DEF HourStart
      <4> QED BY <1>1, <2>5, <4>2, <4>3
    <3> QED BY <2>2, <3>1, <3>2 DEF InLoopOnList
  <2>7. HourIndex(now + 1) = HourIndex(now)
    BY <1>1, <2>6, HourGoesOn
  <2> QED BY <2>7 DEF HourInv
<1>5. CASE Wake
  <2>1. ~Lost
    BY <1>1, <1>5, SchedulerAssumption DEF Wake, Lost, LoopIInv, ClockInv
  <2> QED BY <1>1, <1>5, <2>1 DEF Wake, TypeOK, clockVars, buildVars, HourInv,
                                  InLoopOnList, HourIndex
<1>6. CASE \/ Top \/ ClearMasterTable \/ HourlyCheck \/ Recheck
           \/ AutoCleanStarts \/ AutoCleanRemoves \/ AutoCleanAdvances
           \/ LoopEnds \/ LoopStops \/ UnlockForSafety
  BY <1>6 DEF Top, ClearMasterTable, HourlyCheck, Recheck, AutoCleanStarts,
              AutoCleanRemoves, AutoCleanAdvances, LoopEnds, LoopStops,
              UnlockForSafety, Sleep, GoTo, HourInv, InLoopOnList
<1>7. CASE \/ BuildStarts \/ VisitEveryHour \/ VisitThisHour \/ ResetFlags
           \/ SortStarts \/ SortSwaps
  BY <1>7 DEF BuildStarts, VisitEveryHour, VisitThisHour, ResetFlags,
              SortStarts, SortSwaps, GoTo, clockVars, buildVars, HourInv,
              InLoopOnList
<1>8. CASE SortEnds
  BY <1>8 DEF SortEnds, Sleep, GoTo, clockVars, buildVars, HourInv,
              InLoopOnList, HourIndex
<1>9. CASE SkipTask \/ RunTask \/ RunTaskAtEndOfHour
  <2>1. /\ pc = "loop" /\ execList # << >> /\ execList' = Tail(execList)
        /\ now' = now /\ buildTime' = buildTime
        /\ pc' = "loop" \/ (pc' = "sleep" /\ afterSleep' = "unlock")
    BY <1>9 DEF SkipTask, RunTask, RunTaskAtEndOfHour, InLoop, Sleep, GoTo,
                clockVars, buildVars
  <2>2. \A i \in DOMAIN execList' :
           i + 1 \in DOMAIN execList /\ execList'[i] = execList[i + 1]
    BY <1>1, <2>1
  <2> QED BY <2>1, <2>2 DEF HourInv, InLoopOnList, Lost, HourIndex
<1>10. CASE NothingDue \/ SleepTillNextTask \/ Woken
  BY <1>10 DEF NothingDue, SleepTillNextTask, Woken, InLoop, Sleep, GoTo,
               clockVars, buildVars, HourInv, InLoopOnList, Lost, HourIndex
<1> QED BY <1>2, <1>3, <1>4, <1>5, <1>6, <1>7, <1>8, <1>9, <1>10
        DEF Next, SchedulerStep

\* The invariant with the hour of the list.
HourIInv == LoopIInv /\ HourInv

LEMMA HourInvariant ==
    ASSUME MaxLag = 0, MaxNow + 1 < UI32_SPAN
    PROVE  Spec => []HourIInv
<1>1. Init => HourIInv
  BY InitLoopIInv DEF Init, HourIInv, HourInv, InLoopOnList
<1>2. HourIInv /\ [Next]_vars => HourIInv'
  BY NextLoopIInv, HourStep DEF HourIInv
<1> QED BY <1>1, <1>2, PTL DEF Spec

\* A function is called for the head of a list that was built in this hour.
LEMMA CallStep ==
    ASSUME HourIInv, [Next]_vars, ran' # ran
    PROVE  /\ RunTask \/ RunTaskAtEndOfHour
           /\ execList # << >>
           /\ Due <= NO_SECS_IN_HOUR
           /\ HourIndex(buildTime) = HourIndex(now)
<1>1. execList \in Seq(EntryType) /\ now \in Nat
  BY DEF HourIInv, LoopIInv, IInv, TypeOK
<1>2. RunTask \/ RunTaskAtEndOfHour
  <2>1. ~(ClientStep \/ Tick \/ UNCHANGED vars)
    BY DEF ClientStep, SCH_AddTask, SCH_DeleteTask, SCH_ModifyTask, ModifyAdds,
           ModifyFails, SCH_StopScheduler, WaitForScheduler, Tick, vars
  <2>2. ~(\/ Wake \/ Top \/ ClearMasterTable \/ HourlyCheck \/ Recheck
          \/ AutoCleanStarts \/ AutoCleanRemoves \/ AutoCleanAdvances
          \/ BuildStarts \/ VisitEveryHour \/ VisitThisHour \/ ResetFlags)
    BY DEF Wake, Top, ClearMasterTable, HourlyCheck, Recheck, AutoCleanStarts,
           AutoCleanRemoves, AutoCleanAdvances, BuildStarts, VisitEveryHour,
           VisitThisHour, ResetFlags
  <2>3. ~(\/ SortStarts \/ SortSwaps \/ SortEnds \/ LoopEnds \/ LoopStops
          \/ SkipTask \/ NothingDue \/ SleepTillNextTask \/ Woken
          \/ UnlockForSafety)
    BY DEF SortStarts, SortSwaps, SortEnds, LoopEnds, LoopStops, SkipTask,
           NothingDue, SleepTillNextTask, Woken, UnlockForSafety
  <2> QED BY <2>1, <2>2, <2>3 DEF Next, SchedulerStep
<1>3. pc = "loop" /\ execList # << >>
  BY <1>2 DEF RunTask, RunTaskAtEndOfHour, InLoop
<1>4. Due <= NO_SECS_IN_HOUR
  <2>1. SecOfHour(now) \in 0 .. NO_SECS_IN_HOUR - 1
    BY <1>1, CalendarTypes
  <2> QED BY <1>2, <2>1, CalendarAssumption
          DEF RunTask, RunTaskAtEndOfHour, EndOfHour
<1>5. 1 \in DOMAIN execList /\ Due = execList[1].ui32Interval
  BY <1>1, <1>3 DEF Due
<1> QED BY <1>2, <1>3, <1>4, <1>5 DEF HourIInv, HourInv, InLoopOnList, Lost

\* On a machine without delays every call is made from a list built in the hour
\* of the call, whatever the clients do and whether or not the loop waits busily
\* at the end of the hour: no entry is carried over it and then run.
THEOREM CallsInTheirHour ==
    ASSUME MaxLag = 0, MaxNow + 1 < UI32_SPAN
    PROVE  Spec => CallsComeFromThisHour
<1>1. HourIInv /\ [Next]_vars
          => [ran' # ran => HourIndex(buildTime) = HourIndex(now)]_vars
  BY CallStep
<1> QED BY <1>1, HourInvariant, PTL DEF Spec, CallsComeFromThisHour

-----------------------------------------------------------------------------
(* The task of a call, as long as no client frees a node.                  *)

\* Two points in time of one hour are in the same hour of the same day.
LEMMA SameHourSameDay ==
    ASSUME NEW x \in Nat, NEW y \in Nat, HourIndex(x) = HourIndex(y)
    PROVE  Hour(x) = Hour(y) /\ Day(x) = Day(y)
<1> DEFINE h == NO_SECS_IN_HOUR
           n == NO_HOUR_IN_DAY
           D(z) == (z \div h) \div n
<1>1. h \in Nat \ {0} /\ n \in Nat \ {0}
  BY CalendarAssumption
<1>2. \A z \in Nat : Day(z) = D(z)
  <2> SUFFICES ASSUME NEW z \in Nat PROVE z \div (h * n) = (z \div h) \div n
    BY DEF Day, NO_SECS_IN_DAY
  <2> HIDE DEF h, n
  <2> DEFINE q == z \div h
             r == z % h
             d == q \div n
             m == q % n
  <2>1. z = h * q + r /\ q \in Nat /\ r \in 0 .. h - 1
    BY <1>1, DivMod
  <2> HIDE DEF q, r
  <2>2. q = n * d + m /\ d \in Nat /\ m \in 0 .. n - 1
    BY <1>1, <2>1, DivMod
  <2> HIDE DEF d, m
  <2>3. h * q = (h * n) * d + h * m
    BY <1>1, <2>2
  <2>4. h * m \in Nat /\ h * m <= h * (n - 1)
    BY <1>1, <2>2
  <2>5. h * (n - 1) = h * n - h
    BY <1>1
  <2>6. h * n \in Nat \ {0}
    BY <1>1
  <2> DEFINE a == h * n
             b == h * m
             c == a * d
  <2>7. c \in Nat
    BY <2>2, <2>6
  <2>8. z = c + (b + r) /\ b + r \in 0 .. a - 1
    <3> HIDE DEF a, b, c
    <3>1. h * q = c + b /\ a \in Nat /\ b \in Nat /\ b <= a - h
      BY <2>3, <2>4, <2>5, <2>6 DEF a, b, c
    <3>2. h * q \in Nat
      BY <3>1, <2>7
    <3> QED BY <1>1, <2>1, <2>7, <3>1, <3>2
  <2>9. (a * d + (b + r)) \div a = d
    <3> HIDE DEF a, b
    <3> QED BY <2>2, <2>6, <2>8, DivUnique DEF a
  <2> QED BY <2>8, <2>9 DEF d, q
<1> QED BY <1>2 DEF HourIndex, Hour

\* The builder is in a bucket of the table.
LEMMA WalkedBucketType ==
    ASSUME buildTime \in Nat
    PROVE  Hour(buildTime) \in Buckets /\ WalkedBucket \in Buckets
<1>1. Hour(buildTime) \in 0 .. NO_HOUR_IN_DAY - 1 /\ NO_HOUR_IN_DAY \in Nat
  BY CalendarTypes, CalendarAssumption
<1> QED BY <1>1 DEF WalkedBucket, Buckets, EVERY_HOUR_TASK

\* A node of a bucket is followed by one of that bucket, or by none.
LEMMA WalkStays ==
    ASSUME IInv, NEW b \in Buckets, NEW i \in DOMAIN table[b]
    PROVE  LET m == NextNode(table[b][i])
           IN  m # NULL => \E j \in DOMAIN table[b] : table[b][j] = m
<1> DEFINE n == table[b][i]
           d == CHOOSE x \in Buckets :
                    \E j \in DOMAIN table[x] : table[x][j] = n
           k == CHOOSE j \in DOMAIN table[d] : table[d][j] = n
<1>1. table[b] \in Seq(Nodes)
  BY DEF IInv, TypeOK
<1>2. Linked(n)
  BY DEF Linked
<1>3. d \in Buckets /\ \E j \in DOMAIN table[d] : table[d][j] = n
  BY <1>2 DEF Linked
<1>4. k \in DOMAIN table[d] /\ table[d][k] = n
  BY <1>3
<1>5. NextNode(n) = Successor(d, k)
  BY <1>2 DEF NextNode
<1> HIDE DEF d, k
<1>6. d = b /\ k = i
  BY <1>3, <1>4 DEF IInv, HeapInv
<1>7. Successor(b, i) # NULL => i + 1 \in DOMAIN table[b]
                                /\ Successor(b, i) = table[b][i + 1]
  BY <1>1 DEF Successor
<1> QED BY <1>5, <1>6, <1>7

LEMMA FirstInBucket ==
    ASSUME IInv, NEW b \in Buckets, First(b) # NULL
    PROVE  \E i \in DOMAIN table[b] : table[b][i] = First(b)
<1>1. table[b] \in Seq(Nodes) /\ table[b] # << >>
  BY DEF IInv, TypeOK, First
<1>2. 1 \in DOMAIN table[b] /\ First(b) = table[b][1]
  BY <1>1 DEF First
<1> QED BY <1>2

\* The entries of a node of the EVERY_HOUR_TASK bucket are for its task ...
LEMMA EveryHourListed ==
    ASSUME IntervalsOfAnHour,
           NEW t \in TASKS, Accepted(t), Bucket(t) = EVERY_HOUR_TASK,
           buildTime \in Nat, NEW k \in Nat,
           NEW i \in DOMAIN EveryHourEntries(t, buildTime, k)
    PROVE  ListedFor(t, EveryHourEntries(t, buildTime, k)[i], buildTime)
<1> DEFINE v == t.ui32Interval
           e == EveryHourEntries(t, buildTime, k)[i]
<1>1. /\ v \in Nat /\ t.hour \in 0 .. NO_HOUR_IN_DAY - 1
      /\ NO_SECS_IN_HOUR \in Nat /\ NO_HOUR_IN_DAY \in Nat
  BY SchedulerAssumption, CalendarAssumption DEF TaskType
<1>2. t.ePCity = "SCH_SEC_MIN_HOUR" /\ v \in Nat \ {0}
  BY <1>1 DEF Bucket, EVERY_HOUR_TASK, Accepted
<1>3. i \in Nat \ {0}
  <2>1. NoOfExec(t, buildTime, k) \in Nat
    BY EntriesTypes
  <2>2. i \in 1 .. NoOfExec(t, buildTime, k)
    BY DEF EveryHourEntries
  <2> QED BY <2>1, <2>2
<1>4. e = [vpArg |-> t.vpArg, ui32Interval |-> IntervalInHour(t, buildTime) * i]
  BY DEF EveryHourEntries
<1>5. IntervalInHour(t, buildTime) = v /\ OnItsDay(t, buildTime)
  <2>1. v <= NO_SECS_IN_HOUR /\ t.eWeekDay = SCH_ALL_DAYS
    BY <1>2 DEF IntervalsOfAnHour
  <2>2. IntervalInHour(t, buildTime) = v
    BY <1>1, <2>1 DEF IntervalInHour
  <2> QED BY <1>2, <2>1, <2>2 DEF OnItsDay
<1>6. v * i > 0 /\ (v * i) % v = 0
  <2>1. v * i \in Nat /\ v * i > 0
    BY <1>2, <1>3
  <2>2. (v * i + 0) % v = 0
    BY <1>2, <1>3, ModUnique
  <2> QED BY <2>1, <2>2
<1> QED BY <1>2, <1>4, <1>5, <1>6 DEF ListedFor

\* ... and so is the one of a node of the bucket of the current hour.
LEMMA HourListed ==
    ASSUME NEW t \in TASKS, buildTime \in Nat, Bucket(t) = Hour(buildTime),
           NEW i \in DOMAIN HourEntries(t, buildTime)
    PROVE  ListedFor(t, HourEntries(t, buildTime)[i], buildTime)
<1> DEFINE e == [vpArg |-> t.vpArg, ui32Interval |-> t.sec]
<1>1. Hour(buildTime) \in 0 .. NO_HOUR_IN_DAY - 1 /\ NO_HOUR_IN_DAY \in Nat
  BY CalendarTypes, CalendarAssumption
<1>2. t.ePCity # "SCH_SEC_MIN_HOUR" /\ t.hour = Hour(buildTime)
  BY <1>1 DEF Bucket, EVERY_HOUR_TASK
<1>3. InThisHourList(t, buildTime)
  BY DEF HourEntries
<1>4. HourEntries(t, buildTime)[i] = e
  BY <1>3 DEF HourEntries
<1>5. OnItsDay(t, buildTime)
  BY <1>3 DEF InThisHourList, OnItsDay, OnThisDay
<1> QED BY <1>2, <1>4, <1>5 DEF ListedFor

\* A step that leaves the table and the builder's place in it alone, and at most
\* removes entries of the list or moves them.
LEMMA OriginFrame ==
    ASSUME OriginInv, UNCHANGED <<table, task, pTemp, buildTime>>,
           pTemp # NULL => UNCHANGED pc,
           \A i \in DOMAIN execList' :
               \E j \in DOMAIN execList : execList'[i] = execList[j]
    PROVE  OriginInv'
<1>1. \A b \in Buckets : \A i \in DOMAIN table'[b] : Bucket(task'[table'[b][i]]) = b
  BY DEF OriginInv
<1>2. pTemp' # NULL => \E i \in DOMAIN table'[WalkedBucket'] :
                          table'[WalkedBucket'][i] = pTemp'
  BY DEF OriginInv, WalkedBucket
<1>3. \A i \in DOMAIN execList' :
          \E t \in TASKS : ListedFor(t, execList'[i], buildTime')
  BY DEF OriginInv
<1> QED BY <1>1, <1>2, <1>3 DEF OriginInv

\* Linking a new node.
LEMMA OriginLink ==
    ASSUME IInv, OriginInv, NEW n \in Nodes, NEW t \in TASKS, Link(n, t),
           UNCHANGED <<pTemp, pc, buildTime, execList>>
    PROVE  OriginInv'
<1> DEFINE k == Bucket(t)
<1>1. /\ k \in Buckets /\ table \in [Buckets -> Seq(Nodes)]
      /\ task \in [Nodes -> TASKS \cup {NULL}] /\ buildTime \in Nat
  BY BucketType DEF IInv, TypeOK
<1>2. /\ table' = [table EXCEPT ![k] = Append(table[k], n)]
      /\ task' = [task EXCEPT ![n] = t]
      /\ \A b \in Buckets : \A i \in DOMAIN table[b] : table[b][i] # n
  BY DEF Link, Linked
<1>3. Bucket(task'[n]) = k
  BY <1>1, <1>2
<1> HIDE DEF k
<1>4. \A b \in Buckets : \A i \in DOMAIN table'[b] :
          \/ b = k /\ table'[b][i] = n
          \/ i \in DOMAIN table[b] /\ table'[b][i] = table[b][i]
  BY <1>1, <1>2
<1>5. \A b \in Buckets : \A i \in DOMAIN table[b] :
          i \in DOMAIN table'[b] /\ table'[b][i] = table[b][i]
  BY <1>1, <1>2
<1>6. \A b \in Buckets : \A i \in DOMAIN table[b] :
          task'[table[b][i]] = task[table[b][i]]
  BY <1>1, <1>2
<1>7. \A b \in Buckets : \A i \in DOMAIN table'[b] : Bucket(task'[table'[b][i]]) = b
  BY <1>3, <1>4, <1>6 DEF OriginInv
<1>8. WalkedBucket \in Buckets /\ WalkedBucket' = WalkedBucket
  BY <1>1, WalkedBucketType DEF WalkedBucket
<1>9. pTemp' # NULL => \E i \in DOMAIN table'[WalkedBucket'] :
                          table'[WalkedBucket'][i] = pTemp'
  BY <1>5, <1>8 DEF OriginInv
<1>10. \A i \in DOMAIN execList' :
          \E u \in TASKS : ListedFor(u, execList'[i], buildTime')
  BY DEF OriginInv
<1> QED BY <1>7, <1>9, <1>10 DEF OriginInv

\* The clean removes a node while nothing is built.
LEMMA OriginClean ==
    ASSUME IInv, OriginInv, AutoCleanRemoves
    PROVE  OriginInv'
<1>1. /\ pc = "cleaning" /\ pTemp = NULL /\ pTemp' = pTemp
      /\ buildTime' = buildTime /\ execList' = execList
      /\ bucket \in Buckets /\ table \in [Buckets -> Seq(Nodes)]
      /\ task \in [Nodes -> TASKS \cup {NULL}]
  BY DEF AutoCleanRemoves, IInv, TypeOK, HeapInv, Building, buildVars
<1>2. PICK i \in DOMAIN table[bucket] : Free(bucket, i)
  BY DEF AutoCleanRemoves
<1> DEFINE n == table[bucket][i]
           s == table[bucket]
<1>3. /\ table' = [table EXCEPT ![bucket] = Unlink(s, i)]
      /\ task' = [task EXCEPT ![n] = NULL]
  BY <1>1, <1>2 DEF Free, Building
<1>4. s \in Seq(Nodes) /\ n \in Nodes
  BY <1>1
<1>5. Unlink(s, i) \in Seq(Nodes) /\ Len(Unlink(s, i)) = Len(s) - 1
  BY <1>4 DEF Unlink
<1>6. \A d \in Buckets : \A j \in DOMAIN table'[d] :
          LET o == IF d = bucket /\ j >= i THEN j + 1 ELSE j
          IN  /\ o \in DOMAIN table[d] /\ table'[d][j] = table[d][o]
              /\ d = bucket => o # i
  BY <1>1, <1>3, <1>4, <1>5 DEF Unlink
<1>7. \A d \in Buckets : \A o \in DOMAIN table[d] :
          table[d][o] = n => d = bucket /\ o = i
  BY <1>1 DEF IInv, HeapInv
<1>8. \A d \in Buckets : \A j \in DOMAIN table'[d] : Bucket(task'[table'[d][j]]) = d
  <2> SUFFICES ASSUME NEW d \in Buckets, NEW j \in DOMAIN table'[d]
               PROVE  Bucket(task'[table'[d][j]]) = d
    OBVIOUS
  <2>1. PICK o \in DOMAIN table[d] : /\ table'[d][j] = table[d][o]
                                     /\ d = bucket => o # i
    BY <1>6
  <2>2. table[d][o] # n /\ table[d][o] \in Nodes
    BY <2>1, <1>1, <1>7
  <2>3. task'[table[d][o]] = task[table[d][o]]
    BY <2>2, <1>1, <1>3
  <2> QED BY <2>1, <2>3 DEF OriginInv
<1>9. \A j \in DOMAIN execList' :
          \E u \in TASKS : ListedFor(u, execList'[j], buildTime')
  BY <1>1 DEF OriginInv
<1> QED BY <1>1, <1>8, <1>9 DEF OriginInv

\* The builder visits a node: its entries are for its task, and the next node is
\* in the same bucket.
LEMMA OriginVisit ==
    ASSUME IInv, OriginInv, pTemp # NULL, NEW s \in Seq(EntryType),
           execList' = execList \o s, pTemp' = NextNode(pTemp),
           UNCHANGED <<pc, table, task, buildTime>>,
           \A i \in DOMAIN s : ListedFor(task[pTemp], s[i], buildTime)
    PROVE  OriginInv'
<1>1. /\ execList \in Seq(EntryType) /\ buildTime \in Nat
      /\ pTemp \in Nodes /\ task[pTemp] \in TASKS
  BY DEF IInv, TypeOK, HeapInv
<1>2. \A i \in DOMAIN execList' : \/ i \in DOMAIN execList
                                     /\ execList'[i] = execList[i]
                                  \/ /\ i - Len(execList) \in DOMAIN s
                                     /\ execList'[i] = s[i - Len(execList)]
  BY <1>1
<1>3. \A i \in DOMAIN execList' :
          \E t \in TASKS : ListedFor(t, execList'[i], buildTime')
  BY <1>1, <1>2 DEF OriginInv
<1>4. WalkedBucket \in Buckets /\ WalkedBucket' = WalkedBucket
  BY <1>1, WalkedBucketType DEF WalkedBucket
<1>5. PICK i \in DOMAIN table[WalkedBucket] : table[WalkedBucket][i] = pTemp
  BY DEF OriginInv
<1>6. pTemp' # NULL => \E j \in DOMAIN table[WalkedBucket] :
                          table[WalkedBucket][j] = pTemp'
  BY <1>4, <1>5, WalkStays
<1>7. \A b \in Buckets : \A j \in DOMAIN table'[b] : Bucket(task'[table'[b][j]]) = b
  BY DEF OriginInv
<1> QED BY <1>3, <1>4, <1>6, <1>7 DEF OriginInv

\* The task of the node the builder is at belongs to the bucket it walks.
LEMMA VisitedTask ==
    ASSUME IInv, OriginInv, pTemp # NULL
    PROVE  /\ task[pTemp] \in TASKS /\ Accepted(task[pTemp])
           /\ Bucket(task[pTemp]) = WalkedBucket
<1>1. buildTime \in Nat /\ pTemp \in Nodes /\ task[pTemp] \in TASKS
  BY DEF IInv, TypeOK, HeapInv
<1>2. Accepted(task[pTemp])
  BY <1>1, SchedulerAssumption DEF IInv, HeapInv
<1>3. WalkedBucket \in Buckets
  BY <1>1, WalkedBucketType
<1>4. PICK i \in DOMAIN table[WalkedBucket] : table[WalkedBucket][i] = pTemp
  BY DEF OriginInv
<1> QED BY <1>1, <1>2, <1>3, <1>4 DEF OriginInv

LEMMA OriginStep ==
    ASSUME ClientCalls \cap {"delete", "modify"} = {}, IntervalsOfAnHour,
           IInv, OriginInv, [Next]_vars
    PROVE  OriginInv'
<1> USE DEF GoTo, Sleep
<1>1. /\ execList \in Seq(EntryType) /\ buildTime \in Nat /\ ui32NoOfExec \in Nat
      /\ pTemp # NULL => pc \in {"everyHour", "thisHour"}
      /\ EVERY_HOUR_TASK \in Buckets /\ Hour(buildTime) \in Buckets
  <2>1. EVERY_HOUR_TASK \in Buckets
    BY CalendarAssumption DEF Buckets, EVERY_HOUR_TASK
  <2>2. /\ execList \in Seq(EntryType) /\ buildTime \in Nat
        /\ ui32NoOfExec \in Nat
        /\ pTemp # NULL => pc \in {"everyHour", "thisHour"}
    BY DEF IInv, TypeOK, HeapInv, Building
  <2> QED BY <2>1, <2>2, WalkedBucketType
<1>2. CASE ClientStep
  <2>1. PICK c \in Clients :
            \/ \E n \in Nodes, t \in TASKS : SCH_AddTask(c, n, t)
            \/ \E b \in Buckets : \E i \in DOMAIN table[b] :
                  \/ SCH_DeleteTask(c, b, i)
                  \/ \E t \in TASKS : SCH_ModifyTask(c, b, i, t)
            \/ \E n \in Nodes : ModifyAdds(c, n)
            \/ ModifyFails(c)
            \/ SCH_StopScheduler(c)
            \/ WaitForScheduler(c)
    BY <1>2 DEF ClientStep
  <2>2. ASSUME NEW n \in Nodes, NEW t \in TASKS, SCH_AddTask(c, n, t)
        PROVE  OriginInv'
    BY <2>2, OriginLink DEF SCH_AddTask, buildVars
  <2>3. ASSUME NEW b \in Buckets, NEW i \in DOMAIN table[b],
               SCH_DeleteTask(c, b, i) \/ \E t \in TASKS : SCH_ModifyTask(c, b, i, t)
        PROVE  OriginInv'
    BY <2>3 DEF SCH_DeleteTask, SCH_ModifyTask, CanCall
  <2>4. ASSUME NEW n \in Nodes, ModifyAdds(c, n) PROVE OriginInv'
    <3>1. newTask[c] \in TASKS
      BY <2>4 DEF ModifyAdds, IInv, TypeOK
    <3> QED BY <2>4, <3>1, OriginLink DEF ModifyAdds, buildVars
  <2>5. CASE ModifyFails(c) \/ SCH_StopScheduler(c) \/ WaitForScheduler(c)
    BY <2>5, OriginFrame DEF ModifyFails, SCH_StopScheduler, WaitForScheduler,
                             tableVars, buildVars
  <2> QED BY <2>1, <2>2, <2>3, <2>4, <2>5
<1>3. CASE Tick \/ UNCHANGED vars
  BY <1>3, OriginFrame DEF Tick, vars, tableVars, buildVars
<1>4. CASE Wake \/ Top \/ HourlyCheck \/ Recheck
  BY <1>1, <1>4, OriginFrame DEF Wake, Top, HourlyCheck, Recheck, tableVars,
                                 buildVars
<1>5. CASE ClearMasterTable
  <2>1. /\ table' = [b \in Buckets |-> << >>] /\ pTemp' = NULL
        /\ execList' = execList /\ buildTime' = buildTime
    BY <1>1, <1>5 DEF ClearMasterTable, buildVars
  <2>2. \A b \in Buckets : \A i \in DOMAIN table'[b] : FALSE
    BY <2>1
  <2> QED BY <2>1, <2>2 DEF OriginInv
<1>6. CASE AutoCleanStarts \/ AutoCleanAdvances
  BY <1>1, <1>6, OriginFrame DEF AutoCleanStarts, AutoCleanAdvances, tableVars,
                                 buildVars
<1>7. CASE AutoCleanRemoves
  BY <1>7, OriginClean
<1>8. CASE BuildStarts
  <2>1. /\ execList' = << >> /\ pTemp' = First(EVERY_HOUR_TASK)
        /\ pc' = "everyHour" /\ table' = table /\ task' = task
    BY <1>8 DEF BuildStarts
  <2>2. WalkedBucket' = EVERY_HOUR_TASK
    BY <2>1 DEF WalkedBucket
  <2>3. pTemp' # NULL => \E i \in DOMAIN table'[WalkedBucket'] :
                            table'[WalkedBucket'][i] = pTemp'
    BY <1>1, <2>1, <2>2, FirstInBucket
  <2> QED BY <2>1, <2>3 DEF OriginInv
<1>9. CASE VisitEveryHour
  <2>1. CASE pTemp # NULL
    <3> DEFINE s == EveryHourEntries(task[pTemp], buildTime, ui32NoOfExec)
    <3>1. /\ execList' = execList \o s /\ pTemp' = NextNode(pTemp)
          /\ pc' = pc /\ table' = table /\ task' = task
          /\ buildTime' = buildTime /\ WalkedBucket = EVERY_HOUR_TASK
      BY <1>9, <2>1 DEF VisitEveryHour, tableVars, WalkedBucket
    <3>2. /\ task[pTemp] \in TASKS /\ Accepted(task[pTemp])
          /\ Bucket(task[pTemp]) = EVERY_HOUR_TASK
      BY <2>1, <3>1, VisitedTask
    <3>3. s \in Seq(EntryType)
      BY <1>1, <3>2, EntriesTypes
    <3>4. \A i \in DOMAIN s : ListedFor(task[pTemp], s[i], buildTime)
      BY <1>1, <3>2, EveryHourListed
    <3> HIDE DEF s
    <3> QED BY <2>1, <3>1, <3>3, <3>4, OriginVisit
  <2>2. CASE pTemp = NULL
    <3>1. /\ execList' = execList /\ pTemp' = First(Hour(buildTime))
          /\ pc' = "thisHour" /\ table' = table /\ task' = task
          /\ buildTime' = buildTime
      BY <1>9, <2>2 DEF VisitEveryHour, tableVars
    <3>2. WalkedBucket' = Hour(buildTime)
      BY <3>1 DEF WalkedBucket
    <3>3. pTemp' # NULL => \E i \in DOMAIN table'[WalkedBucket'] :
                              table'[WalkedBucket'][i] = pTemp'
      BY <1>1, <3>1, <3>2, FirstInBucket
    <3> QED BY <3>1, <3>3 DEF OriginInv
  <2> QED BY <2>1, <2>2
<1>10. CASE VisitThisHour
  <2>1. CASE pTemp # NULL
    <3> DEFINE s == HourEntries(task[pTemp], buildTime)
    <3>1. /\ execList' = execList \o s /\ pTemp' = NextNode(pTemp)
          /\ pc' = pc /\ table' = table /\ task' = task
          /\ buildTime' = buildTime /\ WalkedBucket = Hour(buildTime)
      BY <1>10, <2>1 DEF VisitThisHour, tableVars, WalkedBucket
    <3>2. /\ task[pTemp] \in TASKS /\ Accepted(task[pTemp])
          /\ Bucket(task[pTemp]) = Hour(buildTime)
      BY <2>1, <3>1, VisitedTask
    <3>3. s \in Seq(EntryType)
      BY <1>1, <3>2, EntriesTypes
    <3>4. \A i \in DOMAIN s : ListedFor(task[pTemp], s[i], buildTime)
      BY <1>1, <3>2, HourListed
    <3> HIDE DEF s
    <3> QED BY <2>1, <3>1, <3>3, <3>4, OriginVisit
  <2>2. CASE pTemp = NULL
    BY <1>10, <2>2, OriginFrame DEF VisitThisHour, tableVars
  <2> QED BY <2>1, <2>2
<1>11. CASE ResetFlags \/ SortStarts \/ SortEnds
  BY <1>1, <1>11, OriginFrame DEF ResetFlags, SortStarts, SortEnds, tableVars,
                                  buildVars
<1>12. CASE SortSwaps
  <2>1. \A i \in DOMAIN execList' :
            \E j \in DOMAIN execList : execList'[i] = execList[j]
    <3>1. PICK k \in 1 .. Len(execList) - 1 :
              execList' = [execList EXCEPT ![k] = execList[k + 1],
                                           ![k + 1] = execList[k]]
      BY <1>12 DEF SortSwaps
    <3>2. k \in DOMAIN execList /\ k + 1 \in DOMAIN execList
      BY <1>1
    <3> QED BY <1>1, <3>1, <3>2
  <2> QED BY <1>1, <1>12, <2>1, OriginFrame DEF SortSwaps, tableVars, buildVars
<1>13. CASE SkipTask \/ RunTask \/ RunTaskAtEndOfHour
  <2>1. /\ execList # << >> /\ execList' = Tail(execList) /\ pTemp = NULL
        /\ UNCHANGED <<table, task, pTemp, buildTime>>
    BY <1>1, <1>13 DEF SkipTask, RunTask, RunTaskAtEndOfHour, InLoop,
                       tableVars, buildVars
  <2>2. \A i \in DOMAIN execList' :
            \E j \in DOMAIN execList : execList'[i] = execList[j]
    BY <1>1, <2>1
  <2> QED BY <2>1, <2>2, OriginFrame
<1>14. CASE \/ LoopEnds \/ LoopStops \/ NothingDue \/ SleepTillNextTask
            \/ Woken \/ UnlockForSafety
  BY <1>1, <1>14, OriginFrame DEF LoopEnds, LoopStops, NothingDue, InLoop,
                                  SleepTillNextTask, Woken, UnlockForSafety,
                                  tableVars, buildVars
<1> QED BY <1>2, <1>3, <1>4, <1>5, <1>6, <1>7, <1>8, <1>9, <1>10, <1>11, <1>12,
           <1>13, <1>14 DEF Next, SchedulerStep

\* The call of the head of the list comes when its task is due.
LEMMA DueStep ==
    ASSUME IntervalsOfAnHour, HourIInv, OriginInv, RunWhenDue, [Next]_vars
    PROVE  RunWhenDue'
<1>1. CASE ran' = ran
  BY <1>1 DEF RunWhenDue
<1>2. CASE ran' # ran
  <2>1. /\ RunTask \/ RunTaskAtEndOfHour
        /\ execList # << >>
        /\ HourIndex(buildTime) = HourIndex(now)
    BY <1>2, CallStep
  <2>2. execList \in Seq(EntryType) /\ now \in Nat /\ buildTime \in Nat
    BY DEF HourIInv, LoopIInv, IInv, TypeOK
  <2>3. /\ 1 \in DOMAIN execList /\ Head(execList) = execList[1]
        /\ execList[1] \in EntryType
    BY <2>1, <2>2
  <2>4. PICK t \in TASKS : ListedFor(t, execList[1], buildTime)
    BY <2>3 DEF OriginInv
  <2>5. ran'.vpArg = t.vpArg /\ ran'.at = now
    BY <2>1, <2>3, <2>4 DEF RunTask, RunTaskAtEndOfHour, Call, ListedFor
  <2>6. Hour(now) = Hour(buildTime) /\ Day(now) = Day(buildTime)
    BY <2>1, <2>2, SameHourSameDay
  <2>7. OnItsDay(t, now)
    <3>1. OnItsDay(t, buildTime)
      BY <2>4 DEF ListedFor
    <3>2. WeekDay(now) = WeekDay(buildTime) /\ MonthDay(now) = MonthDay(buildTime)
      BY <2>6 DEF WeekDay, MonthDay
    <3> QED BY <3>1, <3>2 DEF OnItsDay
  <2>8. /\ t.sec \in 0 .. NO_SECS_IN_HOUR - 1 /\ NO_SECS_IN_HOUR \in Nat
        /\ SecOfHour(now) \in 0 .. NO_SECS_IN_HOUR - 1
        /\ Due = execList[1].ui32Interval
        /\ t.ePCity = "SCH_SEC_MIN_HOUR" => t.ui32Interval <= NO_SECS_IN_HOUR
    BY <2>2, <2>3, CalendarTypes, SchedulerAssumption, CalendarAssumption
       DEF TaskType, Due, IntervalsOfAnHour
  <2>9. OnItsSecond(t, now)
    <3>1. CASE RunTask
      <4>1. SecOfHour(now) = Due
        BY <3>1 DEF RunTask
      <4> QED BY <4>1, <2>4, <2>6, <2>8 DEF OnItsSecond, ListedFor
    <3>2. CASE RunTaskAtEndOfHour
      <4>1. SecOfHour(now) = NO_SECS_IN_HOUR - 1 /\ Due = NO_SECS_IN_HOUR
        BY <3>2 DEF RunTaskAtEndOfHour, EndOfHour
      <4>2. t.ePCity = "SCH_SEC_MIN_HOUR"
        BY <4>1, <2>4, <2>8 DEF ListedFor
      <4> QED BY <4>1, <4>2, <2>4, <2>8 DEF OnItsSecond, ListedFor
    <3> QED BY <2>1, <3>1, <3>2
  <2> QED BY <2>5, <2>7, <2>9 DEF RunWhenDue
<1> QED BY <1>1, <1>2

\* In a daemon that only adds tasks, with intervals of at most an hour and on all
\* days, and on a machine without delays, a task's function is only called at a
\* second, in an hour and on a day for which the task was submitted: for every
\* calendar and polling period and every such set of tasks, through the build
\* without the mutex, the sort, the clean, the shortened sleeps, the busy wait
\* and the end of the hour.
THEOREM TasksRunWhenDue ==
    ASSUME MaxLag = 0, MaxNow + 1 < UI32_SPAN, IntervalsOfAnHour,
           ClientCalls \cap {"delete", "modify"} = {}
    PROVE  Spec => []RunWhenDue
<1>1. Init => OriginInv /\ RunWhenDue
  BY DEF Init, OriginInv, RunWhenDue, NoCall
<1>2. HourIInv /\ OriginInv /\ RunWhenDue /\ [Next]_vars
          => (OriginInv /\ RunWhenDue)'
  BY OriginStep, DueStep DEF HourIInv, LoopIInv
<1> QED BY <1>1, <1>2, HourInvariant, PTL DEF Spec

-----------------------------------------------------------------------------
(* The build of every hour.                                                *)

\* A sleep computed within an hour for an entry of that hour is at most a
\* polling period long.
LEMMA SleepShort ==
    ASSUME NEW d \in Nat, NEW x \in 0 .. NO_SECS_IN_HOUR - 1, x < d,
           d <= NO_SECS_IN_HOUR
    PROVE  SleepArgument(d, x) <= CHECK_STATUS_TIME
<1> DEFINE m == UI32_SPAN
           c == CHECK_STATUS_TIME
           e == d - x
<1>1. NO_SECS_IN_HOUR \in Nat \ {0} /\ c \in Nat \ {0} /\ x \in Nat
  BY SchedulerAssumption, CalendarAssumption
<1>2. m \in Nat \ {0} /\ m > NO_SECS_IN_HOUR
  <2>1. /\ NO_SECS_IN_DAY \in Nat \ {0}
        /\ NO_SECS_IN_DAY * NO_SECS_IN_HOUR >= NO_SECS_IN_HOUR
    BY CalendarAssumption DEF NO_SECS_IN_DAY
  <2> QED BY <2>1, SchedulerAssumption, CalendarAssumption
<1> HIDE DEF m, c, e
<1>3. e \in 1 .. m - 1
  BY <1>1, <1>2 DEF e
<1>4. e % m = e /\ (e - 1) % m = e - 1
  <2>1. \A r \in 0 .. m - 1 : r % m = r
    <3> SUFFICES ASSUME NEW r \in 0 .. m - 1 PROVE r % m = r
      OBVIOUS
    <3>1. (m * 0 + r) % m = r
      BY <1>2, ModUnique
    <3>2. m * 0 + r = r
      BY <1>2
    <3> QED BY <3>1, <3>2
  <2> QED BY <1>2, <1>3, <2>1
<1>5. SleepTime(d, x) = e
  BY <1>4 DEF SleepTime, e, m
<1>6. SleepTime(d, x) # 0
  BY <1>3, <1>5
<1> QED BY <1>6, PollBound

\* The repetitions of a task with an interval of at most an hour are in it.
LEMMA EveryHourInHour ==
    ASSUME TasksOfAnHour, NEW t \in TASKS, Accepted(t),
           Bucket(t) = EVERY_HOUR_TASK, NEW at \in Nat, NEW k \in Nat,
           NEW i \in DOMAIN EveryHourEntries(t, at, k)
    PROVE  /\ EveryHourEntries(t, at, k)[i].ui32Interval <= NO_SECS_IN_HOUR
           /\ EveryHourEntries(t, at, k)[i].ui32Interval \notin BusySeconds
<1> DEFINE h == NO_SECS_IN_HOUR
           v == t.ui32Interval
<1>1. /\ v \in Nat /\ t.hour \in 0 .. NO_HOUR_IN_DAY - 1
      /\ h \in Nat \ {0} /\ NO_HOUR_IN_DAY \in Nat
  BY SchedulerAssumption, CalendarAssumption DEF TaskType
<1>2. /\ t.ePCity = "SCH_SEC_MIN_HOUR" /\ v \in Nat \ {0} /\ v <= h
      /\ t.eWeekDay = SCH_ALL_DAYS
  BY <1>1 DEF Bucket, EVERY_HOUR_TASK, Accepted, TasksOfAnHour,
              IntervalsOfAnHour
<1>9. \A j \in 1 .. h : v * j \notin BusySeconds
  BY <1>2 DEF TasksOfAnHour
<1>3. Repeats(t, at)
  BY <1>2 DEF Repeats, OnThisDay
<1>4. NoOfExec(t, at, k) = h \div v /\ IntervalInHour(t, at) = v
  BY <1>1, <1>2, <1>3 DEF NoOfExec, IntervalInHour
<1>5. /\ i \in 1 .. h \div v
      /\ EveryHourEntries(t, at, k)[i].ui32Interval = v * i
  BY <1>4 DEF EveryHourEntries
<1> HIDE DEF h, v
<1>6. /\ h = v * (h \div v) + (h % v)
      /\ h \div v \in Nat /\ h % v \in 0 .. v - 1
  BY <1>1, <1>2, DivMod
<1>7. v * i <= v * (h \div v)
  <2>1. PICK q \in Nat : q = h \div v
    BY <1>6
  <2>2. i \in Nat /\ q - i \in Nat
    BY <1>5, <2>1
  <2>3. v * (q - i) >= 0 /\ v * (q - i) = v * q - v * i
    BY <1>2, <2>1, <2>2
  <2>4. v * q \in Nat /\ v * i \in Nat
    BY <1>2, <2>1, <2>2
  <2> QED BY <2>1, <2>3, <2>4
<1>8. v * (h \div v) \in Nat /\ v * i \in Nat /\ i \in Nat \ {0}
  BY <1>2, <1>5, <1>6
<1>10. v * i <= h
  BY <1>1, <1>2, <1>6, <1>7, <1>8
<1>11. i <= v * i
  BY <1>2, <1>8
<1>12. v * i \notin BusySeconds
  <2>1. i \in 1 .. h
    BY <1>1, <1>8, <1>10, <1>11
  <2> QED BY <1>9, <2>1
<1> QED BY <1>5, <1>10, <1>12 DEF h

\* So is the second of a task of the hour.
LEMMA HourEntryInHour ==
    ASSUME TasksOfAnHour, NEW t \in TASKS, NEW at \in Nat,
           NEW i \in DOMAIN HourEntries(t, at)
    PROVE  /\ HourEntries(t, at)[i].ui32Interval <= NO_SECS_IN_HOUR
           /\ HourEntries(t, at)[i].ui32Interval \notin BusySeconds
<1>1. t.sec \in 0 .. NO_SECS_IN_HOUR - 1 /\ NO_SECS_IN_HOUR \in Nat
  BY SchedulerAssumption, CalendarAssumption DEF TaskType
<1>2. HourEntries(t, at)[i].ui32Interval = t.sec
  BY DEF HourEntries
<1>3. t.ePCity # "SCH_SEC_MIN_HOUR"
  BY DEF HourEntries, InThisHourList
<1> QED BY <1>1, <1>2, <1>3 DEF TasksOfAnHour

\* No step puts an entry beyond the end of the hour, or one for which the loop
\* would wait busily, on the list.
LEMMA EntriesStep ==
    ASSUME TasksOfAnHour, IInv, OriginInv, EntriesInHour, [Next]_vars
    PROVE  EntriesInHour'
<1> DEFINE Fits(e) == /\ e.ui32Interval <= NO_SECS_IN_HOUR
                      /\ e.ui32Interval \notin BusySeconds
           Kept(s) == \A i \in DOMAIN s : Fits(s[i])
<1>1. /\ execList \in Seq(EntryType) /\ buildTime \in Nat /\ ui32NoOfExec \in Nat
  BY DEF IInv, TypeOK
<1>2. EntriesInHour' <=> Kept(execList')
  BY DEF EntriesInHour, BusySeconds
<1>3. Kept(execList)
  BY DEF EntriesInHour
<1>4. ASSUME NEW s \in Seq(EntryType), Kept(s) PROVE Kept(execList \o s)
  BY <1>1, <1>3, <1>4
<1>5. CASE UNCHANGED execList
  BY <1>2, <1>3, <1>5
<1>6. CASE execList' = << >>
  BY <1>2, <1>6
<1>7. CASE VisitEveryHour /\ pTemp # NULL
  <2>1. /\ task[pTemp] \in TASKS /\ Accepted(task[pTemp])
        /\ Bucket(task[pTemp]) = EVERY_HOUR_TASK
    BY <1>7, VisitedTask DEF VisitEveryHour, WalkedBucket
  <2> DEFINE s == EveryHourEntries(task[pTemp], buildTime, ui32NoOfExec)
  <2>2. s \in Seq(EntryType)
    BY <1>1, <2>1, EntriesTypes
  <2>3. Kept(s)
    BY <1>1, <2>1, EveryHourInHour
  <2>4. execList' = execList \o s
    BY <1>7 DEF VisitEveryHour
  <2> HIDE DEF s
  <2> QED BY <1>2, <1>4, <2>2, <2>3, <2>4
<1>8. CASE VisitThisHour /\ pTemp # NULL
  <2>1. task[pTemp] \in TASKS /\ Accepted(task[pTemp])
    BY VisitedTask, <1>8
  <2> DEFINE s == HourEntries(task[pTemp], buildTime)
  <2>2. s \in Seq(EntryType)
    BY <1>1, <2>1, EntriesTypes
  <2>3. Kept(s)
    BY <1>1, <2>1, HourEntryInHour
  <2>4. execList' = execList \o s
    BY <1>8 DEF VisitThisHour
  <2> HIDE DEF s
  <2> QED BY <1>2, <1>4, <2>2, <2>3, <2>4
<1>9. CASE SortSwaps
  <2>1. PICK i \in 1 .. Len(execList) - 1 :
            execList' = [execList EXCEPT ![i] = execList[i + 1],
                                         ![i + 1] = execList[i]]
    BY <1>9 DEF SortSwaps
  <2>2. i \in DOMAIN execList /\ i + 1 \in DOMAIN execList
    BY <1>1, <2>1
  <2>3. /\ DOMAIN execList' = DOMAIN execList
        /\ \A j \in DOMAIN execList :
              execList'[j] \in {execList[j], execList[i], execList[i + 1]}
    BY <1>1, <2>1, <2>2
  <2> QED BY <1>2, <1>3, <2>2, <2>3
<1>10. CASE SkipTask \/ RunTask \/ RunTaskAtEndOfHour
  <2>1. execList # << >> /\ execList' = Tail(execList)
    BY <1>10 DEF SkipTask, RunTask, RunTaskAtEndOfHour, InLoop
  <2>2. \A i \in DOMAIN execList' :
           i + 1 \in DOMAIN execList /\ execList'[i] = execList[i + 1]
    BY <1>1, <2>1
  <2> QED BY <1>2, <1>3, <2>2
<1>11. \/ execList' \in {execList, << >>}
       \/ (VisitEveryHour /\ pTemp # NULL)
       \/ (VisitThisHour /\ pTemp # NULL)
       \/ SortSwaps \/ SkipTask \/ RunTask \/ RunTaskAtEndOfHour
  BY DEF Next, SchedulerStep, ClientStep, SCH_AddTask, SCH_DeleteTask,
         SCH_ModifyTask, ModifyAdds, ModifyFails, SCH_StopScheduler,
         WaitForScheduler, Tick, vars, Wake, Top, ClearMasterTable,
         HourlyCheck, Recheck, AutoCleanStarts, AutoCleanRemoves,
         AutoCleanAdvances, BuildStarts, VisitEveryHour, VisitThisHour,
         ResetFlags, SortStarts, SortEnds, LoopEnds, LoopStops, NothingDue,
         SleepTillNextTask, Woken, UnlockForSafety
<1> QED BY <1>5, <1>6, <1>7, <1>8, <1>9, <1>10, <1>11

\* A client step changes no more than the flags as far as the rebuild goes, and
\* announces a task only early in the hour.
LEMMA RebuildClient ==
    ASSUME QuietEndOfHour, TypeOK, RebuildInv, ClientStep,
           ClientCalls \cap {"delete", "modify"} = {},
           \A c \in Clients : client[c] # "modify"
    PROVE  (SleepInv /\ ChangeInv /\ PollInv /\ HourlyInv /\ FreshInv)'
<1> USE DEF RebuildInv
<1>1. /\ UNCHANGED <<now, pc, wake, afterSleep, pCurrTime, bHourlySchedule,
                     buildTime, execList>>
      /\ gbStopScheduler => gbStopScheduler'
      /\ gbTaskChanged => gbTaskChanged'
      /\ gbTaskChanged' # gbTaskChanged =>
            gbTaskChanged' /\ pc # "dead" /\ SecOfHour(now) \in ClientSeconds
  BY DEF ClientStep, SCH_AddTask, SCH_DeleteTask, SCH_ModifyTask, ModifyAdds,
         ModifyFails, SCH_StopScheduler, WaitForScheduler, CanCall, Link, Free,
         sleepVars, clockVars, localVars, flagVars, buildVars, TypeOK
<1>2. /\ Left' = Left /\ Remaining' = Remaining
      /\ ListOfThisHour' = ListOfThisHour
  BY <1>1 DEF Left, Remaining, ListOfThisHour, SecOfHour, HourIndex
<1>3. SleepInv' /\ PollInv' /\ HourlyInv' /\ FreshInv'
  BY <1>1, <1>2 DEF SleepInv, PollInv, HourlyInv, FreshInv, Due, TypeOK
<1>4. ChangeInv'
  <2>1. CASE gbTaskChanged' = gbTaskChanged
    BY <1>1, <1>2, <2>1 DEF ChangeInv
  <2>2. CASE gbTaskChanged' # gbTaskChanged
    <3>1. /\ NO_SECS_IN_HOUR \in Nat /\ CHECK_STATUS_TIME \in 1 .. NO_SECS_IN_HOUR - 1
          /\ now \in Nat /\ wake \in Nat
          /\ SecOfHour(now) \in 0 .. NO_SECS_IN_HOUR - 1
      BY CalendarTypes, CalendarAssumption, SchedulerAssumption DEF TypeOK
    <3>2. Left > 2 * CHECK_STATUS_TIME /\ Left \in Nat /\ Remaining \in Int
      BY <1>1, <2>2, <3>1 DEF Left, Remaining, QuietEndOfHour
    <3>3. pc = "sleep" => Remaining <= CHECK_STATUS_TIME
      BY <3>1, <3>2 DEF SleepInv
    <3> QED BY <1>1, <1>2, <3>1, <3>2, <3>3 DEF ChangeInv
  <2> QED BY <2>1, <2>2
<1> QED BY <1>3, <1>4

\* The clock only goes on while the thread sleeps, and not past its waking.
LEMMA RebuildTick ==
    ASSUME MaxLag = 0, TasksOfAnHour, IInv, RebuildInv, Tick
    PROVE  (SleepInv /\ ChangeInv /\ PollInv /\ HourlyInv /\ FreshInv)'
<1> USE DEF RebuildInv
<1>1. /\ UNCHANGED <<pc, wake, afterSleep, pCurrTime, bHourlySchedule,
                     buildTime, execList, gbTaskChanged, gbStopScheduler>>
      /\ now' = now + 1
  BY DEF Tick, sleepVars, localVars, flagVars, buildVars
<1>2. now \in Nat /\ wake \in Nat /\ ~Ready
  BY DEF IInv, TypeOK, Tick
<1>3. ~Spinning
  <2> SUFFICES ASSUME Spinning PROVE FALSE
    OBVIOUS
  <2>1. PICK i \in DOMAIN table[bucket] : OneShot(table[bucket][i])
    BY DEF Spinning, CleanNext
  <2>2. bucket \in Buckets /\ table[bucket] \in Seq(Nodes)
    BY DEF IInv, TypeOK
  <2>3. task[table[bucket][i]] \in TASKS
    <3>1. table[bucket][i] \in Nodes
      BY <2>2
    <3> QED BY <2>2, <3>1 DEF IInv, TypeOK, HeapInv
  <2> QED BY <2>1, <2>3 DEF OneShot, TasksOfAnHour
<1>4. CASE pc = "dead"
  BY <1>1, <1>4 DEF SleepInv, ChangeInv, PollInv, HourlyInv, FreshInv
<1>6. ~BusyWaiting
  <2> SUFFICES ASSUME BusyWaiting PROVE FALSE
    OBVIOUS
  <2>1. execList \in Seq(EntryType) /\ execList # << >>
    BY DEF IInv, TypeOK, BusyWaiting
  <2>2. 1 \in DOMAIN execList /\ Due = execList[1].ui32Interval
    BY <2>1 DEF Due
  <2>3. Due \notin BusySeconds
    BY <2>2 DEF EntriesInHour
  <2>4. /\ SecOfHour(now) \in 0 .. NO_SECS_IN_HOUR - 1 /\ NO_SECS_IN_HOUR \in Nat
        /\ CHECK_STATUS_TIME \in Nat
    BY <1>2, CalendarTypes, CalendarAssumption, SchedulerAssumption
  <2> QED BY <2>3, <2>4 DEF BusyWaiting, BusySeconds
<1>5. CASE pc # "dead"
  <2>1. pc = "sleep" /\ now < wake
    BY <1>2, <1>3, <1>5, <1>6 DEF Ready
  <2>2. /\ NO_SECS_IN_HOUR \in Nat /\ CHECK_STATUS_TIME \in 1 .. NO_SECS_IN_HOUR - 1
        /\ SecOfHour(now) \in 0 .. NO_SECS_IN_HOUR - 1
    BY <1>2, CalendarTypes, CalendarAssumption, SchedulerAssumption
  <2>3. Remaining \in Nat \ {0} /\ Remaining' = Remaining - 1
    BY <1>1, <1>2, <2>1 DEF Remaining
  <2>4. /\ Left \in 1 .. NO_SECS_IN_HOUR
        /\ Left' = IF Left = 1 THEN NO_SECS_IN_HOUR ELSE Left - 1
    BY <1>1, <1>2, <2>2, NextSecond DEF Left
  <2>5. ListOfThisHour /\ Left # 1 => ListOfThisHour'
    <3> SUFFICES ASSUME ListOfThisHour, Left # 1 PROVE ListOfThisHour'
      OBVIOUS
    <3>1. SecOfHour(now) + 1 < NO_SECS_IN_HOUR
      BY <2>2 DEF Left
    <3>2. HourIndex(now + 1) = HourIndex(now)
      BY <1>2, <3>1, HourGoesOn
    <3> QED BY <1>1, <3>2 DEF ListOfThisHour, HourIndex
  <2>6. SleepInv'
    BY <1>1, <2>1, <2>2, <2>3, <2>4, <2>5 DEF SleepInv
  <2>7. ChangeInv'
    BY <1>1, <2>1, <2>2, <2>3, <2>4 DEF ChangeInv
  <2>8. PollInv' /\ HourlyInv'
    BY <1>1, <2>1 DEF PollInv, HourlyInv
  <2>9. FreshInv'
    BY <1>1, <2>1, <2>2, <2>3, <2>4, <2>5 DEF FreshInv, SleepInv
  <2> QED BY <2>6, <2>7, <2>8, <2>9
<1> QED BY <1>4, <1>5

\* The way round the outer loop, up to the build.
LEMMA RebuildOuter ==
    ASSUME TypeOK, RebuildInv,
           \/ Wake \/ Top \/ ClearMasterTable \/ HourlyCheck \/ Recheck
           \/ AutoCleanStarts \/ AutoCleanRemoves \/ AutoCleanAdvances
           \/ UnlockForSafety
    PROVE  (SleepInv /\ ChangeInv /\ PollInv /\ HourlyInv /\ FreshInv)'
<1> USE DEF RebuildInv
<1> DEFINE h == NO_SECS_IN_HOUR
           c == CHECK_STATUS_TIME
<1>1. /\ UNCHANGED <<now, buildTime, gbTaskChanged>>
      /\ now \in Nat /\ wake \in Nat
  BY DEF Wake, Top, ClearMasterTable, HourlyCheck, Recheck, AutoCleanStarts,
         AutoCleanRemoves, AutoCleanAdvances, UnlockForSafety, GoTo, Sleep,
         clockVars, flagVars, buildVars, TypeOK
<1>2. /\ h \in Nat /\ c \in 1 .. h - 1
      /\ SecOfHour(now) \in 0 .. h - 1
  BY <1>1, CalendarTypes, CalendarAssumption, SchedulerAssumption
<1>3. /\ Left \in 1 .. h /\ Left' = Left /\ Left = h - SecOfHour(now)
      /\ ListOfThisHour' = ListOfThisHour
  BY <1>1, <1>2 DEF Left, ListOfThisHour, SecOfHour, HourIndex
<1>4. Remaining \in Int
  BY <1>1 DEF Remaining
<1>5. CASE Wake
  <2>1. /\ pc = "sleep" /\ Remaining <= 0 /\ pc' = afterSleep
        /\ afterSleep \in {"top", "recheck", "woken", "unlock"}
        /\ UNCHANGED <<bHourlySchedule, pCurrTime, gbStopScheduler, execList>>
    BY <1>1, <1>5 DEF Wake, Remaining, TypeOK, localVars, flagVars
  <2>2. afterSleep \in {"recheck", "unlock"} => bHourlySchedule /\ Left = h
    BY <1>2, <1>3, <1>4, <2>1 DEF SleepInv
  <2>3. afterSleep \in {"top", "woken"} => ~bHourlySchedule /\ ListOfThisHour
    BY <2>1 DEF SleepInv
  <2>4. SleepInv' /\ PollInv' /\ HourlyInv' /\ FreshInv'
    BY <1>2, <1>3, <2>1, <2>2, <2>3
       DEF SleepInv, PollInv, HourlyInv, FreshInv, Due
  <2>5. ChangeInv'
    <3>1. gbTaskChanged => Left > c
      <4>1. Remaining >= 0
        BY <1>2, <1>3, <1>4, <2>1 DEF SleepInv
      <4> QED BY <1>2, <1>3, <1>4, <2>1, <4>1 DEF ChangeInv
    <3> QED BY <1>1, <1>3, <2>1, <3>1 DEF ChangeInv
  <2> QED BY <2>4, <2>5
<1>6. CASE Top
  <2>1. /\ pc = "top" /\ UNCHANGED bHourlySchedule
        /\ \/ pc' = "clearMaster"
           \/ pc' = "hourly" /\ ~gbStopScheduler /\ pCurrTime' = now
    BY <1>6 DEF Top, GoTo
  <2> QED BY <1>1, <1>2, <1>3, <2>1
          DEF SleepInv, ChangeInv, PollInv, HourlyInv, FreshInv
<1>7. CASE ClearMasterTable
  <2>1. pc' = "dead" /\ UNCHANGED bHourlySchedule
    BY <1>7 DEF ClearMasterTable, GoTo, localVars
  <2> QED BY <1>1, <2>1 DEF SleepInv, ChangeInv, PollInv, HourlyInv, FreshInv
<1>8. CASE HourlyCheck
  <2>1. pc = "hourly" /\ pCurrTime = now /\ h - SecOfHour(pCurrTime) = Left
    BY <1>3, <1>8 DEF HourlyCheck, PollInv
  <2>2. CASE ~bHourlySchedule /\ ~gbTaskChanged /\ Left <= c
    <3>1. /\ pc' = "sleep" /\ wake' = now + Left /\ afterSleep' = "recheck"
          /\ bHourlySchedule' = TRUE
      BY <1>8, <2>1, <2>2 DEF HourlyCheck, NearHourEnd, Sleep
    <3>2. Remaining' = Left
      BY <1>1, <1>3, <3>1 DEF Remaining
    <3>3. ListOfThisHour
      BY <2>1, <2>2 DEF FreshInv
    <3> QED BY <1>1, <1>3, <2>2, <3>1, <3>2, <3>3
            DEF SleepInv, ChangeInv, PollInv, HourlyInv, FreshInv
  <2>3. CASE ~(~bHourlySchedule /\ ~gbTaskChanged /\ Left <= c)
    <3>1. pc' = "recheck" /\ bHourlySchedule' = bHourlySchedule
      BY <1>8, <2>1, <2>3 DEF HourlyCheck, NearHourEnd, GoTo
    <3> QED BY <1>1, <1>2, <1>3, <2>1, <2>3, <3>1
            DEF SleepInv, ChangeInv, PollInv, HourlyInv, FreshInv
  <2> QED BY <2>2, <2>3
<1>9. CASE Recheck
  <2>1. CASE ~gbTaskChanged /\ ~bHourlySchedule
    <3>1. /\ pc = "recheck" /\ pc' = "sleep" /\ wake' = now + c
          /\ afterSleep' = "top" /\ bHourlySchedule' = FALSE
      BY <1>9, <2>1 DEF Recheck, Sleep, localVars, TypeOK
    <3>2. Remaining' = c
      BY <1>1, <1>2, <3>1 DEF Remaining
    <3>3. Left > c /\ ListOfThisHour
      BY <2>1, <3>1 DEF PollInv, FreshInv
    <3> QED BY <1>1, <1>2, <1>3, <2>1, <3>1, <3>2, <3>3
            DEF SleepInv, ChangeInv, PollInv, HourlyInv, FreshInv
  <2>2. CASE gbTaskChanged \/ bHourlySchedule
    <3>1. pc = "recheck" /\ pc' = "autoClean" /\ UNCHANGED bHourlySchedule
      BY <1>9, <2>2 DEF Recheck, GoTo, localVars
    <3>2. Left > c
      BY <1>2, <2>2, <3>1 DEF ChangeInv, HourlyInv
    <3> QED BY <1>1, <1>3, <3>1, <3>2
            DEF SleepInv, ChangeInv, PollInv, HourlyInv, FreshInv
  <2> QED BY <2>1, <2>2 DEF TypeOK
<1>10. CASE AutoCleanStarts \/ AutoCleanRemoves \/ AutoCleanAdvances
  <2>1. /\ pc \in {"autoClean", "cleaning"} /\ pc' \in {"cleaning", "clear"}
        /\ UNCHANGED bHourlySchedule
    BY <1>10 DEF AutoCleanStarts, AutoCleanRemoves, AutoCleanAdvances, GoTo,
                 localVars
  <2> QED BY <1>1, <1>3, <2>1
          DEF SleepInv, ChangeInv, PollInv, HourlyInv, FreshInv
<1>11. CASE UnlockForSafety
  <2>1. /\ pc = "unlock" /\ pc' = "top"
        /\ UNCHANGED <<bHourlySchedule, gbStopScheduler>>
    BY <1>11 DEF UnlockForSafety, GoTo, localVars, flagVars
  <2> QED BY <1>1, <1>3, <2>1
          DEF SleepInv, ChangeInv, PollInv, HourlyInv, FreshInv
<1> QED BY <1>5, <1>6, <1>7, <1>8, <1>9, <1>10, <1>11

\* The build and the sort, up to the execution loop.
LEMMA RebuildBuild ==
    ASSUME TypeOK, HourInv, RebuildInv,
           \/ BuildStarts \/ VisitEveryHour \/ VisitThisHour \/ ResetFlags
           \/ SortStarts \/ SortSwaps \/ SortEnds
    PROVE  (SleepInv /\ ChangeInv /\ PollInv /\ HourlyInv /\ FreshInv)'
<1> USE DEF RebuildInv
<1> DEFINE h == NO_SECS_IN_HOUR
           c == CHECK_STATUS_TIME
<1>1. now' = now /\ now \in Nat
  BY DEF BuildStarts, VisitEveryHour, VisitThisHour, ResetFlags, SortStarts,
         SortSwaps, SortEnds, GoTo, Sleep, clockVars, TypeOK
<1>2. /\ h \in Nat /\ c \in 1 .. h - 1
      /\ SecOfHour(now) \in 0 .. h - 1
  BY <1>1, CalendarTypes, CalendarAssumption, SchedulerAssumption
<1>3. Left \in 1 .. h /\ Left' = Left
  BY <1>1, <1>2 DEF Left, SecOfHour
<1>4. buildTime' = now /\ ListOfThisHour'
  <2>1. buildTime' = now
    BY DEF BuildStarts, VisitEveryHour, VisitThisHour, ResetFlags, SortStarts,
           SortSwaps, SortEnds, buildVars, HourInv
  <2> QED BY <1>1, <2>1 DEF ListOfThisHour, HourIndex
<1>5. CASE BuildStarts \/ VisitEveryHour \/ VisitThisHour
  <2>1. /\ pc \in {"clear", "everyHour", "thisHour"}
        /\ pc' \in {"everyHour", "thisHour", "built"}
        /\ UNCHANGED <<bHourlySchedule, gbTaskChanged>>
    BY <1>5 DEF BuildStarts, VisitEveryHour, VisitThisHour, GoTo, localVars,
                flagVars
  <2> QED BY <1>3, <1>4, <2>1
          DEF SleepInv, ChangeInv, PollInv, HourlyInv, FreshInv
<1>6. CASE ResetFlags
  <2>1. pc = "built" /\ pc' = "sort" /\ ~gbTaskChanged' /\ ~bHourlySchedule'
    BY <1>6 DEF ResetFlags, GoTo
  <2> QED BY <1>3, <1>4, <2>1
          DEF SleepInv, ChangeInv, PollInv, HourlyInv, FreshInv
<1>7. CASE SortStarts \/ SortSwaps
  <2>1. /\ pc \in {"sort", "sorting"} /\ pc' = "sorting"
        /\ UNCHANGED <<bHourlySchedule, gbTaskChanged>>
    BY <1>7 DEF SortStarts, SortSwaps, GoTo, localVars, flagVars
  <2> QED BY <1>3, <1>4, <2>1
          DEF SleepInv, ChangeInv, PollInv, HourlyInv, FreshInv
<1>8. CASE SortEnds
  <2>1. /\ pc = "sorting" /\ UNCHANGED <<bHourlySchedule, gbTaskChanged>>
        /\ ~bHourlySchedule /\ Left > c
        /\ gbTaskChanged => Left > 2 * c
    BY <1>8 DEF SortEnds, localVars, flagVars, HourlyInv, PollInv, ChangeInv
  <2>2. CASE execList = << >>
    <3>1. pc' = "sleep" /\ wake' = now + c /\ afterSleep' = "top"
      BY <1>8, <2>2 DEF SortEnds, Sleep
    <3>2. Remaining' = c
      BY <1>1, <1>2, <3>1 DEF Remaining
    <3> QED BY <1>2, <1>3, <1>4, <2>1, <3>1, <3>2
            DEF SleepInv, ChangeInv, PollInv, HourlyInv, FreshInv
  <2>3. CASE execList # << >>
    <3>1. pc' = "loop"
      BY <1>8, <2>3 DEF SortEnds, GoTo
    <3> QED BY <1>2, <1>3, <1>4, <2>1, <3>1
            DEF SleepInv, ChangeInv, PollInv, HourlyInv, FreshInv
  <2> QED BY <2>2, <2>3
<1> QED BY <1>5, <1>6, <1>7, <1>8

\* The execution loop: its sleeps end within the hour, and bHourlySchedule is
\* only set in it once all that is left is due at the end of the hour.
LEMMA RebuildLoop ==
    ASSUME TypeOK, CalcInv, SortInv, DueInv, RebuildInv,
           \/ LoopEnds \/ LoopStops \/ SkipTask \/ RunTask
           \/ RunTaskAtEndOfHour \/ NothingDue \/ SleepTillNextTask \/ Woken
    PROVE  (SleepInv /\ ChangeInv /\ PollInv /\ HourlyInv /\ FreshInv)'
<1> USE DEF RebuildInv
<1> DEFINE h == NO_SECS_IN_HOUR
           c == CHECK_STATUS_TIME
<1>1. /\ UNCHANGED <<now, buildTime, gbTaskChanged, gbStopScheduler>>
      /\ now \in Nat /\ execList \in Seq(EntryType)
  BY DEF LoopEnds, LoopStops, SkipTask, RunTask, RunTaskAtEndOfHour,
         NothingDue, SleepTillNextTask, Woken, GoTo, Sleep, clockVars,
         flagVars, buildVars, TypeOK
<1>2. /\ h \in Nat /\ c \in 1 .. h - 1
      /\ SecOfHour(now) \in 0 .. h - 1
  BY <1>1, CalendarTypes, CalendarAssumption, SchedulerAssumption
<1>3. /\ Left \in 1 .. h /\ Left' = Left /\ Left = h - SecOfHour(now)
      /\ ListOfThisHour' = ListOfThisHour
  BY <1>1, <1>2 DEF Left, ListOfThisHour, SecOfHour, HourIndex
<1>4. pc \in {"loop", "calc", "woken"} /\ ListOfThisHour
  BY DEF LoopEnds, LoopStops, SkipTask, RunTask, RunTaskAtEndOfHour,
         NothingDue, SleepTillNextTask, Woken, InLoop, FreshInv
<1>5. CASE LoopEnds \/ LoopStops
  <2>1. /\ pc = "loop" /\ pc' = "unlock" /\ UNCHANGED bHourlySchedule
        /\ execList = << >> \/ gbStopScheduler
    BY <1>5 DEF LoopEnds, LoopStops, StopSeen, GoTo, localVars
  <2> QED BY <1>1, <1>2, <1>3, <1>4, <2>1
          DEF SleepInv, ChangeInv, PollInv, HourlyInv, FreshInv
<1>6. CASE SkipTask \/ RunTask
  <2>1. /\ pc = "loop" /\ pc' = "loop" /\ UNCHANGED bHourlySchedule
        /\ execList # << >> /\ SecOfHour(now) >= Due
    BY <1>1, <1>2, <1>6, CallType
       DEF SkipTask, RunTask, InLoop, GoTo, localVars
  <2>2. Due \in Nat
    BY <2>1, CallType
  <2>3. ~bHourlySchedule
    BY <1>2, <2>1, <2>2 DEF HourlyInv
  <2> QED BY <1>1, <1>2, <1>3, <1>4, <2>1, <2>3
          DEF SleepInv, ChangeInv, PollInv, HourlyInv, FreshInv
<1>7. CASE RunTaskAtEndOfHour
  <2>1. /\ pc = "loop" /\ bHourlySchedule' /\ execList # << >>
        /\ execList' = Tail(execList) /\ Left = 1 /\ Due = h
    BY <1>2, <1>3, <1>7 DEF RunTaskAtEndOfHour, InLoop, EndOfHour
  <2>2. ~gbTaskChanged
    BY <1>2, <2>1 DEF ChangeInv
  <2>3. CASE Tail(execList) = << >>
    <3>1. pc' = "sleep" /\ wake' = now + 1 /\ afterSleep' = "unlock"
      BY <1>7, <2>3 DEF RunTaskAtEndOfHour, Sleep
    <3>2. Remaining' = 1
      BY <1>1, <3>1 DEF Remaining
    <3> QED BY <1>1, <1>2, <1>3, <1>4, <2>1, <2>2, <3>1, <3>2
            DEF SleepInv, ChangeInv, PollInv, HourlyInv, FreshInv
  <2>4. CASE Tail(execList) # << >>
    <3>1. pc' = "loop" /\ execList' # << >>
      BY <1>7, <2>1, <2>4 DEF RunTaskAtEndOfHour, GoTo
    <3>2. /\ 1 \in DOMAIN execList /\ 2 \in DOMAIN execList
          /\ Due = execList[1].ui32Interval
          /\ Due' = execList[2].ui32Interval
          /\ execList[2].ui32Interval \in Nat
      <4>1. Len(execList) >= 2
        BY <1>1, <2>1, <2>4
      <4>2. /\ 1 \in DOMAIN execList /\ 2 \in DOMAIN execList
            /\ Head(execList) = execList[1]
            /\ Head(Tail(execList)) = execList[2]
            /\ execList[2] \in EntryType
        BY <1>1, <4>1
      <4> QED BY <2>1, <4>2 DEF Due, EntryType
    <3>3. Sorted(execList)
      BY <2>1 DEF SortInv, InLoopOnList
    <3>4. execList[1].ui32Interval <= execList[2].ui32Interval
      BY <3>2, <3>3 DEF Sorted
    <3>5. execList[2].ui32Interval <= h
      BY <3>2 DEF EntriesInHour
    <3>6. Due' = h
      BY <1>2, <2>1, <3>2, <3>4, <3>5
    <3> QED BY <1>1, <1>2, <1>3, <1>4, <2>1, <2>2, <3>1, <3>6
            DEF SleepInv, ChangeInv, PollInv, HourlyInv, FreshInv
  <2> QED BY <2>3, <2>4
<1>8. CASE NothingDue
  <2>1. /\ pc = "loop" /\ pc' = "calc" /\ UNCHANGED bHourlySchedule
        /\ ~(SecOfHour(now) = h - 1 /\ Due = h)
    BY <1>8 DEF NothingDue, InLoop, EndOfHour, GoTo, localVars
  <2>2. ~bHourlySchedule
    BY <1>2, <1>3, <2>1 DEF HourlyInv
  <2> QED BY <1>1, <1>2, <1>3, <1>4, <2>1, <2>2
          DEF SleepInv, ChangeInv, PollInv, HourlyInv, FreshInv
<1>9. CASE SleepTillNextTask
  <2> DEFINE a == SleepArgument(Due, SecOfHour(now))
  <2>1. /\ pc = "calc" /\ pc' = "sleep" /\ wake' = now + a
        /\ afterSleep' = "woken" /\ UNCHANGED bHourlySchedule
    BY <1>9 DEF SleepTillNextTask, Sleep, localVars
  <2>2. /\ execList # << >>
        /\ ~bHourlySchedule /\ (gbTaskChanged => Left > 2 * c)
    BY <2>1 DEF CalcInv, HourlyInv, ChangeInv
  <2>3. Due \in Nat /\ Due <= h /\ SecOfHour(now) < Due
    <3>1. 1 \in DOMAIN execList /\ Due = execList[1].ui32Interval
      BY <1>1, <2>2 DEF Due
    <3> QED BY <2>1, <2>2, <3>1, CallType DEF EntriesInHour, DueInv
  <2>4. /\ a \in Nat /\ a <= c /\ SecOfHour(now) + a <= Due
        /\ Due = h => SecOfHour(now) + a < Due
    BY <1>2, <2>2, <2>3, SleepBound, SleepShort
  <2> HIDE DEF a
  <2>5. Remaining' = a /\ a < Left
    <3>1. Remaining' = a
      BY <1>1, <2>1, <2>4 DEF Remaining
    <3> QED BY <1>2, <1>3, <2>3, <2>4, <3>1
  <2> QED BY <1>1, <1>2, <1>3, <1>4, <2>1, <2>2, <2>4, <2>5
          DEF SleepInv, ChangeInv, PollInv, HourlyInv, FreshInv
<1>10. CASE Woken
  <2>1. /\ pc = "woken" /\ UNCHANGED bHourlySchedule /\ ~bHourlySchedule
        /\ \/ pc' = "unlock" /\ gbTaskChanged
           \/ pc' = "loop" /\ ~gbTaskChanged
    BY <1>10 DEF Woken, GoTo, localVars, HourlyInv
  <2> QED BY <1>1, <1>2, <1>3, <1>4, <2>1
          DEF SleepInv, ChangeInv, PollInv, HourlyInv, FreshInv
<1> QED BY <1>5, <1>6, <1>7, <1>8, <1>9, <1>10

\* No client is in SCH_ModifyTask when none calls it.
NoModify == \A c \in Clients : client[c] # "modify"

LEMMA NoModifyStep ==
    ASSUME ClientCalls \cap {"delete", "modify"} = {}, TypeOK, NoModify,
           [Next]_vars
    PROVE  NoModify'
<1>1. CASE ClientStep
  BY <1>1 DEF ClientStep, SCH_AddTask, SCH_DeleteTask, SCH_ModifyTask,
              ModifyAdds, ModifyFails, SCH_StopScheduler, WaitForScheduler,
              CanCall, clientVars, TypeOK, NoModify
<1>2. ~ClientStep => client' = client
  BY DEF Next, SchedulerStep, Tick, vars, clientVars, Wake, Top,
         ClearMasterTable, HourlyCheck, Recheck, AutoCleanStarts,
         AutoCleanRemoves, AutoCleanAdvances, BuildStarts, VisitEveryHour,
         VisitThisHour, ResetFlags, SortStarts, SortSwaps, SortEnds, LoopEnds,
         LoopStops, SkipTask, RunTask, RunTaskAtEndOfHour, NothingDue,
         SleepTillNextTask, Woken, UnlockForSafety
<1> QED BY <1>1, <1>2 DEF NoModify

\* Every step keeps the list of this hour, or is on the way to the build of it.
LEMMA RebuildStep ==
    ASSUME MaxLag = 0, TasksOfAnHour, QuietEndOfHour,
           ClientCalls \cap {"delete", "modify"} = {},
           HourIInv, OriginInv, NoModify, RebuildInv, [Next]_vars
    PROVE  RebuildInv'
<1>1. IInv /\ TypeOK /\ CalcInv /\ SortInv /\ DueInv /\ HourInv
  BY DEF HourIInv, LoopIInv, IInv
<1>2. EntriesInHour'
  BY <1>1, EntriesStep DEF RebuildInv
<1>3. (SleepInv /\ ChangeInv /\ PollInv /\ HourlyInv /\ FreshInv)'
  <2>1. CASE ClientStep
    BY <1>1, <2>1, RebuildClient DEF NoModify
  <2>2. CASE Tick
    BY <1>1, <2>2, RebuildTick
  <2>3. CASE \/ Wake \/ Top \/ ClearMasterTable \/ HourlyCheck \/ Recheck
             \/ AutoCleanStarts \/ AutoCleanRemoves \/ AutoCleanAdvances
             \/ UnlockForSafety
    BY <1>1, <2>3, RebuildOuter
  <2>4. CASE \/ BuildStarts \/ VisitEveryHour \/ VisitThisHour \/ ResetFlags
             \/ SortStarts \/ SortSwaps \/ SortEnds
    BY <1>1, <2>4, RebuildBuild
  <2>5. CASE \/ LoopEnds \/ LoopStops \/ SkipTask \/ RunTask
             \/ RunTaskAtEndOfHour \/ NothingDue \/ SleepTillNextTask \/ Woken
    BY <1>1, <2>5, RebuildLoop
  <2>6. CASE UNCHANGED vars
    BY <2>6 DEF vars, clockVars, sleepVars, flagVars, localVars, buildVars,
                RebuildInv, SleepInv, ChangeInv, PollInv, HourlyInv, FreshInv,
                Left, Remaining, ListOfThisHour, SecOfHour, HourIndex, Due
  <2> QED BY <2>1, <2>2, <2>3, <2>4, <2>5, <2>6 DEF Next, SchedulerStep
<1> QED BY <1>2, <1>3 DEF RebuildInv

\* From the second second of every hour on, the execution list is one built in
\* that hour: on a machine without delays, in a daemon that only adds tasks, all
\* periodic, with intervals of at most an hour and none due at a second for
\* which the loop waits busily, and not within two polling periods of the end of
\* the hour.  For every calendar, polling period and second at which the
\* scheduler is started, whether the thread is idle, waits for its next entry or
\* runs the last ones of the hour when it ends.
THEOREM HoursAreRebuilt ==
    ASSUME MaxLag = 0, MaxNow + 1 < UI32_SPAN, TasksOfAnHour, QuietEndOfHour,
           ClientCalls \cap {"delete", "modify"} = {}
    PROVE  Spec => []HourRebuilt
<1>1. Init => OriginInv /\ NoModify /\ RebuildInv
  <2> SUFFICES ASSUME Init PROVE OriginInv /\ NoModify /\ RebuildInv
    OBVIOUS
  <2>1. OriginInv /\ NoModify
    BY DEF Init, OriginInv, NoModify
  <2>2. EntriesInHour
    BY DEF Init, EntriesInHour
  <2>3. SleepInv /\ ChangeInv /\ PollInv /\ HourlyInv /\ FreshInv
    BY DEF Init, SleepInv, ChangeInv, PollInv, HourlyInv, FreshInv,
           ListOfThisHour
  <2> QED BY <2>1, <2>2, <2>3 DEF RebuildInv
<1>2. HourIInv /\ OriginInv /\ NoModify /\ RebuildInv /\ [Next]_vars
          => (OriginInv /\ NoModify /\ RebuildInv)'
  <2>1. IntervalsOfAnHour
    BY DEF TasksOfAnHour
  <2> QED BY <2>1, OriginStep, NoModifyStep, RebuildStep
          DEF HourIInv, LoopIInv, IInv
<1>3. HourIInv /\ RebuildInv => HourRebuilt
  <2> SUFFICES ASSUME HourIInv, RebuildInv, pc # "dead", SecOfHour(now) >= 1
               PROVE  ListOfThisHour
    BY DEF HourRebuilt, ListOfThisHour
  <2>1. SecOfHour(now) \in 0 .. NO_SECS_IN_HOUR - 1 /\ NO_SECS_IN_HOUR \in Nat
    BY CalendarTypes, CalendarAssumption DEF HourIInv, LoopIInv, IInv, TypeOK
  <2> QED BY <2>1 DEF RebuildInv, FreshInv, Left
<1> QED BY <1>1, <1>2, <1>3, HourInvariant, PTL DEF Spec
=============================================================================
