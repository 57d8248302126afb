--------------------------- MODULE JobSchedProofs ---------------------------
(***************************************************************************)
(* For any number of rows, jobs, nodes and SETs: the id of every task of a *)
(* job stays in the list of the JobSched daemon, none is left with a       *)
(* structure that was freed, and when all traps are handled the tasks are  *)
(* those the table asks for and are found under their rows, unless         *)
(* something was lost, refused, cleaned or never announced on the way.     *)
(***************************************************************************)
EXTENDS JobSched, WellFoundedInduction, TLAPS

\* A trap that adds or modifies a task carries the job.
TrapsInv ==
    \A k \in 1 .. Len(traps) : traps[k].oper # "DELETE" => traps[k].job \in Jobs

\* No two tasks share a structure.
ArgsInv ==
    \A id1, id2 \in JobTasks :
        task[id1].vpArg = task[id2].vpArg => id1 = id2

\* What JS_ModifyJobToSched and JS_DeleteFromSched may rely on while they are
\* under way: the structure they hold is theirs, also when the task they found
\* is gone, and between the two halves of a change the old id is not a job's.
OpInv ==
    op # NULL =>
        /\ phase = "run"
        /\ op.oper # "DELETE" => op.job \in Jobs
        /\ op.oper = "ADD" => op.vpArg # LOG /\ op.id \notin JobTasks
        /\ op.vpArg # LOG =>
               /\ heap[op.vpArg] # NULL
               /\ \A id \in JobTasks : task[id].vpArg = op.vpArg => id = op.id

\* The inductive invariant.
JobInv == /\ TypeOK /\ TrapsInv /\ ArgsInv /\ OpInv
          /\ Listed /\ LinkedArgumentsAlive

\* What the list holds.
Entry == [index : Indices, id : Ids]

-----------------------------------------------------------------------------
(* The list.                                                               *)

\* A set of numbers that is not empty has a least element.
LEMMA LeastNumber ==
    ASSUME NEW T \in SUBSET Nat, T # {}
    PROVE  \E x \in T : \A y \in T : x <= y
<1>1. PICK x \in T : \A y \in T : ~(<<y, x>> \in OpToRel(<, Nat))
  BY NatLessThanWellFounded, WFMin
<1>2. \A y \in T : ~(y < x)
  BY <1>1 DEF OpToRel
<1>3. \A y \in T : y \in Nat /\ x \in Nat
  OBVIOUS
<1> QED
  BY <1>2, <1>3

\* The elements of two sequences put together.
LEMMA Concatenation ==
    ASSUME NEW S, NEW a \in Seq(S), NEW b \in Seq(S)
    PROVE  /\ a \o b \in Seq(S) /\ Len(a \o b) = Len(a) + Len(b)
           /\ \A k \in 1 .. Len(a) + Len(b) :
                  (a \o b)[k] = IF k <= Len(a) THEN a[k] ELSE b[k - Len(a)]
  OBVIOUS

\* What JS_DeleteNodeFromList leaves: the list without one entry that matched.
LEMMA FirstRemoved ==
    ASSUME NEW S, NEW s \in Seq(S), NEW e, NEW n \in 1 .. Len(s), s[n] = e
    PROVE  \E p \in 1 .. Len(s) :
               /\ s[p] = e
               /\ RemoveFirst(s, e) \in Seq(S)
               /\ Len(RemoveFirst(s, e)) = Len(s) - 1
               /\ \A k \in 1 .. Len(s) - 1 :
                      RemoveFirst(s, e)[k] = IF k < p THEN s[k] ELSE s[k + 1]
<1> DEFINE I == {i \in 1 .. Len(s) : s[i] = e}
           p == Min(I)
<1>1. I \in SUBSET Nat /\ I # {}
  OBVIOUS
<1>2. p \in I
  BY <1>1, LeastNumber DEF Min
<1>3. RemoveFirst(s, e) = RemoveAt(s, p)
  BY <1>1 DEF RemoveFirst, SelectInSeq
<1> HIDE DEF p
<1>4. p \in 1 .. Len(s) /\ s[p] = e /\ Len(s) \in Nat
  BY <1>2
<1>5. /\ SubSeq(s, 1, p - 1) \in Seq(S) /\ Len(SubSeq(s, 1, p - 1)) = p - 1
      /\ \A k \in 1 .. p - 1 : SubSeq(s, 1, p - 1)[k] = s[k]
  BY <1>4
<1>6. /\ SubSeq(s, p + 1, Len(s)) \in Seq(S)
      /\ Len(SubSeq(s, p + 1, Len(s))) = Len(s) - p
      /\ \A k \in 1 .. Len(s) - p : SubSeq(s, p + 1, Len(s))[k] = s[p + k]
  BY <1>4
<1>7. /\ RemoveAt(s, p) \in Seq(S) /\ Len(RemoveAt(s, p)) = Len(s) - 1
      /\ \A k \in 1 .. Len(s) - 1 :
             RemoveAt(s, p)[k] = IF k < p THEN s[k] ELSE s[k + 1]
  <2> DEFINE a == SubSeq(s, 1, p - 1)
             b == SubSeq(s, p + 1, Len(s))
  <2>1. /\ a \in Seq(S) /\ Len(a) = p - 1
        /\ b \in Seq(S) /\ Len(b) = Len(s) - p
        /\ \A k \in 1 .. p - 1 : a[k] = s[k]
        /\ \A k \in 1 .. Len(s) - p : b[k] = s[p + k]
    BY <1>5, <1>6
  <2>2. RemoveAt(s, p) = a \o b
    BY DEF RemoveAt
  <2> HIDE DEF a, b
  <2>3. /\ a \o b \in Seq(S) /\ Len(a \o b) = Len(s) - 1
        /\ \A k \in 1 .. Len(s) - 1 :
               (a \o b)[k] = IF k <= p - 1 THEN a[k] ELSE b[k - (p - 1)]
    <3>1. p - 1 + (Len(s) - p) = Len(s) - 1
      BY <1>4
    <3>2. /\ a \o b \in Seq(S) /\ Len(a \o b) = Len(a) + Len(b)
          /\ \A k \in 1 .. Len(a) + Len(b) :
                 (a \o b)[k] = IF k <= Len(a) THEN a[k] ELSE b[k - Len(a)]
      BY <2>1, Concatenation, Zenon
    <3> QED
      BY <2>1, <3>1, <3>2, Zenon
  <2>4. ASSUME NEW k \in 1 .. Len(s) - 1
        PROVE  (a \o b)[k] = IF k < p THEN s[k] ELSE s[k + 1]
    <3>1. CASE k < p
      BY <1>4, <2>1, <2>3, <3>1
    <3>2. CASE ~(k < p)
      <4>1. k - (p - 1) \in 1 .. Len(s) - p /\ p + (k - (p - 1)) = k + 1
        BY <1>4, <3>2
      <4> QED
        BY <1>4, <2>1, <2>3, <3>2, <4>1
    <3> QED
      BY <3>1, <3>2
  <2> QED
    BY <2>2, <2>3, <2>4
<1> QED
  BY <1>3, <1>4, <1>7

\* Whether or not the entry is found, the others stay in the list and none is
\* made up.
LEMMA Removed ==
    ASSUME NEW S, NEW s \in Seq(S), NEW e
    PROVE  /\ RemoveFirst(s, e) \in Seq(S)
           /\ \A k \in 1 .. Len(s) : s[k] # e =>
                  \E m \in 1 .. Len(RemoveFirst(s, e)) :
                      RemoveFirst(s, e)[m] = s[k]
<1>1. CASE \E n \in 1 .. Len(s) : s[n] = e
  <2> DEFINE r == RemoveFirst(s, e)
  <2>1. PICK p \in 1 .. Len(s) :
            /\ s[p] = e
            /\ r \in Seq(S)
            /\ Len(r) = Len(s) - 1
            /\ \A k \in 1 .. Len(s) - 1 :
                   r[k] = IF k < p THEN s[k] ELSE s[k + 1]
    BY <1>1, FirstRemoved
  <2> HIDE DEF r
  <2>2. ASSUME NEW k \in 1 .. Len(s), s[k] # e
        PROVE  \E m \in 1 .. Len(r) : r[m] = s[k]
    <3>1. Len(s) \in Nat
      OBVIOUS
    <3>2. CASE k < p
      BY <2>1, <3>1, <3>2
    <3>3. CASE k > p
      <4>1. k - 1 \in 1 .. Len(s) - 1 /\ ~(k - 1 < p) /\ (k - 1) + 1 = k
        BY <3>1, <3>3
      <4>2. r[k - 1] = s[k]
        BY <2>1, <4>1
      <4> QED
        BY <2>1, <4>1, <4>2
    <3>4. k # p
      BY <2>1, <2>2
    <3> QED
      BY <3>1, <3>2, <3>3, <3>4
  <2> QED
    BY <2>1, <2>2 DEF r
<1>2. CASE ~\E n \in 1 .. Len(s) : s[n] = e
  BY <1>2 DEF RemoveFirst
<1> QED
  BY <1>1, <1>2

\* JS_AddNodeInJobList puts the new entry before the others.
LEMMA Added ==
    ASSUME NEW s \in Seq(Entry), NEW i \in Indices, NEW id \in Ids
    PROVE  /\ AddNode(s, i, id) \in Seq(Entry)
           /\ Len(AddNode(s, i, id)) = Len(s) + 1
           /\ AddNode(s, i, id)[1] = [index |-> i, id |-> id]
           /\ \A k \in 1 .. Len(s) : AddNode(s, i, id)[k + 1] = s[k]
<1> DEFINE new == <<[index |-> i, id |-> id]>>
<1>1. new \in Seq(Entry) /\ Len(new) = 1 /\ new[1] = [index |-> i, id |-> id]
  BY DEF Entry
<1>2. AddNode(s, i, id) = new \o s
  BY DEF AddNode
<1> HIDE DEF new
<1>3. Len(s) \in Nat
  OBVIOUS
<1>4. /\ new \o s \in Seq(Entry) /\ Len(new \o s) = 1 + Len(s)
      /\ \A k \in 1 .. 1 + Len(s) :
             (new \o s)[k] = IF k <= 1 THEN new[k] ELSE s[k - 1]
  <2>1. /\ new \o s \in Seq(Entry) /\ Len(new \o s) = Len(new) + Len(s)
        /\ \A k \in 1 .. Len(new) + Len(s) :
               (new \o s)[k] = IF k <= Len(new) THEN new[k] ELSE s[k - Len(new)]
    BY <1>1, Concatenation, Zenon
  <2> QED
    BY <1>1, <2>1, Zenon
<1>5. ASSUME NEW k \in 1 .. Len(s) PROVE (new \o s)[k + 1] = s[k]
  <2>1. k + 1 \in 1 .. 1 + Len(s) /\ ~(k + 1 <= 1) /\ (k + 1) - 1 = k
    BY <1>3
  <2> QED
    BY <1>4, <2>1
<1> QED
  BY <1>1, <1>2, <1>3, <1>4, <1>5

-----------------------------------------------------------------------------
(* The invariant.                                                          *)

\* A task of a job has the node of one.
LEMMA JobTaskNodes ==
    ASSUME TypeOK
    PROVE  /\ \A id \in JobTasks : id \in Ids /\ task[id] \in JobNodes
           /\ \A id \in Ids : task[id] \in JobNodes => id \in JobTasks
           /\ LogTask \notin JobNodes
  BY JobSchedAssumption DEF TypeOK, JobTasks, JobNodes, LogTask

\* Neither a row nor a task at first.
LEMMA InitJobInv == Init => JobInv
<1> SUFFICES ASSUME Init PROVE JobInv
  OBVIOUS
<1>1. TypeOK
  <2>1. logging \in BOOLEAN /\ disturbed \in BOOLEAN
    BY DEF Init
  <2>2. /\ rows \in [Indices -> Rows \cup {NULL}]
        /\ fetched \in [Indices -> Rows \cup {NULL}]
    BY DEF Init, NoRows
  <2>3. /\ sets \in 0 .. MaxSets /\ traps \in Seq(TrapMsgs)
        /\ stListPtr \in Seq([index : Indices, id : Ids])
    BY JobSchedAssumption DEF Init
  <2>4. /\ task \in [Ids -> JobNodes \cup {LogTask, NULL}]
        /\ heap \in [Args -> JobMasters \cup {NULL}]
    BY DEF Init
  <2> QED
    BY <2>1, <2>2, <2>3, <2>4 DEF Init, TypeOK
<1>2. JobTasks = {}
  BY DEF Init, JobTasks
<1> QED
  BY <1>1, <1>2 DEF Init, JobInv, TrapsInv, ArgsInv, OpInv,
     Listed, LinkedArgumentsAlive

\* A SET changes the table and the queue, and nothing of the daemon.
LEMMA ManagerStep ==
    ASSUME JobInv, Manager
    PROVE  JobInv'
<1>1. PICK i \in Indices :
        \/ SetActive(i) \/ SetNotInService(i) \/ Destroy(i)
        \/ \E job \in Jobs :
               \/ CreateAndGo(i, job) \/ CreateAndWait(i, job)
               \/ SetColumns(i, job)
        \/ \E row \in Rows \cup {NULL} : SetSilently(i, row)
  BY DEF Manager
<1>2. \E row \in Rows \cup {NULL} : SetRow(i, row)
  BY <1>1 DEF SetActive, SetNotInService, Destroy, CreateAndGo,
     SetSilently,
     CreateAndWait, SetColumns, JobInv, TypeOK, Rows
<1>3. /\ rows' \in [Indices -> Rows \cup {NULL}]
      /\ sets' \in 0 .. MaxSets
      /\ UNCHANGED daemonVars
  BY <1>2, JobSchedAssumption DEF SetRow, JobInv, TypeOK
<1>4. \/ UNCHANGED traps /\ disturbed' \in BOOLEAN
      \/ \E oper \in {"ADD", "MODIFY", "DELETE"}, job \in Jobs \cup {NULL},
            bad \in BOOLEAN :
            /\ oper # "DELETE" => job \in Jobs
            /\ SendTrap(Trap(oper, i, job), bad)
  BY <1>1 DEF SetActive, SetNotInService, Destroy, CreateAndGo,
     SetSilently,
     CreateAndWait, SetColumns, JobInv, TypeOK, Rows
<1>5. disturbed' \in BOOLEAN
  BY <1>4 DEF SendTrap
<1>6. /\ traps' \in Seq(TrapMsgs) /\ TrapsInv'
  <2>1. CASE UNCHANGED traps
    BY <2>1 DEF JobInv, TypeOK, TrapsInv
  <2>2. ASSUME NEW oper \in {"ADD", "MODIFY", "DELETE"},
               NEW job \in Jobs \cup {NULL},
               oper # "DELETE" => job \in Jobs,
               traps' = Append(traps, Trap(oper, i, job))
        PROVE traps' \in Seq(TrapMsgs) /\ TrapsInv'
    <3> DEFINE t == Trap(oper, i, job)
    <3>1. t \in TrapMsgs /\ t.oper = oper /\ t.job = job
      BY DEF Trap, TrapMsgs
    <3> HIDE DEF t
    <3>2. traps \in Seq(TrapMsgs)
      BY DEF JobInv, TypeOK
    <3>3. /\ Append(traps, t) \in Seq(TrapMsgs)
          /\ \A k \in 1 .. Len(Append(traps, t)) :
                 \/ k \in 1 .. Len(traps) /\ Append(traps, t)[k] = traps[k]
                 \/ Append(traps, t)[k] = t
      BY <3>1, <3>2
    <3>4. traps' = Append(traps, t)
      BY <2>2 DEF t
    <3> QED
      BY <2>2, <3>1, <3>3, <3>4 DEF JobInv, TrapsInv
  <2> QED
    BY <1>4, <2>1, <2>2 DEF SendTrap
<1> QED
  BY <1>3, <1>5, <1>6 DEF JobInv, TypeOK, daemonVars, ArgsInv, OpInv,
     Listed, LinkedArgumentsAlive, JobTasks

\* What the invariant says of the tasks, the structures and the list.
TasksInv == /\ stListPtr \in Seq(Entry)
            /\ task \in [Ids -> JobNodes \cup {LogTask, NULL}]
            /\ heap \in [Args -> JobMasters \cup {NULL}]
            /\ ArgsInv /\ Listed /\ LinkedArgumentsAlive

\* JS_AddJobToSched takes a node and a structure nobody uses, and lists the id.
LEMMA AddStep ==
    ASSUME JobInv, NEW i \in Indices, NEW job \in Jobs, JS_AddJobToSched(i, job)
    PROVE  TasksInv' /\ disturbed' \in BOOLEAN
<1>1. CASE AddRefused(job)
  BY <1>1 DEF AddRefused, JobInv, TypeOK, TasksInv, Entry, ArgsInv,
              Listed, LinkedArgumentsAlive, JobTasks
<1>2. CASE AddAccepted(i, job)
  <2>1. PICK id \in FreeIds, a \in FreeArgs :
            /\ task' = [task EXCEPT ![id] = [vpArg |-> a, job |-> job]]
            /\ heap' = [heap EXCEPT ![a] = [index |-> i, job |-> job]]
            /\ stListPtr' = AddNode(stListPtr, i, id)
            /\ UNCHANGED disturbed
    BY <1>2 DEF AddAccepted
  <2>2. /\ id \in Ids /\ a \in Args
        /\ \A x \in JobTasks : task[x].vpArg # a
    BY <2>1 DEF FreeIds, FreeArgs, JobTasks
  <2>3. /\ task' \in [Ids -> JobNodes \cup {LogTask, NULL}]
        /\ heap' \in [Args -> JobMasters \cup {NULL}]
    BY <2>1, <2>2 DEF JobInv, TypeOK, JobNodes, JobMasters
  <2>4. /\ stListPtr \in Seq(Entry) /\ stListPtr' \in Seq(Entry)
        /\ Len(stListPtr') = Len(stListPtr) + 1
        /\ stListPtr'[1].id = id
        /\ \A k \in 1 .. Len(stListPtr) : stListPtr'[k + 1] = stListPtr[k]
    <3>1. stListPtr \in Seq(Entry)
      BY DEF JobInv, TypeOK, Entry
    <3>2. /\ AddNode(stListPtr, i, id) \in Seq(Entry)
          /\ Len(AddNode(stListPtr, i, id)) = Len(stListPtr) + 1
          /\ AddNode(stListPtr, i, id)[1] = [index |-> i, id |-> id]
          /\ \A k \in 1 .. Len(stListPtr) :
                 AddNode(stListPtr, i, id)[k + 1] = stListPtr[k]
      BY <2>2, <3>1, Added, Zenon
    <3> QED
      BY <2>1, <3>1, <3>2
  <2>5. /\ \A x \in JobTasks' : x = id \/ (x \in JobTasks /\ task'[x] = task[x])
        /\ task'[id].vpArg = a
    BY <2>1, <2>2 DEF JobTasks, JobInv, TypeOK
  <2>6. ArgsInv'
    BY <2>2, <2>5 DEF ArgsInv, JobInv
  <2>7. LinkedArgumentsAlive'
    <3>1. heap'[a] # NULL /\ \A b \in Args : b # a => heap'[b] = heap[b]
      BY <2>1, <2>2, JobSchedAssumption DEF JobInv, TypeOK, JobMasters
    <3>2. \A x \in JobTasks : task[x].vpArg \in Args
      BY JobTaskNodes DEF JobInv, JobNodes
    <3> QED
      BY <2>2, <2>5, <3>1, <3>2 DEF LinkedArgumentsAlive, JobInv
  <2>8. ASSUME NEW x \in JobTasks'
        PROVE  \E k \in 1 .. Len(stListPtr') : stListPtr'[k].id = x
    <3>1. Len(stListPtr) \in Nat
      BY <2>4
    <3>2. CASE x = id
      BY <2>4, <3>1, <3>2
    <3>3. CASE x \in JobTasks
      <4>1. PICK k \in 1 .. Len(stListPtr) : stListPtr[k].id = x
        BY <3>3 DEF JobInv, Listed
      <4>2. k + 1 \in 1 .. Len(stListPtr')
        BY <2>4, <3>1
      <4> QED
        BY <2>4, <4>1, <4>2
    <3> QED
      BY <2>5, <3>2, <3>3
  <2> QED
    BY <2>1, <2>3, <2>4, <2>6, <2>7, <2>8
       DEF TasksInv, Listed, JobInv, TypeOK
<1> QED
  BY <1>1, <1>2 DEF JS_AddJobToSched

\* The start of the daemon, up to the thread that handles traps, and its end.
LEMMA MainStep ==
    ASSUME JobInv,
           \/ Start \/ FetchRows \/ FetchFails \/ InitCBuffer \/ Exit
           \/ \E i \in Indices : AddFetched(i)
    PROVE  JobInv'
<1> USE DEF TrapsInv
<1>1. CASE Start
  <2>1. lTaskId' \in Ids \cup {NULL}
    BY <1>1 DEF Start, ScheduleLog, FreeIds
  <2>2. /\ task' \in [Ids -> JobNodes \cup {LogTask, NULL}]
        /\ \A x \in JobTasks' : x \in JobTasks /\ task'[x] = task[x]
    BY <1>1 DEF Start, ScheduleLog, FreeIds, JobInv, TypeOK, JobTasks
  <2>3. op = NULL
    BY <1>1 DEF Start, JobInv, OpInv
  <2>4. UNCHANGED <<rows, sets, traps, fetched, stListPtr, heap, op, logging>>
    BY <1>1 DEF Start
  <2>5. TypeOK'
    BY <1>1, <2>1, <2>2, <2>4 DEF Start, JobInv, TypeOK
  <2> QED
    BY <2>2, <2>3, <2>4, <2>5 DEF JobInv, ArgsInv, OpInv,
       Listed, LinkedArgumentsAlive
<1>2. CASE FetchRows \/ FetchFails \/ InitCBuffer
  <2>1. UNCHANGED <<traps, stListPtr, task, heap, op>> /\ op = NULL
    BY <1>2 DEF FetchRows, FetchFails, InitCBuffer, JobInv, OpInv
  <2>2. TypeOK'
    BY <1>2 DEF FetchRows, FetchFails, InitCBuffer, JobInv, TypeOK
  <2> QED
    BY <2>1, <2>2 DEF JobInv, ArgsInv, OpInv, Listed,
       LinkedArgumentsAlive, JobTasks
<1>3. CASE Exit
  <2>1. JobTasks' = {}
    BY <1>3 DEF Exit, JobTasks
  <2>2. op' = NULL /\ traps' = << >> /\ stListPtr' = << >>
    BY <1>3 DEF Exit
  <2>3. TypeOK'
    <3>1. logging' \in BOOLEAN
      BY <1>3 DEF Exit
    <3>2. /\ fetched' \in [Indices -> Rows \cup {NULL}]
          /\ task' \in [Ids -> JobNodes \cup {LogTask, NULL}]
          /\ heap' \in [Args -> JobMasters \cup {NULL}]
      BY <1>3 DEF Exit, NoRows
    <3> QED
      BY <1>3, <3>1, <3>2 DEF Exit, JobInv, TypeOK
  <2> QED
    BY <2>1, <2>2, <2>3 DEF JobInv, ArgsInv, OpInv, Listed,
       LinkedArgumentsAlive
<1>4. ASSUME NEW i \in Indices, AddFetched(i) PROVE JobInv'
  <2>1. /\ UNCHANGED <<rows, sets, traps, phase, op, lTaskId, logging>>
        /\ op = NULL
    BY <1>4 DEF AddFetched, JobInv, OpInv
  <2>2. fetched' \in [Indices -> Rows \cup {NULL}] /\ fetched[i] \in Rows
    BY <1>4 DEF AddFetched, FirstFetched, JobInv, TypeOK
  <2>3. TasksInv' /\ disturbed' \in BOOLEAN
    <3>1. CASE fetched[i].active
      BY <1>4, <2>2, <3>1, AddStep DEF AddFetched, Rows
    <3>2. CASE ~fetched[i].active
      BY <1>4, <3>2 DEF AddFetched, JobInv, TypeOK, TasksInv, Entry, ArgsInv,
              Listed, LinkedArgumentsAlive, JobTasks
    <3> QED
      BY <3>1, <3>2
  <2> QED
    BY <2>1, <2>2, <2>3 DEF JobInv, TypeOK, OpInv, TasksInv, Entry
<1> QED
  BY <1>1, <1>2, <1>3, <1>4

\* The first trap leaves the queue.
LEMMA TrapLeaves ==
    ASSUME JobInv, NEW oper, NextTrap(oper)
    PROVE  /\ Head(traps) \in TrapMsgs
           /\ oper # "DELETE" => Head(traps).job \in Jobs
           /\ traps' \in Seq(TrapMsgs) /\ TrapsInv'
           /\ Head(traps).oper = oper /\ phase = "run" /\ op = NULL
<1>1. traps \in Seq(TrapMsgs) /\ traps # << >> /\ traps' = Tail(traps)
  BY DEF NextTrap, JobInv, TypeOK
<1>2. /\ Head(traps) = traps[1] /\ Len(traps) \in Nat /\ Len(traps) > 0
      /\ Head(traps) \in TrapMsgs
      /\ Tail(traps) \in Seq(TrapMsgs) /\ Len(Tail(traps)) = Len(traps) - 1
      /\ \A k \in 1 .. Len(traps) - 1 : Tail(traps)[k] = traps[k + 1]
  BY <1>1
<1>3. \A k \in 1 .. Len(traps) - 1 : k + 1 \in 1 .. Len(traps)
  BY <1>2
<1>4. TrapsInv'
  BY <1>1, <1>2, <1>3 DEF TrapsInv, JobInv
<1> QED
  BY <1>1, <1>2, <1>4 DEF NextTrap, JobInv, TrapsInv

\* The entry JS_GetTaskID finds is one of the list.
LEMMA FoundListed ==
    ASSUME JobInv, NEW i \in Indices, Entries(i) # {}
    PROVE  /\ First(i) \in 1 .. Len(stListPtr)
           /\ stListPtr[First(i)].index = i
           /\ GetTaskID(i) \in Ids
<1>1. Entries(i) \in SUBSET Nat
  BY DEF Entries
<1>2. First(i) \in Entries(i)
  BY <1>1, LeastNumber DEF First
<1>3. First(i) \in 1 .. Len(stListPtr) /\ stListPtr[First(i)].index = i
  BY <1>2 DEF Entries
<1>4. stListPtr \in Seq(Entry)
  BY DEF JobInv, TypeOK, Entry
<1>5. stListPtr[First(i)] \in Entry
  BY <1>3, <1>4
<1> QED
  BY <1>3, <1>5 DEF GetTaskID, Entry

\* The entry of the task that is gone leaves the list, and no other.
LEMMA ListWithout ==
    ASSUME JobInv, op # NULL, NEW R,
           R = RemoveFirst(stListPtr, [index |-> op.index, id |-> op.id])
    PROVE  /\ R \in Seq(Entry)
           /\ \A id \in JobTasks : id # op.id =>
                  \E k \in 1 .. Len(R) : R[k].id = id
<1>1. stListPtr \in Seq(Entry)
  BY DEF JobInv, TypeOK, Entry
<1>2. /\ R \in Seq(Entry)
      /\ \A k \in 1 .. Len(stListPtr) :
             stListPtr[k] # [index |-> op.index, id |-> op.id] =>
                 \E m \in 1 .. Len(R) : R[m] = stListPtr[k]
  BY <1>1, Removed
<1>3. ASSUME NEW id \in JobTasks, id # op.id
      PROVE  \E k \in 1 .. Len(R) : R[k].id = id
  <2>1. PICK k \in 1 .. Len(stListPtr) : stListPtr[k].id = id
    BY DEF JobInv, Listed
  <2>2. stListPtr[k] # [index |-> op.index, id |-> op.id]
    BY <1>3, <2>1
  <2> QED
    BY <1>2, <2>1, <2>2
<1> QED
  BY <1>2, <1>3

\* The thread JS_ProcessTrapMsg.
LEMMA TrapStep ==
    ASSUME JobInv, ProcessTrapMsg
    PROVE  JobInv'
<1>1. CASE ParseAdd
  <2>1. /\ Head(traps).index \in Indices /\ Head(traps).job \in Jobs
        /\ traps' \in Seq(TrapMsgs) /\ TrapsInv' /\ op = NULL
    <3>1. /\ Head(traps) \in TrapMsgs /\ Head(traps).job \in Jobs
          /\ traps' \in Seq(TrapMsgs) /\ TrapsInv' /\ op = NULL
      BY <1>1, TrapLeaves DEF ParseAdd
    <3> QED
      BY <3>1 DEF TrapMsgs
  <2>2. TasksInv' /\ disturbed' \in BOOLEAN
    BY <1>1, <2>1, AddStep DEF ParseAdd
  <2>3. UNCHANGED <<rows, sets, phase, fetched, op, lTaskId, logging>>
    BY <1>1 DEF ParseAdd
  <2> QED
    BY <2>1, <2>2, <2>3 DEF JobInv, TypeOK, OpInv, TasksInv, Entry
<1>2. ASSUME NEW oper \in {"MODIFY", "DELETE"}, ParseUnknown(oper)
      PROVE  JobInv'
  <2>1. traps' \in Seq(TrapMsgs) /\ TrapsInv'
    BY <1>2, TrapLeaves DEF ParseUnknown
  <2>2. UNCHANGED <<rows, sets, daemonVars, disturbed>>
    BY <1>2 DEF ParseUnknown
  <2> QED
    BY <2>1, <2>2 DEF JobInv, TypeOK, daemonVars, ArgsInv, OpInv,
       Listed, LinkedArgumentsAlive, JobTasks
<1>3. ASSUME NEW oper \in {"MODIFY", "DELETE"}, ParseKnown(oper)
      PROVE  JobInv'
  <2> DEFINE i == Head(traps).index
             id == GetTaskID(i)
  <2>1. /\ i \in Indices /\ Head(traps).job \in Jobs \cup {NULL}
        /\ oper # "DELETE" => Head(traps).job \in Jobs
        /\ traps' \in Seq(TrapMsgs) /\ TrapsInv' /\ phase = "run"
    BY <1>3, TrapLeaves DEF ParseKnown, TrapMsgs
  <2>2. /\ Entries(i) # {} /\ task[id] # NULL
        /\ op' = [oper |-> oper, index |-> i, job |-> Head(traps).job,
                  id |-> id, vpArg |-> task[id].vpArg]
        /\ UNCHANGED <<rows, sets, phase, fetched, stListPtr, task, heap,
                       lTaskId, logging, disturbed>>
    BY <1>3 DEF ParseKnown, Known
  <2>3. id \in Ids
    BY <2>1, <2>2, FoundListed
  <2> HIDE DEF i, id
  <2>4. \/ task[id] = LogTask /\ task[id].vpArg = LOG
        \/ id \in JobTasks /\ task[id].vpArg \in Args
    BY <2>2, <2>3, JobTaskNodes DEF JobInv, TypeOK, LogTask, JobNodes
  <2>5. op' \in Operations
    BY <2>1, <2>2, <2>3, <2>4 DEF Operations
  <2>6. OpInv'
    BY <2>1, <2>2, <2>4, JobSchedAssumption
       DEF OpInv, JobInv, LinkedArgumentsAlive, ArgsInv, JobTasks
  <2> QED
    BY <2>1, <2>2, <2>5, <2>6 DEF JobInv, TypeOK, ArgsInv,
       Listed, LinkedArgumentsAlive, JobTasks
<1>4. CASE DeleteTask
  <2>1. /\ op # NULL /\ op \in Operations /\ op' = NULL
        /\ UNCHANGED <<rows, sets, traps, phase, fetched, lTaskId, logging,
                       disturbed>>
    BY <1>4 DEF DeleteTask, JobInv, TypeOK
  <2>2. op.id \in Ids
    BY <2>1 DEF Operations
  <2>3. CASE task[op.id] = NULL
    BY <1>4, <2>1, <2>3 DEF DeleteTask, JobInv, TypeOK, TrapsInv, OpInv,
       ArgsInv,
       Listed, LinkedArgumentsAlive, JobTasks
  <2>4. CASE task[op.id] # NULL
    <3>1. /\ task' = [task EXCEPT ![op.id] = NULL]
          /\ heap' = [a \in Args |-> IF a = op.vpArg THEN NULL ELSE heap[a]]
          /\ stListPtr' = RemoveFirst(stListPtr,
                                      [index |-> op.index, id |-> op.id])
      BY <1>4, <2>4 DEF DeleteTask
    <3>2. \A x \in JobTasks' : x \in JobTasks /\ x # op.id /\ task'[x] = task[x]
      BY <2>2, <3>1 DEF JobTasks, JobInv, TypeOK
    <3>3. TypeOK'
      <4>1. /\ task' \in [Ids -> JobNodes \cup {LogTask, NULL}]
            /\ heap' \in [Args -> JobMasters \cup {NULL}]
        BY <3>1 DEF JobInv, TypeOK
      <4>2. stListPtr' \in Seq([index : Indices, id : Ids])
        BY <2>1, <3>1, ListWithout DEF Entry
      <4> QED
        BY <2>1, <4>1, <4>2 DEF JobInv, TypeOK
    <3>4. Listed'
      BY <2>1, <3>1, <3>2, ListWithout DEF Listed
    <3>5. LinkedArgumentsAlive'
      <4>1. \A x \in JobTasks' : /\ task[x].vpArg \in Args
                                 /\ task[x].vpArg # op.vpArg
        BY <2>1, <3>2, JobTaskNodes, JobSchedAssumption
           DEF JobInv, OpInv, JobNodes
      <4> QED
        BY <3>1, <3>2, <4>1 DEF JobInv, LinkedArgumentsAlive
    <3> QED
      BY <2>1, <3>2, <3>3, <3>4, <3>5
         DEF JobInv, TrapsInv, OpInv, ArgsInv
  <2> QED
    BY <2>3, <2>4
<1>5. CASE ModifyDeletes
  <2>1. /\ op # NULL /\ op \in Operations /\ op.oper = "MODIFY"
        /\ op.vpArg \in Args /\ op.id \in Ids /\ op.job \in Jobs
        /\ heap[op.vpArg] \in JobMasters /\ phase = "run"
    BY <1>5 DEF ModifyDeletes, JobInv, TypeOK, Operations, OpInv
  <2>2. /\ heap' = [heap EXCEPT ![op.vpArg].job = op.job]
        /\ task' = [task EXCEPT ![op.id] = NULL]
        /\ op' = IF task[op.id] # NULL THEN [op EXCEPT !.oper = "ADD"] ELSE NULL
        /\ UNCHANGED <<rows, sets, traps, phase, fetched, stListPtr, lTaskId,
                       logging, disturbed>>
    BY <1>5 DEF ModifyDeletes
  <2>3. \A x \in JobTasks' : x \in JobTasks /\ x # op.id /\ task'[x] = task[x]
    BY <2>1, <2>2 DEF JobTasks, JobInv, TypeOK
  <2>4. /\ heap' \in [Args -> JobMasters \cup {NULL}]
        /\ \A a \in Args : heap[a] # NULL => heap'[a] # NULL
    BY <2>1, <2>2, JobSchedAssumption DEF JobInv, TypeOK, JobMasters
  <2>5. TypeOK'
    <3>1. task' \in [Ids -> JobNodes \cup {LogTask, NULL}]
      BY <2>2 DEF JobInv, TypeOK
    <3>2. op' \in Operations \cup {NULL}
      BY <2>1, <2>2 DEF Operations
    <3> QED
      BY <2>2, <2>4, <3>1, <3>2 DEF JobInv, TypeOK
  <2>6. LinkedArgumentsAlive'
    BY <2>3, <2>4, JobTaskNodes DEF JobInv, LinkedArgumentsAlive, JobNodes
  <2>7. op' # NULL => /\ op'.oper = "ADD" /\ op'.id = op.id
                      /\ op'.vpArg = op.vpArg /\ op'.job = op.job
    BY <2>1, <2>2 DEF Operations
  <2>8. OpInv'
    BY <2>1, <2>2, <2>3, <2>4, <2>7, JobSchedAssumption DEF OpInv, JobInv
  <2> QED
    BY <2>2, <2>3, <2>5, <2>6, <2>8 DEF JobInv, TrapsInv, ArgsInv,
       Listed
<1>6. CASE ModifyAdds
  <2> DEFINE R == RemoveFirst(stListPtr, [index |-> op.index, id |-> op.id])
  <2>1. /\ op # NULL /\ op' = NULL
        /\ op.vpArg \in Args /\ op.index \in Indices /\ op.job \in Jobs
        /\ op.id \notin JobTasks /\ heap[op.vpArg] # NULL
        /\ \A x \in JobTasks : task[x].vpArg # op.vpArg
        /\ UNCHANGED <<rows, sets, traps, phase, fetched, heap, lTaskId,
                       logging, disturbed>>
    BY <1>6 DEF ModifyAdds, JobInv, TypeOK, Operations, OpInv
  <2>2. PICK id \in FreeIds :
            /\ task' = [task EXCEPT
                           ![id] = [vpArg |-> op.vpArg, job |-> op.job]]
            /\ stListPtr' = AddNode(R, op.index, id)
    BY <1>6 DEF ModifyAdds
  <2>3. id \in Ids
    BY DEF FreeIds
  <2>4. /\ R \in Seq(Entry)
        /\ \A x \in JobTasks : \E k \in 1 .. Len(R) : R[k].id = x
    BY <2>1, ListWithout
  <2> HIDE DEF R
  <2>5. /\ stListPtr' \in Seq(Entry)
        /\ Len(stListPtr') = Len(R) + 1
        /\ stListPtr'[1] = [index |-> op.index, id |-> id]
        /\ \A k \in 1 .. Len(R) : stListPtr'[k + 1] = R[k]
    <3>1. /\ AddNode(R, op.index, id) \in Seq(Entry)
          /\ Len(AddNode(R, op.index, id)) = Len(R) + 1
          /\ AddNode(R, op.index, id)[1] = [index |-> op.index, id |-> id]
          /\ \A k \in 1 .. Len(R) : AddNode(R, op.index, id)[k + 1] = R[k]
      <4>1. op.index \in Indices /\ R \in Seq(Entry)
        BY <2>1, <2>4
      <4> QED
        BY <2>3, <4>1, Added, Zenon
    <3> QED
      BY <2>2, <3>1
  <2>6. /\ \A x \in JobTasks' : x = id \/ (x \in JobTasks /\ task'[x] = task[x])
        /\ task'[id].vpArg = op.vpArg
    BY <2>2, <2>3 DEF JobTasks, JobInv, TypeOK
  <2>7. ASSUME NEW x \in JobTasks'
        PROVE  \E k \in 1 .. Len(stListPtr') : stListPtr'[k].id = x
    <3>1. Len(R) \in Nat
      BY <2>4
    <3>2. CASE x = id
      BY <2>5, <3>1, <3>2
    <3>3. CASE x \in JobTasks
      <4>1. PICK k \in 1 .. Len(R) : R[k].id = x
        BY <2>4, <3>3
      <4>2. k + 1 \in 1 .. Len(stListPtr')
        BY <2>5, <3>1
      <4> QED
        BY <2>5, <4>1, <4>2
    <3> QED
      BY <2>6, <3>2, <3>3
  <2>8. task' \in [Ids -> JobNodes \cup {LogTask, NULL}]
    BY <2>1, <2>2, <2>3 DEF JobInv, TypeOK, JobNodes
  <2>9. TypeOK'
    BY <2>1, <2>5, <2>8 DEF JobInv, TypeOK, Entry
  <2>10. ArgsInv'
    BY <2>1, <2>6 DEF JobInv, ArgsInv
  <2>11. LinkedArgumentsAlive'
    BY <2>1, <2>6 DEF JobInv, LinkedArgumentsAlive
  <2> QED
    BY <2>1, <2>7, <2>9, <2>10, <2>11
       DEF JobInv, TrapsInv, OpInv, Listed
<1>7. CASE ModifyFails
  <2>1. /\ op' = NULL /\ disturbed' = TRUE
        /\ UNCHANGED <<rows, sets, traps, phase, fetched, stListPtr, task,
                       heap, lTaskId, logging>>
    BY <1>7 DEF ModifyFails
  <2> QED
    BY <2>1 DEF JobInv, TypeOK, TrapsInv, OpInv, ArgsInv,
       Listed, LinkedArgumentsAlive, JobTasks
<1> QED
  BY <1>1, <1>2, <1>3, <1>4, <1>5, <1>6, <1>7 DEF ProcessTrapMsg

\* SCH_AutoCleanTask, and JS_ScheduleLogInfo: whatever node it deletes, and
\* wherever it puts the log task, no task of a job is added or changed.
LEMMA BesideStep ==
    ASSUME JobInv, LogDeletes \/ LogAdds \/ \E id \in Ids : AutoClean(id)
    PROVE  JobInv'
<1>1. /\ task' \in [Ids -> JobNodes \cup {LogTask, NULL}]
      /\ \A x \in JobTasks' : x \in JobTasks /\ task'[x] = task[x]
  BY DEF LogDeletes, LogAdds, ScheduleLog, AutoClean, FreeIds, JobInv, TypeOK,
     JobTasks
<1>2. UNCHANGED <<rows, sets, traps, phase, fetched, stListPtr, heap, op>>
  BY DEF LogDeletes, LogAdds, ScheduleLog, AutoClean
<1>3. lTaskId' \in Ids \cup {NULL}
  BY DEF LogDeletes, LogAdds, ScheduleLog, AutoClean, FreeIds, JobInv, TypeOK
<1>4. logging' \in BOOLEAN /\ disturbed' \in BOOLEAN
  BY DEF LogDeletes, LogAdds, ScheduleLog, AutoClean, JobInv, TypeOK
<1>5. TypeOK'
  BY <1>1, <1>2, <1>3, <1>4 DEF JobInv, TypeOK
<1> QED
  BY <1>1, <1>2, <1>5 DEF JobInv, TrapsInv, OpInv, ArgsInv,
     Listed, LinkedArgumentsAlive

\* Every step keeps the invariant.
LEMMA JobStep == JobInv /\ [Next]_vars => JobInv'
<1> SUFFICES ASSUME JobInv, [Next]_vars PROVE JobInv'
  OBVIOUS
<1>1. CASE UNCHANGED vars
  BY <1>1 DEF vars, daemonVars, JobInv, TypeOK, TrapsInv, OpInv, ArgsInv,
     Listed, LinkedArgumentsAlive, JobTasks
<1> QED
  BY <1>1, ManagerStep, MainStep, TrapStep, BesideStep DEF Next

\* The invariant holds in every state of the daemon and the subagent.
THEOREM JobInvariant == Spec => []JobInv
  BY JobStep, InitJobInv, PTL DEF Spec

\* The types: a task never has the argument of a structure that is not there,
\* and a change never writes through a pointer that is not one.
THEOREM TypeCorrect == Spec => []TypeOK
<1>1. JobInv => TypeOK
  BY DEF JobInv
<1> QED
  BY <1>1, JobInvariant, PTL

\* No task that the scheduler may call has a structure that was freed.
THEOREM ArgumentsAlive == Spec => []LinkedArgumentsAlive
<1>1. JobInv => LinkedArgumentsAlive
  BY DEF JobInv
<1> QED
  BY <1>1, JobInvariant, PTL

-----------------------------------------------------------------------------
(* The schedule against the table.                                         *)

\* A plan has the job of each row that is to have a task, NULL for the others.
Plans == [Indices -> Jobs \cup {NULL}]

\* What the table asks for.
Wanted == [i \in Indices |-> IF rows[i] # NULL /\ rows[i].active
                             THEN rows[i].job ELSE NULL]

\* Row i has the task the plan gives it, or none.
Follows(i, job) ==
    IF job = NULL THEN TasksOf(i) = {}
    ELSE \E id \in Ids : TasksOf(i) = {id} /\ task[id].job = job

\* What a trap makes of a plan: a change of a row without a task is ignored.
AfterTrap(plan, trap) ==
    IF trap.oper = "MODIFY" /\ plan[trap.index] = NULL THEN plan
    ELSE [plan EXCEPT ![trap.index] = IF trap.oper = "DELETE" THEN NULL
                                      ELSE trap.job]

\* The tasks are those of a plan, up to the row of the operation under way, for
\* which the plan has what the operation will have done.
PlanFits(plan) ==
    \A i \in Indices :
        IF op # NULL /\ op.index = i
        THEN plan[i] = IF op.oper = "DELETE" THEN NULL ELSE op.job
        ELSE Follows(i, plan[i])

\* The traps in the queue lead from the schedule to the table, plan by plan, and
\* none of them adds a task to a row that has one.
PlanInv ==
    \E h \in [1 .. Len(traps) + 1 -> Plans] :
        /\ PlanFits(h[1])
        /\ h[Len(traps) + 1] = Wanted
        /\ \A k \in 1 .. Len(traps) :
               /\ h[k + 1] = AfterTrap(h[k], traps[k])
               /\ traps[k].oper = "ADD" => h[k][traps[k].index] = NULL

\* While the rows are added, those that are left have no task yet.
FetchedInv ==
    \A i \in Indices : IF fetched[i] # NULL
                       THEN Asks(fetched[i]) = Wanted[i] /\ TasksOf(i) = {}
                       ELSE Follows(i, Wanted[i])

\* The list has one entry per row, and it names a task of the row, or the one
\* JS_ModifyJobToSched has just deleted.
ListInv ==
    /\ \A k \in 1 .. Len(stListPtr) :
           \/ stListPtr[k].id \in TasksOf(stListPtr[k].index)
           \/ /\ op # NULL /\ op.oper = "ADD"
              /\ stListPtr[k] = [index |-> op.index, id |-> op.id]
    /\ \A k, m \in 1 .. Len(stListPtr) :
           stListPtr[k].index = stListPtr[m].index => k = m

\* The operation under way is for the row of the task it has found.
OpTidy ==
    op # NULL => /\ op.vpArg # LOG
                 /\ heap[op.vpArg].index = op.index
                 /\ IF op.oper = "ADD" THEN TasksOf(op.index) = {}
                    ELSE /\ TasksOf(op.index) = {op.id}
                         /\ task[op.id].vpArg = op.vpArg

\* There is no log task but the one JS_ScheduleLogInfo knows.
LogInv == \A id \in Ids : task[id] = LogTask <=> ~logging /\ id = lTaskId

\* Before the rows are fetched there is no task of a job, and before the daemon
\* listens there are no traps.
StartInv ==
    /\ phase \in {"down", "fetch"} => stListPtr = << >> /\ JobTasks = {}
    /\ phase = "down" => ~logging /\ \A id \in Ids : task[id] = NULL
    /\ phase # "run" => traps = << >>

\* The daemon while nothing was lost or refused.
TidyInv == /\ ListInv /\ OpTidy /\ LogInv
           /\ phase = "add" => FetchedInv
           /\ phase = "run" => PlanInv

\* As long as nothing was lost or refused, the daemon is tidy.
ScheduleInv == /\ JobInv /\ StartInv
               /\ ~disturbed /\ phase # "down" => TidyInv

-----------------------------------------------------------------------------
(* What a step does to the tasks of each row.                              *)

\* A step that changes no task of a job leaves the schedule as it is.
LEMMA TasksKept ==
    ASSUME JobInv, JobTasks' = JobTasks,
           \A x \in JobTasks :
               /\ task'[x] = task[x]
               /\ heap'[task[x].vpArg].index = heap[task[x].vpArg].index
    PROVE  /\ \A i \in Indices : TasksOf(i)' = TasksOf(i)
           /\ \A i \in Indices, job \in Jobs \cup {NULL} :
                  Follows(i, job)' <=> Follows(i, job)
<1>1. ASSUME NEW i \in Indices PROVE TasksOf(i)' = TasksOf(i)
  BY DEF TasksOf
<1>2. ASSUME NEW i \in Indices, NEW job \in Jobs \cup {NULL}
      PROVE  Follows(i, job)' <=> Follows(i, job)
  <2>1. TasksOf(i)' = TasksOf(i) /\ TasksOf(i) \subseteq JobTasks
    BY <1>1 DEF TasksOf
  <2>2. ASSUME NEW id \in Ids, TasksOf(i) = {id} PROVE task'[id] = task[id]
    BY <2>1, <2>2
  <2> QED
    BY <2>1, <2>2 DEF Follows
<1> QED
  BY <1>1, <1>2

\* SCH_AddTask puts a task for row i in node id, with the structure a.
MakesTask(i, job, id, a) ==
    /\ \A x \in JobTasks : task[x].vpArg # a
    /\ task' = [task EXCEPT ![id] = [vpArg |-> a, job |-> job]]
    /\ heap'[a].index = i
    /\ \A b \in Args : b # a => heap'[b] = heap[b]

\* A new task for row i leaves the other rows alone.
LEMMA TaskMade ==
    ASSUME JobInv, NEW i \in Indices, NEW job \in Jobs, NEW id \in FreeIds,
           NEW a \in Args, MakesTask(i, job, id, a)
    PROVE  /\ id \in Ids /\ id \notin JobTasks
           /\ JobTasks' = JobTasks \cup {id}
           /\ TasksOf(i)' = TasksOf(i) \cup {id}
           /\ \A j \in Indices : j # i => TasksOf(j)' = TasksOf(j)
           /\ \A j \in Indices, w \in Jobs \cup {NULL} :
                  j # i => (Follows(j, w)' <=> Follows(j, w))
           /\ TasksOf(i) = {} => Follows(i, job)'
           /\ \A x \in Ids : task'[x] = LogTask <=> task[x] = LogTask
<1> USE DEF MakesTask
<1>1. id \in Ids /\ task[id] = NULL /\ id \notin JobTasks
  BY DEF FreeIds, JobTasks
<1>2. /\ task'[id] = [vpArg |-> a, job |-> job]
      /\ \A x \in Ids : x # id => task'[x] = task[x]
      /\ task'[id].vpArg = a /\ task'[id].job = job
  BY <1>1 DEF JobInv, TypeOK
<1>3. task'[id] # NULL /\ task'[id] # LogTask
  <2>1. task'[id] \in JobNodes
    BY <1>2 DEF JobNodes
  <2> QED
    BY <2>1, JobTaskNodes, JobSchedAssumption DEF JobInv
<1>4. JobTasks' = JobTasks \cup {id}
  BY <1>1, <1>2, <1>3 DEF JobTasks
<1>5. \A x \in JobTasks : /\ x # id /\ task'[x] = task[x]
                          /\ task[x].vpArg \in Args
                          /\ heap'[task[x].vpArg] = heap[task[x].vpArg]
  BY <1>1, <1>2, JobTaskNodes DEF JobInv, JobNodes
<1>6. TasksOf(i)' = TasksOf(i) \cup {id}
  BY <1>2, <1>4, <1>5 DEF TasksOf
<1>7. \A j \in Indices : j # i => TasksOf(j)' = TasksOf(j)
  BY <1>2, <1>4, <1>5 DEF TasksOf
<1>8. ASSUME NEW j \in Indices, NEW w \in Jobs \cup {NULL}, j # i
      PROVE  Follows(j, w)' <=> Follows(j, w)
  <2>1. TasksOf(j)' = TasksOf(j) /\ TasksOf(j) \subseteq JobTasks
    BY <1>7, <1>8 DEF TasksOf
  <2>2. ASSUME NEW x \in Ids, TasksOf(j) = {x} PROVE task'[x] = task[x]
    BY <1>5, <2>1, <2>2
  <2> QED
    BY <2>1, <2>2 DEF Follows
<1>9. TasksOf(i) = {} => Follows(i, job)'
  BY <1>1, <1>2, <1>6, JobSchedAssumption DEF Follows
<1>10. \A x \in Ids : task'[x] = LogTask <=> task[x] = LogTask
  BY <1>1, <1>2, <1>3, JobSchedAssumption
<1> QED
  BY <1>1, <1>4, <1>6, <1>7, <1>8, <1>9, <1>10

\* SCH_DeleteTask of the only task of row i; the structures of the other tasks
\* stay those of their rows.
EndsTask(i, id) ==
    /\ TasksOf(i) = {id}
    /\ task' = [task EXCEPT ![id] = NULL]
    /\ \A x \in JobTasks :
           x # id => heap'[task[x].vpArg].index = heap[task[x].vpArg].index

\* Deleting the only task of row i leaves the other rows alone.
LEMMA TaskGone ==
    ASSUME JobInv, NEW i \in Indices, NEW id \in Ids, EndsTask(i, id)
    PROVE  /\ JobTasks' = JobTasks \ {id}
           /\ TasksOf(i)' = {}
           /\ \A j \in Indices : j # i => TasksOf(j)' = TasksOf(j)
           /\ \A j \in Indices, w \in Jobs \cup {NULL} :
                  j # i => (Follows(j, w)' <=> Follows(j, w))
           /\ \A x \in Ids : task'[x] = LogTask <=> task[x] = LogTask
<1> USE DEF EndsTask
<1>1. /\ task'[id] = NULL
      /\ \A x \in Ids : x # id => task'[x] = task[x]
  BY DEF JobInv, TypeOK
<1>2. JobTasks' = JobTasks \ {id}
  BY <1>1 DEF JobTasks
<1>3. \A x \in JobTasks : x \in Ids
  BY DEF JobTasks
<1>4. TasksOf(i)' = {}
  BY <1>1, <1>2, <1>3 DEF TasksOf
<1>5. \A j \in Indices : j # i => id \notin TasksOf(j)
  BY DEF TasksOf
<1>6. ASSUME NEW j \in Indices, j # i PROVE TasksOf(j)' = TasksOf(j)
  BY <1>1, <1>2, <1>3, <1>5, <1>6 DEF TasksOf
<1>7. ASSUME NEW j \in Indices, NEW w \in Jobs \cup {NULL}, j # i
      PROVE  Follows(j, w)' <=> Follows(j, w)
  <2>1. TasksOf(j)' = TasksOf(j) /\ id \notin TasksOf(j)
    BY <1>5, <1>6, <1>7
  <2>2. ASSUME NEW x \in Ids, TasksOf(j) = {x} PROVE task'[x] = task[x]
    BY <1>1, <2>1, <2>2
  <2> QED
    BY <2>1, <2>2 DEF Follows
<1>8. \A x \in Ids : task'[x] = LogTask <=> task[x] = LogTask
  <2>1. id \in JobTasks
    BY DEF TasksOf
  <2> QED
    BY <1>1, <2>1, JobSchedAssumption DEF JobTasks
<1> QED
  BY <1>2, <1>4, <1>6, <1>7, <1>8

-----------------------------------------------------------------------------
(* What a step does to the plans.                                          *)

\* A SET that tells the daemon what it did to the table.
LEMMA PlanGrows ==
    ASSUME JobInv, PlanInv, UNCHANGED <<task, heap, op>>,
           rows' \in [Indices -> Rows \cup {NULL}],
           NEW t \in TrapMsgs, traps' = Append(traps, t),
           Wanted' = AfterTrap(Wanted, t),
           t.oper = "ADD" => Wanted[t.index] = NULL
    PROVE  PlanInv'
<1>1. PICK h \in [1 .. Len(traps) + 1 -> Plans] :
        /\ PlanFits(h[1])
        /\ h[Len(traps) + 1] = Wanted
        /\ \A k \in 1 .. Len(traps) :
               /\ h[k + 1] = AfterTrap(h[k], traps[k])
               /\ traps[k].oper = "ADD" => h[k][traps[k].index] = NULL
  BY DEF PlanInv
<1>2. PICK W \in Plans : W = Wanted'
  BY JobSchedAssumption DEF Plans, Wanted, Rows
<1>3. PICK n \in Nat :
        /\ n = Len(traps) /\ Len(traps') = n + 1 /\ traps'[n + 1] = t
        /\ \A k \in 1 .. n : traps'[k] = traps[k]
  BY DEF JobInv, TypeOK
<1> DEFINE g == [k \in 1 .. n + 2 |-> IF k <= n + 1 THEN h[k] ELSE W]
<1>4. g \in [1 .. n + 2 -> Plans]
  BY <1>1, <1>2, <1>3
<1>5. /\ \A k \in 1 .. n + 1 : g[k] = h[k]
      /\ g[n + 2] = W
  BY <1>3
<1>6. PlanFits(g[1])'
  <2>1. g[1] = h[1]
    BY <1>3, <1>5
  <2>2. \A P \in Plans : PlanFits(P)' <=> PlanFits(P)
    BY DEF PlanFits, Follows, TasksOf, JobTasks
  <2>3. h[1] \in Plans
    BY <1>1, <1>3
  <2> QED
    BY <1>1, <2>1, <2>2, <2>3
<1>7. ASSUME NEW k \in 1 .. n + 1
      PROVE  /\ g[k + 1] = AfterTrap(g[k], traps'[k])
             /\ traps'[k].oper = "ADD" => g[k][traps'[k].index] = NULL
  <2>1. CASE k = n + 1
    <3>1. g[k] = Wanted /\ g[k + 1] = W /\ traps'[k] = t
      <4>1. (n + 1) + 1 = n + 2 /\ n + 1 \in 1 .. n + 1
        BY <1>3
      <4> QED
        BY <1>1, <1>3, <1>5, <2>1, <4>1
    <3> QED
      BY <1>2, <3>1
  <2>2. CASE k # n + 1
    <3>1. k \in 1 .. n /\ k \in 1 .. n + 1 /\ k + 1 \in 1 .. n + 1
      BY <1>3, <2>2
    <3> QED
      BY <1>1, <1>3, <1>5, <3>1
  <2> QED
    BY <2>1, <2>2
<1> HIDE DEF g
<1>8. Len(traps') + 1 = n + 2
  BY <1>3
<1>9. /\ g \in [1 .. Len(traps') + 1 -> Plans]
      /\ g[Len(traps') + 1] = Wanted'
      /\ \A k \in 1 .. Len(traps') :
             /\ g[k + 1] = AfterTrap(g[k], traps'[k])
             /\ traps'[k].oper = "ADD" => g[k][traps'[k].index] = NULL
  BY <1>2, <1>3, <1>4, <1>5, <1>7, <1>8
<1> QED
  BY <1>6, <1>9 DEF PlanInv

\* The first trap is handled, or begun.
LEMMA PlanShrinks ==
    ASSUME JobInv, PlanInv, traps # << >>, traps' = Tail(traps), rows' = rows,
           \A P, Q \in Plans :
               /\ PlanFits(P) /\ Q = AfterTrap(P, Head(traps))
               /\ Head(traps).oper = "ADD" => P[Head(traps).index] = NULL
               => PlanFits(Q)'
    PROVE  PlanInv'
<1>1. PICK h \in [1 .. Len(traps) + 1 -> Plans] :
        /\ PlanFits(h[1])
        /\ h[Len(traps) + 1] = Wanted
        /\ \A k \in 1 .. Len(traps) :
               /\ h[k + 1] = AfterTrap(h[k], traps[k])
               /\ traps[k].oper = "ADD" => h[k][traps[k].index] = NULL
  BY DEF PlanInv
<1>2. PICK n \in Nat :
        /\ n = Len(traps) /\ n > 0 /\ Len(traps') = n - 1
        /\ Head(traps) = traps[1]
        /\ \A k \in 1 .. n - 1 : traps'[k] = traps[k + 1]
  BY DEF JobInv, TypeOK
<1> DEFINE g == [k \in 1 .. n |-> h[k + 1]]
<1>3. g \in [1 .. n -> Plans]
  BY <1>1, <1>2
<1>4. Wanted' = Wanted
  BY DEF Wanted
<1>5. g[n] = Wanted /\ g[1] = h[2]
  BY <1>1, <1>2
<1>6. PlanFits(g[1])'
  <2>1. h[1] \in Plans /\ h[2] \in Plans
    BY <1>1, <1>2
  <2>2. /\ h[2] = AfterTrap(h[1], Head(traps))
        /\ Head(traps).oper = "ADD" => h[1][Head(traps).index] = NULL
    <3>1. 1 \in 1 .. n /\ 1 + 1 = 2
      BY <1>2
    <3> QED
      BY <1>1, <1>2, <3>1
  <2>3. \A Q \in Plans : Q = h[2] => PlanFits(Q)'
    BY <1>1, <2>1, <2>2
  <2>4. h[2] = g[1] /\ g[1] \in Plans
    BY <1>5, <2>1
  <2> QED
    BY <2>3, <2>4
<1>7. ASSUME NEW k \in 1 .. n - 1
      PROVE  /\ g[k + 1] = AfterTrap(g[k], traps'[k])
             /\ traps'[k].oper = "ADD" => g[k][traps'[k].index] = NULL
  <2>1. k \in 1 .. n /\ k + 1 \in 1 .. n
    BY <1>2
  <2>2. g[k] = h[k + 1] /\ g[k + 1] = h[(k + 1) + 1] /\ traps'[k] = traps[k + 1]
    BY <1>2, <2>1
  <2> QED
    BY <1>1, <1>2, <2>1, <2>2
<1> HIDE DEF g
<1>8. (n - 1) + 1 = n
  BY <1>2
<1>9. /\ g \in [1 .. Len(traps') + 1 -> Plans]
      /\ g[Len(traps') + 1] = Wanted'
      /\ \A k \in 1 .. Len(traps') :
             /\ g[k + 1] = AfterTrap(g[k], traps'[k])
             /\ traps'[k].oper = "ADD" => g[k][traps'[k].index] = NULL
  BY <1>2, <1>3, <1>4, <1>5, <1>7, <1>8
<1> QED
  BY <1>6, <1>9 DEF PlanInv

\* No trap comes or goes.
LEMMA PlanKept ==
    ASSUME PlanInv, traps' = traps, Wanted' = Wanted,
           \A P \in Plans : PlanFits(P) => PlanFits(P)',
           JobInv
    PROVE  PlanInv'
<1>1. PICK h \in [1 .. Len(traps) + 1 -> Plans] :
        /\ PlanFits(h[1])
        /\ h[Len(traps) + 1] = Wanted
        /\ \A k \in 1 .. Len(traps) :
               /\ h[k + 1] = AfterTrap(h[k], traps[k])
               /\ traps[k].oper = "ADD" => h[k][traps[k].index] = NULL
  BY DEF PlanInv
<1>2. Len(traps) \in Nat
  BY DEF JobInv, TypeOK
<1>3. h[1] \in Plans
  BY <1>1, <1>2
<1>4. PlanFits(h[1])'
  BY <1>1, <1>3
<1> QED
  BY <1>1, <1>4 DEF PlanInv

\* Nor is the table set.
LEMMA PlanStays ==
    ASSUME PlanInv, traps' = traps, rows' = rows,
           \A P \in Plans : PlanFits(P) => PlanFits(P)',
           JobInv
    PROVE  PlanInv'
<1>1. Wanted' = Wanted
  BY DEF Wanted
<1> QED
  BY <1>1, PlanKept

-----------------------------------------------------------------------------
(* What a step does to the list.                                           *)

\* The entry of a new task comes before a list without this row.
LEMMA ListGrows ==
    ASSUME NEW L \in Seq(Entry), NEW i \in Indices, NEW id \in Ids,
           id \in TasksOf(i)',
           \A k \in 1 .. Len(L) : /\ L[k].index # i
                                  /\ L[k].id \in TasksOf(L[k].index)',
           \A k, m \in 1 .. Len(L) : L[k].index = L[m].index => k = m,
           stListPtr' = AddNode(L, i, id)
    PROVE  ListInv'
<1> DEFINE A == AddNode(L, i, id)
<1>1. /\ A \in Seq(Entry) /\ Len(A) = Len(L) + 1
      /\ A[1] = [index |-> i, id |-> id]
      /\ \A k \in 1 .. Len(L) : A[k + 1] = L[k]
  <2>1. \A s \in Seq(Entry), j \in Indices, x \in Ids :
            /\ AddNode(s, j, x) \in Seq(Entry)
            /\ Len(AddNode(s, j, x)) = Len(s) + 1
            /\ AddNode(s, j, x)[1] = [index |-> j, id |-> x]
            /\ \A k \in 1 .. Len(s) : AddNode(s, j, x)[k + 1] = s[k]
    BY Added, Zenon
  <2> QED
    BY <2>1
<1> HIDE DEF A
<1>2. Len(L) \in Nat
  OBVIOUS
<1>3. A[1].index = i /\ A[1].id = id
  BY <1>1
<1>4. ASSUME NEW k \in 1 .. Len(A), k # 1
      PROVE  k - 1 \in 1 .. Len(L) /\ A[k] = L[k - 1]
  <2>1. k - 1 \in 1 .. Len(L) /\ (k - 1) + 1 = k
    BY <1>1, <1>2, <1>4
  <2> QED
    BY <1>1, <2>1
<1>5. ASSUME NEW k \in 1 .. Len(A)
      PROVE  A[k].id \in TasksOf(A[k].index)'
  BY <1>3, <1>4, <1>5
<1>6. ASSUME NEW k \in 1 .. Len(A), NEW m \in 1 .. Len(A),
             A[k].index = A[m].index
      PROVE  k = m
  <2>1. CASE k = 1 \/ m = 1
    BY <1>3, <1>4, <1>6, <2>1
  <2>2. CASE k # 1 /\ m # 1
    <3>1. k - 1 = m - 1
      BY <1>4, <1>6, <2>2
    <3> QED
      BY <1>1, <1>2, <3>1
  <2> QED
    BY <2>1, <2>2
<1>7. stListPtr' = A
  BY DEF A
<1> QED
  BY <1>5, <1>6, <1>7 DEF ListInv

\* Where the entries that stay were before, and that one that matched is gone.
LEMMA RemovedFrom ==
    ASSUME NEW S, NEW s \in Seq(S), NEW e
    PROVE  \E T \in Seq(S) :
               /\ T = RemoveFirst(s, e)
               /\ \E f \in [1 .. Len(T) -> 1 .. Len(s)] :
                      /\ \A k \in 1 .. Len(T) : T[k] = s[f[k]]
                      /\ \A k, m \in 1 .. Len(T) : f[k] = f[m] => k = m
                      /\ \A n \in 1 .. Len(s) : s[n] = e =>
                             \E p \in 1 .. Len(s) :
                                 s[p] = e /\ \A k \in 1 .. Len(T) : f[k] # p
<1> DEFINE R == RemoveFirst(s, e)
<1>1. CASE ~\E n \in 1 .. Len(s) : s[n] = e
  <2>1. R = s
    BY <1>1 DEF RemoveFirst
  <2> DEFINE f == [k \in 1 .. Len(s) |-> k]
  <2>2. /\ f \in [1 .. Len(s) -> 1 .. Len(s)]
        /\ \A k \in 1 .. Len(s) : s[k] = s[f[k]]
        /\ \A k, m \in 1 .. Len(s) : f[k] = f[m] => k = m
    OBVIOUS
  <2> HIDE DEF R, f
  <2> QED
    BY <1>1, <2>1, <2>2 DEF R
<1>2. CASE \E n \in 1 .. Len(s) : s[n] = e
  <2>1. PICK p \in 1 .. Len(s) :
            /\ s[p] = e
            /\ R \in Seq(S)
            /\ Len(R) = Len(s) - 1
            /\ \A k \in 1 .. Len(s) - 1 :
                   R[k] = IF k < p THEN s[k] ELSE s[k + 1]
    BY <1>2, FirstRemoved
  <2> HIDE DEF R
  <2> DEFINE f == [k \in 1 .. Len(R) |-> IF k < p THEN k ELSE k + 1]
  <2>2. Len(s) \in Nat
    OBVIOUS
  <2>3. f \in [1 .. Len(R) -> 1 .. Len(s)]
    BY <2>1, <2>2
  <2>4. \A k \in 1 .. Len(R) : R[k] = s[f[k]] /\ f[k] # p
    BY <2>1, <2>2
  <2>5. \A k, m \in 1 .. Len(R) : f[k] = f[m] => k = m
    BY <2>1, <2>2
  <2> HIDE DEF f
  <2>6. \A n \in 1 .. Len(s) : s[n] = e =>
            \E q \in 1 .. Len(s) : s[q] = e /\ \A k \in 1 .. Len(R) : f[k] # q
    BY <2>1, <2>4
  <2>7. \E g \in [1 .. Len(R) -> 1 .. Len(s)] :
            /\ \A k \in 1 .. Len(R) : R[k] = s[g[k]]
            /\ \A k, m \in 1 .. Len(R) : g[k] = g[m] => k = m
            /\ \A n \in 1 .. Len(s) : s[n] = e =>
                   \E q \in 1 .. Len(s) :
                       s[q] = e /\ \A k \in 1 .. Len(R) : g[k] # q
    BY <2>3, <2>4, <2>5, <2>6
  <2> QED
    BY <2>1, <2>7 DEF R
<1> QED
  BY <1>1, <1>2

\* No two entries of a list are for the same row.
OnePerRow(s) == \A k, m \in 1 .. Len(s) : s[k].index = s[m].index => k = m

\* A list without two entries for a row, less one of them.
LEMMA ListShrinks ==
    ASSUME NEW s \in Seq(Entry), NEW e, OnePerRow(s)
    PROVE  \E R \in Seq(Entry) :
               /\ R = RemoveFirst(s, e) /\ OnePerRow(R)
               /\ \A k \in 1 .. Len(R) :
                      R[k] # e /\ \E m \in 1 .. Len(s) : R[k] = s[m]
<1>1. PICK R \in Seq(Entry) :
        /\ R = RemoveFirst(s, e)
        /\ \E f \in [1 .. Len(R) -> 1 .. Len(s)] :
               /\ \A k \in 1 .. Len(R) : R[k] = s[f[k]]
               /\ \A k, m \in 1 .. Len(R) : f[k] = f[m] => k = m
               /\ \A n \in 1 .. Len(s) : s[n] = e =>
                      \E p \in 1 .. Len(s) :
                          s[p] = e /\ \A k \in 1 .. Len(R) : f[k] # p
  BY RemovedFrom
<1>2. PICK f \in [1 .. Len(R) -> 1 .. Len(s)] :
        /\ \A k \in 1 .. Len(R) : R[k] = s[f[k]]
        /\ \A k, m \in 1 .. Len(R) : f[k] = f[m] => k = m
        /\ \A n \in 1 .. Len(s) : s[n] = e =>
               \E p \in 1 .. Len(s) :
                   s[p] = e /\ \A k \in 1 .. Len(R) : f[k] # p
  BY <1>1, Zenon
<1>3. OnePerRow(s)
  OBVIOUS
<1>4. \A k \in 1 .. Len(R) : R[k] # e /\ \E m \in 1 .. Len(s) : R[k] = s[m]
  <2> SUFFICES ASSUME NEW k \in 1 .. Len(R)
               PROVE  R[k] # e /\ \E m \in 1 .. Len(s) : R[k] = s[m]
    OBVIOUS
  <2>1. f[k] \in 1 .. Len(s) /\ R[k] = s[f[k]]
    BY <1>2
  <2>2. ASSUME s[f[k]] = e PROVE FALSE
    <3>1. PICK p \in 1 .. Len(s) :
            s[p] = e /\ \A n \in 1 .. Len(R) : f[n] # p
      BY <1>2, <2>1, <2>2
    <3>2. p = f[k]
      BY <1>3, <2>1, <2>2, <3>1 DEF OnePerRow
    <3> QED
      BY <3>1, <3>2
  <2> QED
    BY <2>1, <2>2
<1>5. OnePerRow(R)
  BY <1>2, <1>3 DEF OnePerRow
<1> QED
  BY <1>1, <1>4, <1>5

-----------------------------------------------------------------------------
(* The steps.                                                              *)

\* Only JS_StartJobSchedProcess and the thread it starts add tasks and read
\* traps.
LEMMA StartStep ==
    ASSUME JobInv, StartInv, [Next]_vars
    PROVE  StartInv'
<1>1. CASE UNCHANGED vars
  BY <1>1 DEF vars, daemonVars, StartInv, JobTasks
<1>2. CASE Manager
  <2>1. UNCHANGED daemonVars
    BY <1>2 DEF Manager, SetActive, SetNotInService, Destroy, CreateAndGo,
       SetSilently, CreateAndWait, SetColumns, SetRow
  <2>2. phase # "run" => traps' = traps
    BY <1>2 DEF Manager, SetActive, SetNotInService, Destroy, CreateAndGo,
       SetSilently, CreateAndWait, SetColumns, SetRow, SendTrap
  <2> QED
    BY <2>1, <2>2 DEF StartInv, daemonVars, JobTasks
<1>3. CASE Start
  <2>1. JobTasks' = {}
    BY <1>3 DEF Start, ScheduleLog, StartInv, JobTasks, JobInv, TypeOK
  <2> QED
    BY <1>3, <2>1 DEF Start, StartInv
<1>4. CASE FetchRows \/ FetchFails \/ InitCBuffer
  BY <1>4 DEF FetchRows, FetchFails, InitCBuffer, StartInv
<1>5. CASE Exit
  <2>1. JobTasks' = {} /\ \A id \in Ids : task'[id] = NULL
    BY <1>5 DEF Exit, JobTasks
  <2> QED
    BY <1>5, <2>1 DEF Exit, StartInv
<1>6. CASE \E i \in Indices : AddFetched(i)
  BY <1>6 DEF AddFetched, StartInv
<1>7. CASE ProcessTrapMsg
  <2>1. phase = "run" /\ phase' = phase
    BY <1>7 DEF ProcessTrapMsg, ParseAdd, ParseUnknown, ParseKnown, NextTrap,
       DeleteTask, ModifyDeletes, ModifyAdds, ModifyFails, JobInv, OpInv,
       daemonVars
  <2> QED
    BY <2>1 DEF StartInv
<1>8. CASE LogDeletes \/ LogAdds \/ \E id \in Ids : AutoClean(id)
  <2>1. UNCHANGED <<phase, traps, stListPtr>>
    BY <1>8 DEF LogDeletes, LogAdds, AutoClean
  <2>2. JobTasks' \subseteq JobTasks
    BY <1>8 DEF LogDeletes, LogAdds, ScheduleLog, AutoClean, FreeIds, JobTasks,
       JobInv, TypeOK
  <2>3. phase # "down"
    <3>1. LogTask # NULL
      BY JobSchedAssumption
    <3> QED
      BY <1>8, <3>1 DEF LogDeletes, LogAdds, AutoClean, StartInv
  <2> QED
    BY <2>1, <2>2, <2>3 DEF StartInv
<1> QED
  BY <1>1, <1>2, <1>3, <1>4, <1>5, <1>6, <1>7, <1>8 DEF Next

\* A SET without a trap that leaves what the table asks for.
LEMMA SilentTidy ==
    ASSUME JobInv, TidyInv, NEW i \in Indices, NEW row \in Rows \cup {NULL},
           SetSilently(i, row), ~disturbed'
    PROVE  TidyInv'
<1>1. /\ UNCHANGED daemonVars /\ traps' = traps
      /\ rows' = [rows EXCEPT ![i] = row]
      /\ phase \in {"add", "run"} => Asks(row) = Asks(rows[i])
  BY DEF SetSilently, SetRow
<1>2. ListInv' /\ OpTidy' /\ LogInv'
  BY <1>1 DEF TidyInv, ListInv, OpTidy, LogInv, TasksOf, JobTasks, daemonVars
<1>3. ASSUME phase \in {"add", "run"} PROVE Wanted' = Wanted
  <2>1. \A j \in Indices : rows'[j] = IF j = i THEN row ELSE rows[j]
    BY <1>1 DEF JobInv, TypeOK
  <2>2. Asks(row) = Asks(rows[i])
    BY <1>1, <1>3
  <2>3. \A j \in Indices : Asks(rows'[j]) = Asks(rows[j])
    BY <2>1, <2>2
  <2>4. /\ Wanted = [j \in Indices |-> Asks(rows[j])]
        /\ Wanted' = [j \in Indices |-> Asks(rows'[j])]
    BY DEF Wanted, Asks
  <2> QED
    BY <2>3, <2>4
<1>4. /\ \A j \in Indices : TasksOf(j)' = TasksOf(j)
      /\ \A j, w : Follows(j, w)' <=> Follows(j, w)
  BY <1>1 DEF daemonVars, TasksOf, JobTasks, Follows
<1>5. phase = "add" => FetchedInv'
  BY <1>1, <1>3, <1>4 DEF TidyInv, FetchedInv, daemonVars
<1>6. phase = "run" => PlanInv'
  <2>1. \A P \in Plans : PlanFits(P) => PlanFits(P)'
    BY <1>1, <1>4 DEF PlanFits, daemonVars
  <2> QED
    BY <1>1, <1>3, <2>1, PlanKept DEF TidyInv
<1> QED
  BY <1>1, <1>2, <1>5, <1>6 DEF TidyInv, daemonVars

\* A SET of the table while the daemon listens is followed by its trap.
LEMMA AnnouncedTidy ==
    ASSUME JobInv, JobInv', TidyInv, ~disturbed', NEW i \in Indices,
           \/ SetActive(i) \/ SetNotInService(i) \/ Destroy(i)
           \/ \E job \in Jobs :
                  \/ CreateAndGo(i, job) \/ CreateAndWait(i, job)
                  \/ SetColumns(i, job)
    PROVE  TidyInv'
<1>1. UNCHANGED daemonVars
  BY DEF SetActive, SetNotInService, Destroy, CreateAndGo,
     CreateAndWait, SetColumns, SetRow
<1>2. phase # "add"
  BY DEF SetActive, SetNotInService, Destroy, CreateAndGo,
     CreateAndWait, SetColumns, SendTrap
<1>3. ListInv' /\ OpTidy' /\ LogInv'
  BY <1>1 DEF TidyInv, ListInv, OpTidy, LogInv, TasksOf, JobTasks, daemonVars
<1>4. ASSUME phase = "run" PROVE PlanInv'
  <2> DEFINE Suits(t) ==
                 /\ traps' = Append(traps, t)
                 /\ t.index = i
                 /\ t.oper = "ADD" => Wanted[i] = NULL /\ Wanted'[i] = t.job
                 /\ t.oper = "DELETE" => Wanted'[i] = NULL
                 /\ t.oper = "MODIFY" =>
                        Wanted'[i] = IF Wanted[i] = NULL THEN NULL ELSE t.job
  <2>1. /\ rows \in [Indices -> Rows \cup {NULL}]
        /\ rows' \in [Indices -> Rows \cup {NULL}]
        /\ Wanted[i] = IF rows[i] # NULL /\ rows[i].active THEN rows[i].job
                       ELSE NULL
        /\ Wanted'[i] = IF rows'[i] # NULL /\ rows'[i].active
                        THEN rows'[i].job ELSE NULL
    BY DEF JobInv, TypeOK, Wanted
  <2>2. \A r \in Rows : r.active \in BOOLEAN /\ r.job \in Jobs /\ r # NULL
    BY JobSchedAssumption DEF Rows
  <2>3. \A oper \in {"ADD", "MODIFY", "DELETE"}, job \in Jobs \cup {NULL} :
            /\ Trap(oper, i, job) \in TrapMsgs
            /\ Trap(oper, i, job).oper = oper
            /\ Trap(oper, i, job).index = i
            /\ Trap(oper, i, job).job = job
    BY DEF Trap, TrapMsgs
  <2>4. \E t \in TrapMsgs : Suits(t)
    <3>1. CASE SetActive(i)
      <4>1. /\ rows[i] \in Rows /\ ~rows[i].active
            /\ rows'[i].active /\ rows'[i].job = rows[i].job
            /\ rows'[i] \in Rows
            /\ traps' = Append(traps, Trap("ADD", i, rows[i].job))
        BY <1>4, <2>1, <3>1 DEF SetActive, SetRow, SendTrap, Rows
      <4>2. Suits(Trap("ADD", i, rows[i].job))
        BY <2>1, <2>2, <2>3, <4>1
      <4> QED
        BY <2>2, <2>3, <4>1, <4>2
    <3>2. CASE SetNotInService(i) \/ Destroy(i)
      <4>1. /\ rows'[i] = NULL \/ ~rows'[i].active
            /\ traps' = Append(traps, Trap("DELETE", i, NULL))
        BY <1>4, <2>1, <3>2 DEF SetNotInService, Destroy, SetRow, SendTrap, Rows
      <4>2. Suits(Trap("DELETE", i, NULL))
        BY <2>1, <2>3, <4>1
      <4> QED
        BY <2>3, <4>2
    <3>3. ASSUME NEW job \in Jobs, CreateAndGo(i, job)
          PROVE  \E t \in TrapMsgs : Suits(t)
      <4>1. /\ rows[i] = NULL
            /\ rows'[i].active /\ rows'[i].job = job /\ rows'[i] \in Rows
            /\ traps' = Append(traps, Trap("ADD", i, job))
        BY <1>4, <2>1, <3>3 DEF CreateAndGo, SetRow, SendTrap, Rows
      <4>2. Suits(Trap("ADD", i, job))
        BY <2>1, <2>2, <2>3, <4>1
      <4> QED
        BY <2>3, <4>2
    <3>4. ASSUME NEW job \in Jobs, CreateAndWait(i, job)
          PROVE  \E t \in TrapMsgs : Suits(t)
      <4>1. /\ rows[i] = NULL /\ ~rows'[i].active
            /\ traps' = Append(traps, Trap("MODIFY", i, job))
        BY <1>4, <2>1, <3>4 DEF CreateAndWait, SetRow, SendTrap, Rows
      <4>2. Suits(Trap("MODIFY", i, job))
        BY <2>1, <2>2, <2>3, <4>1
      <4> QED
        BY <2>3, <4>2
    <3>5. ASSUME NEW job \in Jobs, SetColumns(i, job)
          PROVE  \E t \in TrapMsgs : Suits(t)
      <4>1. /\ rows[i] \in Rows /\ rows'[i] \in Rows
            /\ rows'[i].active = rows[i].active /\ rows'[i].job = job
            /\ traps' = Append(traps, IF rows[i].active
                                      THEN Trap("MODIFY", i, job)
                                      ELSE Trap("DELETE", i, NULL))
        BY <1>4, <2>1, <3>5 DEF SetColumns, SetRow, SendTrap, Rows
      <4>2. CASE rows[i].active
        <5>1. Suits(Trap("MODIFY", i, job))
          BY <2>1, <2>2, <2>3, <4>1, <4>2, JobSchedAssumption
        <5> QED
          BY <2>3, <5>1
      <4>3. CASE ~rows[i].active
        <5>1. Suits(Trap("DELETE", i, NULL))
          BY <2>1, <2>2, <2>3, <4>1, <4>3
        <5> QED
          BY <2>3, <5>1
      <4> QED
        BY <4>2, <4>3
    <3> QED
      BY <3>1, <3>2, <3>3, <3>4, <3>5
  <2>5. PICK t \in TrapMsgs : Suits(t)
    BY <2>4
  <2>6. \A j \in Indices : j # i => rows'[j] = rows[j]
    BY <2>1 DEF SetActive, SetNotInService, Destroy, CreateAndGo,
       CreateAndWait, SetColumns, SetRow
  <2>7. Wanted' = AfterTrap(Wanted, t)
    <3>1. Wanted \in Plans /\ Wanted' \in Plans
      BY <2>1, <2>2 DEF Wanted, Plans
    <3>2. \A j \in Indices : j # i => Wanted'[j] = Wanted[j]
      BY <2>6 DEF Wanted
    <3>3. t.oper \in {"ADD", "MODIFY", "DELETE"}
      BY DEF TrapMsgs
    <3>4. /\ AfterTrap(Wanted, t) \in Plans
          /\ \A j \in Indices : AfterTrap(Wanted, t)[j] = Wanted'[j]
      <4>1. t.job \in Jobs \cup {NULL}
        BY DEF TrapMsgs
      <4>2. AfterTrap(Wanted, t) \in Plans
        BY <3>1, <4>1 DEF AfterTrap, Plans
      <4>3. ASSUME NEW j \in Indices
            PROVE  AfterTrap(Wanted, t)[j] = Wanted'[j]
        BY <2>5, <3>1, <3>2, <3>3 DEF AfterTrap, Plans
      <4> QED
        BY <4>2, <4>3
    <3> QED
      BY <3>1, <3>4 DEF Plans
  <2> QED
    BY <1>1, <1>4, <2>1, <2>5, <2>7, PlanGrows DEF TidyInv, daemonVars
<1> QED
  BY <1>1, <1>2, <1>3, <1>4 DEF TidyInv, daemonVars

\* A SET either tells the daemon or leaves what the table asks for.
LEMMA ManagerTidy ==
    ASSUME JobInv, JobInv', TidyInv, Manager, ~disturbed'
    PROVE  TidyInv'
  BY SilentTidy, AnnouncedTidy DEF Manager

\* JS_AddJobToSched, for a row without a task.
LEMMA AddTidy ==
    ASSUME JobInv, ListInv, op = NULL, NEW i \in Indices, NEW job \in Jobs,
           AddAccepted(i, job), TasksOf(i) = {}
    PROVE  /\ ListInv'
           /\ Follows(i, job)'
           /\ \A j \in Indices : j # i => TasksOf(j)' = TasksOf(j)
           /\ \A j \in Indices, w \in Jobs \cup {NULL} :
                  j # i => (Follows(j, w)' <=> Follows(j, w))
           /\ \A x \in Ids : task'[x] = LogTask <=> task[x] = LogTask
<1>1. PICK id \in FreeIds, a \in FreeArgs :
        /\ task' = [task EXCEPT ![id] = [vpArg |-> a, job |-> job]]
        /\ heap' = [heap EXCEPT ![a] = [index |-> i, job |-> job]]
        /\ stListPtr' = AddNode(stListPtr, i, id)
  BY DEF AddAccepted
<1>2. a \in Args /\ \A x \in JobTasks : task[x].vpArg # a
  BY DEF FreeArgs, JobTasks
<1>3. heap'[a].index = i /\ \A b \in Args : b # a => heap'[b] = heap[b]
  BY <1>1, <1>2 DEF JobInv, TypeOK
<1>4. /\ id \in Ids
      /\ TasksOf(i)' = TasksOf(i) \cup {id}
      /\ \A j \in Indices : j # i => TasksOf(j)' = TasksOf(j)
      /\ \A j \in Indices, w \in Jobs \cup {NULL} :
             j # i => (Follows(j, w)' <=> Follows(j, w))
      /\ TasksOf(i) = {} => Follows(i, job)'
      /\ \A x \in Ids : task'[x] = LogTask <=> task[x] = LogTask
  <2>1. MakesTask(i, job, id, a)
    BY <1>1, <1>2, <1>3 DEF MakesTask
  <2> QED
    BY <1>2, <2>1, TaskMade
<1>5. PICK L \in Seq(Entry) : L = stListPtr
  BY DEF JobInv, TypeOK, Entry
<1>6. ASSUME NEW k \in 1 .. Len(L)
      PROVE  L[k].index # i /\ L[k].id \in TasksOf(L[k].index)'
  <2>1. L[k].id \in TasksOf(L[k].index)
    BY <1>5 DEF ListInv
  <2>2. L[k] \in Entry
    OBVIOUS
  <2>3. L[k].index \in Indices
    BY <2>2 DEF Entry
  <2>4. L[k].index # i
    BY <2>1
  <2> QED
    BY <1>4, <2>1, <2>3, <2>4
<1>7. \A k, m \in 1 .. Len(L) : L[k].index = L[m].index => k = m
  BY <1>5 DEF ListInv
<1>8. ListInv'
  <2>1. id \in TasksOf(i)'
    BY <1>4
  <2>2. stListPtr' = AddNode(L, i, id)
    BY <1>1, <1>5
  <2> QED
    BY <1>4, <1>6, <1>7, <2>1, <2>2, ListGrows, Zenon
<1> QED
  BY <1>4, <1>8

\* The log task is left alone.
LEMMA LogKept ==
    ASSUME LogInv, UNCHANGED <<logging, lTaskId>>,
           \A x \in Ids : task'[x] = LogTask <=> task[x] = LogTask
    PROVE  LogInv'
  BY DEF LogInv

\* The daemon starts with the log task, if any, and nothing else.
LEMMA StartTidy ==
    ASSUME JobInv, StartInv, Start
    PROVE  TidyInv'
<1>1. ScheduleLog
  BY DEF Start
<1>2. /\ phase = "down" /\ phase' = "fetch" /\ op = NULL /\ op' = NULL
      /\ stListPtr' = << >> /\ ~logging /\ logging' = logging
  BY DEF Start, StartInv, JobInv, OpInv
<1>3. LogInv'
  <2>1. \A x \in Ids : task[x] = NULL
    BY <1>2 DEF StartInv
  <2>2. CASE lTaskId' = NULL /\ task' = task
    BY <2>1, <2>2, JobSchedAssumption DEF LogInv
  <2>3. ASSUME NEW id \in FreeIds, lTaskId' = id,
               task' = [task EXCEPT ![id] = LogTask]
        PROVE  LogInv'
    <3>1. \A x \in Ids : task'[x] = IF x = id THEN LogTask ELSE NULL
      BY <2>1, <2>3 DEF JobInv, TypeOK
    <3> QED
      BY <1>2, <2>3, <3>1, JobSchedAssumption DEF LogInv
  <2> QED
    BY <1>1, <2>2, <2>3 DEF ScheduleLog
<1>4. ListInv' /\ OpTidy'
  BY <1>2 DEF ListInv, OpTidy
<1> QED
  BY <1>2, <1>3, <1>4 DEF TidyInv

\* The rows of the answer have no task yet.
LEMMA FetchTidy ==
    ASSUME JobInv, StartInv, TidyInv, FetchRows
    PROVE  TidyInv'
<1>1. /\ phase = "fetch" /\ phase' = "add" /\ fetched' = rows
      /\ UNCHANGED <<rows, stListPtr, task, heap, op, lTaskId, logging>>
  BY DEF FetchRows
<1>2. \A i \in Indices : TasksOf(i)' = {}
  BY <1>1 DEF StartInv, TasksOf, JobTasks
<1>3. FetchedInv'
  <2>1. ASSUME NEW i \in Indices, rows[i] = NULL PROVE Wanted'[i] = NULL
    BY <1>1, <2>1 DEF Wanted
  <2>2. \A i \in Indices : Asks(fetched'[i]) = Wanted'[i]
    BY <1>1 DEF Wanted, Asks
  <2> QED
    BY <1>1, <1>2, <2>1, <2>2 DEF FetchedInv, Follows
<1>4. ListInv' /\ OpTidy' /\ LogInv'
  BY <1>1 DEF TidyInv, ListInv, OpTidy, LogInv, TasksOf, JobTasks
<1> QED
  BY <1>1, <1>3, <1>4 DEF TidyInv

\* The next row gets its task, or none.
LEMMA AddFetchedTidy ==
    ASSUME JobInv, TidyInv, NEW i \in Indices, AddFetched(i), ~disturbed'
    PROVE  TidyInv'
<1>1. /\ phase = "add" /\ phase' = "add" /\ op = NULL /\ op' = NULL
      /\ fetched[i] # NULL
      /\ fetched' = [fetched EXCEPT ![i] = NULL]
      /\ UNCHANGED <<rows, traps, lTaskId, logging>>
  BY DEF AddFetched, FirstFetched, JobInv, OpInv
<1>2. /\ ListInv /\ LogInv /\ FetchedInv
      /\ Asks(fetched[i]) = Wanted[i] /\ TasksOf(i) = {} /\ fetched[i] \in Rows
  BY <1>1 DEF TidyInv, FetchedInv, JobInv, TypeOK
<1>3. \A j \in Indices : fetched'[j] = IF j = i THEN NULL ELSE fetched[j]
  BY <1>1 DEF JobInv, TypeOK
<1>4. /\ Wanted' = Wanted /\ Wanted \in Plans
      /\ Wanted[i] = IF fetched[i].active THEN fetched[i].job ELSE NULL
  <2>1. \A r \in Rows : r # NULL /\ r.job \in Jobs
    BY JobSchedAssumption DEF Rows
  <2>2. Wanted' = Wanted /\ Wanted \in Plans
    BY <1>1, <2>1 DEF Wanted, Plans, JobInv, TypeOK
  <2> QED
    BY <1>2, <2>1, <2>2 DEF Asks
<1>5. /\ ListInv' /\ LogInv' /\ Follows(i, Wanted[i])'
      /\ \A j \in Indices : j # i => TasksOf(j)' = TasksOf(j)
      /\ \A j \in Indices, w \in Jobs \cup {NULL} :
             j # i => (Follows(j, w)' <=> Follows(j, w))
  <2>1. CASE fetched[i].active
    <3>1. JS_AddJobToSched(i, fetched[i].job)
      BY <1>2, <2>1 DEF AddFetched
    <3>2. PICK job \in Jobs : job = fetched[i].job
      BY <1>2 DEF Rows
    <3>3. AddAccepted(i, job)
      BY <3>1, <3>2 DEF JS_AddJobToSched, AddRefused
    <3>4. /\ ListInv'
          /\ Follows(i, job)'
          /\ \A j \in Indices : j # i => TasksOf(j)' = TasksOf(j)
          /\ \A j \in Indices, w \in Jobs \cup {NULL} :
                 j # i => (Follows(j, w)' <=> Follows(j, w))
          /\ \A x \in Ids : task'[x] = LogTask <=> task[x] = LogTask
      BY <1>1, <1>2, <3>3, AddTidy, Zenon
    <3>5. LogInv'
      BY <1>1, <1>2, <3>4, LogKept
    <3>6. PICK w : w = Wanted[i]
      OBVIOUS
    <3>7. Follows(i, w)'
      BY <1>4, <2>1, <3>2, <3>4, <3>6
    <3> QED
      BY <1>4, <3>4, <3>5, <3>6, <3>7
  <2>2. CASE ~fetched[i].active
    <3>1. UNCHANGED <<task, heap, stListPtr>>
      BY <1>2, <2>2 DEF AddFetched
    <3>2. \A j \in Indices : TasksOf(j)' = TasksOf(j)
      BY <3>1 DEF TasksOf, JobTasks
    <3>3. \A j \in Indices, w \in Jobs \cup {NULL} :
              Follows(j, w)' <=> Follows(j, w)
      BY <3>1, <3>2 DEF Follows
    <3>4. ListInv' /\ LogInv'
      BY <1>1, <1>2, <3>1 DEF ListInv, LogInv, TasksOf, JobTasks
    <3>5. Wanted[i] = NULL
      BY <1>4, <2>2
    <3>6. PICK w : w = Wanted[i]
      OBVIOUS
    <3>7. Follows(i, w)'
      BY <1>2, <3>2, <3>5, <3>6 DEF Follows
    <3> QED
      BY <1>4, <3>2, <3>3, <3>4, <3>6, <3>7
  <2> QED
    BY <2>1, <2>2
<1>6. FetchedInv'
  <2>1. ASSUME NEW j \in Indices, j # i
        PROVE  IF fetched'[j] # NULL
               THEN Asks(fetched'[j]) = Wanted'[j] /\ TasksOf(j)' = {}
               ELSE Follows(j, Wanted[j])'
    <3>1. fetched'[j] = fetched[j]
      BY <1>3, <2>1
    <3>2. PICK w \in Jobs \cup {NULL} : w = Wanted[j]
      BY <1>4 DEF Plans
    <3>3. Wanted'[j] = w /\ (Follows(j, w)' <=> Follows(j, w))
      BY <1>4, <1>5, <2>1, <3>2
    <3> QED
      BY <1>2, <1>4, <1>5, <2>1, <3>1, <3>2, <3>3 DEF FetchedInv
  <2>2. fetched'[i] = NULL
    BY <1>3
  <2> QED
    BY <1>4, <1>5, <2>1, <2>2 DEF FetchedInv
<1>7. OpTidy'
  BY <1>1 DEF OpTidy
<1> QED
  BY <1>1, <1>5, <1>6, <1>7 DEF TidyInv

\* JS_InitCBuffer: all rows have been added and no trap has come.
LEMMA InitCBufferTidy ==
    ASSUME JobInv, StartInv, TidyInv, InitCBuffer
    PROVE  TidyInv'
<1>1. /\ phase = "add" /\ phase' = "run" /\ fetched = NoRows
      /\ traps = << >> /\ traps' = << >> /\ op = NULL /\ op' = NULL
      /\ UNCHANGED <<rows, stListPtr, task, heap, op, lTaskId, logging>>
  BY DEF InitCBuffer, StartInv, JobInv, OpInv
<1>2. ListInv' /\ OpTidy' /\ LogInv'
  BY <1>1 DEF TidyInv, ListInv, OpTidy, LogInv, TasksOf, JobTasks
<1>3. PICK W \in Plans : W = Wanted
  <2>1. \A r \in Rows : r.job \in Jobs
    BY DEF Rows
  <2> QED
    BY <2>1 DEF Wanted, Plans, JobInv, TypeOK
<1>4. \A i \in Indices : Follows(i, W[i])
  BY <1>1, <1>3 DEF TidyInv, FetchedInv, NoRows
<1>5. PlanFits(W)'
  <2>1. \A i \in Indices : Follows(i, W[i])'
    BY <1>1, <1>4 DEF Follows, TasksOf, JobTasks
  <2> QED
    BY <1>1, <2>1 DEF PlanFits
<1> DEFINE h == [k \in 1 .. 1 |-> W]
<1>6. h \in [1 .. 1 -> Plans] /\ h[1] = W
  OBVIOUS
<1>7. Len(traps') = 0 /\ 0 + 1 = 1
  BY <1>1
<1>8. W = Wanted'
  BY <1>1, <1>3 DEF Wanted
<1>9. PlanInv'
  <2>1. h[1] = W /\ PlanFits(h[1])'
    BY <1>5
  <2> HIDE DEF h
  <2>2. /\ h \in [1 .. Len(traps') + 1 -> Plans]
        /\ h[Len(traps') + 1] = Wanted'
        /\ \A k \in 1 .. Len(traps') :
               /\ h[k + 1] = AfterTrap(h[k], traps'[k])
               /\ traps'[k].oper = "ADD" => h[k][traps'[k].index] = NULL
    BY <1>6, <1>7, <1>8
  <2> QED
    BY <2>1, <2>2 DEF PlanInv
<1> QED
  BY <1>1, <1>2, <1>9 DEF TidyInv

\* The tasks are those of some plan, which has none for a row to be added.
LEMMA FirstPlan ==
    ASSUME JobInv, PlanInv
    PROVE  \E P \in Plans :
               /\ PlanFits(P)
               /\ traps # << >> /\ Head(traps).oper = "ADD" =>
                      P[Head(traps).index] = NULL
<1>1. PICK h \in [1 .. Len(traps) + 1 -> Plans] :
        /\ PlanFits(h[1])
        /\ \A k \in 1 .. Len(traps) :
               traps[k].oper = "ADD" => h[k][traps[k].index] = NULL
  BY DEF PlanInv
<1>2. Len(traps) \in Nat /\ traps \in Seq(TrapMsgs)
  BY DEF JobInv, TypeOK
<1>3. traps # << >> => 1 \in 1 .. Len(traps) /\ Head(traps) = traps[1]
  BY <1>2
<1>4. h[1] \in Plans
  BY <1>1, <1>2
<1> QED
  BY <1>1, <1>3, <1>4

\* JS_GetTaskID and SCH_GetTask find the task of a row that has one.
LEMMA KnownTask ==
    ASSUME JobInv, ListInv, op = NULL, NEW i \in Indices
    PROVE  /\ Known(i) => GetTaskID(i) \in TasksOf(i)
           /\ ~Known(i) => TasksOf(i) = {}
<1>1. ASSUME Known(i) PROVE GetTaskID(i) \in TasksOf(i)
  BY <1>1, FoundListed DEF Known, ListInv, GetTaskID
<1>2. ASSUME NEW id \in TasksOf(i) PROVE Known(i)
  <2>1. id \in JobTasks /\ heap[task[id].vpArg].index = i /\ task[id] # NULL
    BY DEF TasksOf, JobTasks
  <2>2. PICK k \in 1 .. Len(stListPtr) : stListPtr[k].id = id
    BY <2>1 DEF JobInv, Listed
  <2>3. id \in TasksOf(stListPtr[k].index)
    BY <2>2 DEF ListInv
  <2>4. stListPtr[k].index = i
    BY <2>1, <2>3 DEF TasksOf
  <2>5. k \in Entries(i)
    BY <2>4 DEF Entries
  <2>6. First(i) = k
    BY <2>4, <2>5, FoundListed DEF ListInv
  <2> QED
    BY <2>1, <2>2, <2>5, <2>6 DEF Known, GetTaskID
<1> QED
  BY <1>1, <1>2

\* A trap adds a task to a row that has none.
LEMMA ParseAddTidy ==
    ASSUME JobInv, TidyInv, ParseAdd, ~disturbed'
    PROVE  TidyInv'
<1>1. PICK t \in TrapMsgs :
        /\ t = Head(traps) /\ t.oper = "ADD" /\ t.job \in Jobs
        /\ phase = "run" /\ phase' = "run" /\ op = NULL /\ op' = NULL
        /\ traps # << >> /\ traps' = Tail(traps)
        /\ UNCHANGED <<rows, logging, lTaskId>>
        /\ AddAccepted(t.index, t.job)
  <2>1. NextTrap("ADD")
    BY DEF ParseAdd
  <2>2. /\ Head(traps) \in TrapMsgs /\ Head(traps).job \in Jobs
        /\ Head(traps).oper = "ADD" /\ phase = "run" /\ op = NULL
    BY <2>1, TrapLeaves
  <2>3. AddAccepted(Head(traps).index, Head(traps).job)
    BY DEF ParseAdd, JS_AddJobToSched, AddRefused
  <2> QED
    BY <2>1, <2>2, <2>3 DEF ParseAdd, NextTrap
<1>2. PICK i \in Indices, job \in Jobs : i = t.index /\ job = t.job
  BY <1>1 DEF TrapMsgs
<1>3. ListInv /\ LogInv /\ PlanInv
  BY <1>1 DEF TidyInv
<1>4. TasksOf(i) = {}
  <2>1. PICK P \in Plans : PlanFits(P) /\ P[i] = NULL
    BY <1>1, <1>2, <1>3, FirstPlan
  <2> QED
    BY <1>1, <2>1 DEF PlanFits, Follows
<1>5. /\ ListInv'
      /\ Follows(i, job)'
      /\ \A j \in Indices, w \in Jobs \cup {NULL} :
             j # i => (Follows(j, w)' <=> Follows(j, w))
      /\ \A x \in Ids : task'[x] = LogTask <=> task[x] = LogTask
  BY <1>1, <1>2, <1>3, <1>4, AddTidy
<1>6. LogInv'
  BY <1>1, <1>3, <1>5, LogKept
<1>7. ASSUME NEW P \in Plans, NEW Q \in Plans,
             PlanFits(P), Q = AfterTrap(P, Head(traps))
      PROVE  PlanFits(Q)'
  <2>1. Q = [P EXCEPT ![i] = job]
    BY <1>1, <1>2, <1>7 DEF AfterTrap
  <2>2. ASSUME NEW j \in Indices, j # i PROVE Follows(j, Q[j])'
    <3>1. Q[j] = P[j] /\ P[j] \in Jobs \cup {NULL}
      BY <2>1, <2>2 DEF Plans
    <3>2. Follows(j, P[j])
      BY <1>1, <1>7 DEF PlanFits
    <3> QED
      BY <1>5, <2>2, <3>1, <3>2
  <2>3. Q[i] = job
    BY <2>1 DEF Plans
  <2> QED
    BY <1>1, <1>5, <2>2, <2>3 DEF PlanFits
<1>8. PlanInv'
  BY <1>1, <1>3, <1>7, PlanShrinks
<1>9. OpTidy'
  BY <1>1 DEF OpTidy
<1> QED
  BY <1>1, <1>5, <1>6, <1>8, <1>9 DEF TidyInv

\* What a trap that changes or deletes finds: the row has one task, or none and
\* the plan has none either.
LEMMA TrapFinds ==
    ASSUME JobInv, TidyInv, NEW oper \in {"MODIFY", "DELETE"}, NextTrap(oper)
    PROVE  \E t \in TrapMsgs, i \in Indices :
               /\ t = Head(traps) /\ i = t.index /\ t.oper = oper
               /\ oper = "MODIFY" => t.job \in Jobs
               /\ phase = "run" /\ op = NULL
               /\ traps # << >> /\ traps' = Tail(traps)
               /\ Known(i) => TasksOf(i) = {GetTaskID(i)}
               /\ ~Known(i) => TasksOf(i) = {}
               /\ \A P \in Plans : PlanFits(P) => (Known(i) <=> P[i] # NULL)
<1>1. PICK t \in TrapMsgs, i \in Indices :
        /\ t = Head(traps) /\ i = t.index /\ t.oper = oper
        /\ oper # "DELETE" => t.job \in Jobs
        /\ phase = "run" /\ op = NULL
  BY TrapLeaves DEF TrapMsgs
<1>2. ListInv /\ PlanInv
  BY <1>1 DEF TidyInv
<1>3. /\ Known(i) => GetTaskID(i) \in TasksOf(i)
      /\ ~Known(i) => TasksOf(i) = {}
  BY <1>1, <1>2, KnownTask
<1>4. ASSUME NEW P \in Plans, PlanFits(P)
      PROVE  /\ Known(i) <=> P[i] # NULL
             /\ Known(i) => TasksOf(i) = {GetTaskID(i)}
  <2>1. Follows(i, P[i])
    BY <1>1, <1>4 DEF PlanFits
  <2>2. CASE P[i] = NULL
    BY <1>3, <2>1, <2>2 DEF Follows
  <2>3. CASE P[i] # NULL
    <3>1. PICK id : TasksOf(i) = {id}
      BY <2>1, <2>3 DEF Follows
    <3> QED
      BY <1>3, <2>3, <3>1
  <2> QED
    BY <2>2, <2>3
<1>5. Known(i) => TasksOf(i) = {GetTaskID(i)}
  <2>1. \E P \in Plans : PlanFits(P)
    BY <1>2, FirstPlan
  <2> QED
    BY <1>4, <2>1
<1> QED
  BY <1>1, <1>3, <1>4, <1>5 DEF NextTrap

\* A trap for a row without a task is ignored.
LEMMA ParseUnknownTidy ==
    ASSUME JobInv, TidyInv, NEW oper \in {"MODIFY", "DELETE"},
           ParseUnknown(oper)
    PROVE  TidyInv'
<1>1. PICK t \in TrapMsgs, i \in Indices :
        /\ t = Head(traps) /\ i = t.index /\ t.oper = oper
        /\ phase = "run" /\ op = NULL
        /\ traps # << >> /\ traps' = Tail(traps)
        /\ \A P \in Plans : PlanFits(P) => (Known(i) <=> P[i] # NULL)
  BY TrapFinds DEF ParseUnknown
<1>2. ~Known(i)
  BY <1>1 DEF ParseUnknown
<1>3. UNCHANGED <<rows, phase, stListPtr, task, heap, op, lTaskId, logging>>
  BY DEF ParseUnknown, daemonVars
<1>4. ListInv' /\ OpTidy' /\ LogInv'
  BY <1>3 DEF TidyInv, ListInv, OpTidy, LogInv, TasksOf, JobTasks
<1>5. ASSUME NEW P \in Plans, NEW Q \in Plans,
             PlanFits(P), Q = AfterTrap(P, Head(traps))
      PROVE  PlanFits(Q)'
  <2>1. P[i] = NULL
    BY <1>1, <1>2, <1>5
  <2>2. Q = P
    BY <1>1, <1>5, <2>1 DEF AfterTrap, Plans
  <2>3. PlanFits(P)'
    BY <1>3, <1>5 DEF PlanFits, Follows, TasksOf, JobTasks
  <2> QED
    BY <2>2, <2>3
<1>6. PlanInv
  BY <1>1 DEF TidyInv
<1>7. PlanInv'
  BY <1>1, <1>3, <1>5, <1>6, PlanShrinks
<1> QED
  BY <1>1, <1>3, <1>4, <1>7 DEF TidyInv

\* A trap for a row with a task begins the change or the deletion.
LEMMA ParseKnownTidy ==
    ASSUME JobInv, TidyInv, NEW oper \in {"MODIFY", "DELETE"}, ParseKnown(oper)
    PROVE  TidyInv'
<1>1. PICK t \in TrapMsgs, i \in Indices :
        /\ t = Head(traps) /\ i = t.index /\ t.oper = oper
        /\ phase = "run" /\ op = NULL
        /\ traps # << >> /\ traps' = Tail(traps)
        /\ Known(i) => TasksOf(i) = {GetTaskID(i)}
        /\ \A P \in Plans : PlanFits(P) => (Known(i) <=> P[i] # NULL)
  BY TrapFinds DEF ParseKnown
<1>2. PICK id \in JobTasks :
        /\ id = GetTaskID(i)
        /\ TasksOf(i) = {id}
        /\ op' = [oper |-> oper, index |-> i, job |-> t.job, id |-> id,
                  vpArg |-> task[id].vpArg]
        /\ heap[task[id].vpArg].index = i
        /\ \A P \in Plans : PlanFits(P) => P[i] # NULL
  <2>1. Known(i)
    BY <1>1 DEF ParseKnown
  <2>2. TasksOf(i) = {GetTaskID(i)}
    BY <1>1, <2>1
  <2>3. GetTaskID(i) \in JobTasks /\ heap[task[GetTaskID(i)].vpArg].index = i
    BY <2>2 DEF TasksOf
  <2> QED
    BY <1>1, <2>1, <2>2, <2>3 DEF ParseKnown
<1>3. /\ op' # NULL /\ op'.oper = oper /\ op'.index = i /\ op'.job = t.job
      /\ op'.id = id /\ op'.vpArg = task[id].vpArg
  <2>1. task[id].vpArg \in Args /\ id \in Ids
    BY JobTaskNodes DEF JobInv, JobNodes
  <2>2. op' \in Operations
    BY <1>1, <1>2, <2>1 DEF Operations, TrapMsgs
  <2> QED
    BY <1>2, <2>2, JobSchedAssumption
<1>4. UNCHANGED <<rows, phase, stListPtr, task, heap, lTaskId, logging>>
  BY DEF ParseKnown
<1>5. \A j \in Indices : TasksOf(j)' = TasksOf(j)
  BY <1>4 DEF TasksOf, JobTasks
<1>6. LogInv'
  BY <1>4 DEF TidyInv, LogInv
<1>7. ListInv'
  <2>1. \A k \in 1 .. Len(stListPtr) :
            stListPtr[k].id \in TasksOf(stListPtr[k].index)
    BY <1>1 DEF TidyInv, ListInv
  <2>2. \A j : TasksOf(j)' = TasksOf(j)
    BY <1>4 DEF TasksOf, JobTasks
  <2> QED
    BY <1>4, <2>1, <2>2 DEF TidyInv, ListInv
<1>8. OpTidy'
  <2>1. PICK j \in Indices : j = op'.index /\ j = i
    BY <1>3
  <2>2. TasksOf(j)' = {id}
    BY <1>2, <1>5, <2>1
  <2>3. task[id].vpArg # LOG
    BY JobTaskNodes, JobSchedAssumption DEF JobInv, JobNodes
  <2> QED
    BY <1>2, <1>3, <1>4, <2>1, <2>2, <2>3 DEF OpTidy
<1>9. ASSUME NEW P \in Plans, NEW Q \in Plans,
             PlanFits(P), Q = AfterTrap(P, Head(traps))
      PROVE  PlanFits(Q)'
  <2>1. P[i] # NULL
    BY <1>2, <1>9
  <2>2. Q = [P EXCEPT ![i] = IF oper = "DELETE" THEN NULL ELSE t.job]
    BY <1>1, <1>9, <2>1 DEF AfterTrap
  <2>3. Q[i] = IF oper = "DELETE" THEN NULL ELSE t.job
    BY <2>2 DEF Plans
  <2>4. ASSUME NEW j \in Indices, j # i PROVE Follows(j, Q[j])'
    <3>1. PICK w : w = Q[j]
      OBVIOUS
    <3>2. w = P[j]
      BY <2>2, <2>4, <3>1 DEF Plans
    <3>3. Follows(j, w)
      BY <1>1, <1>9, <3>2 DEF PlanFits
    <3>4. Follows(j, w)'
      BY <1>4, <1>5, <3>3 DEF Follows
    <3> QED
      BY <3>1, <3>4
  <2> QED
    BY <1>3, <2>3, <2>4 DEF PlanFits
<1>10. PlanInv
  BY <1>1 DEF TidyInv
<1>11. PlanInv'
  BY <1>1, <1>4, <1>9, <1>10, PlanShrinks
<1> QED
  BY <1>1, <1>4, <1>6, <1>7, <1>8, <1>11 DEF TidyInv

\* The plans fit again when the operation has done what they have for its row.
LEMMA OperationDone ==
    ASSUME NEW i \in Indices, op # NULL, op.index = i, op' = NULL,
           \A j \in Indices, w \in Jobs \cup {NULL} :
               j # i => (Follows(j, w)' <=> Follows(j, w)),
           NEW job, job = IF op.oper = "DELETE" THEN NULL ELSE op.job,
           Follows(i, job)'
    PROVE  \A P \in Plans : PlanFits(P) => PlanFits(P)'
<1> SUFFICES ASSUME NEW P \in Plans, PlanFits(P) PROVE PlanFits(P)'
  OBVIOUS
<1>1. ASSUME NEW j \in Indices, j # i PROVE Follows(j, P[j])'
  <2>1. PICK w \in Jobs \cup {NULL} : w = P[j]
    BY DEF Plans
  <2>2. Follows(j, w)
    BY <1>1, <2>1 DEF PlanFits
  <2> QED
    BY <1>1, <2>1, <2>2
<1>2. P[i] = job
  BY DEF PlanFits
<1> QED
  BY <1>1, <1>2 DEF PlanFits

\* JS_DeleteFromSched deletes the task, its structure and its entry.
LEMMA DeleteTidy ==
    ASSUME JobInv, TidyInv, DeleteTask
    PROVE  TidyInv'
<1>1. PICK i \in Indices, id \in Ids, a \in Args :
        /\ i = op.index /\ id = op.id /\ a = op.vpArg
        /\ op # NULL /\ op.oper = "DELETE" /\ phase = "run"
        /\ TasksOf(i) = {id} /\ task[id].vpArg = a
  <2>1. op # NULL /\ op.oper = "DELETE" /\ op \in Operations /\ phase = "run"
    BY DEF DeleteTask, JobInv, TypeOK, OpInv
  <2> QED
    BY <2>1 DEF TidyInv, OpTidy, Operations
<1>2. id \in JobTasks /\ task[id] # NULL
  BY <1>1 DEF TasksOf, JobTasks
<1>3. /\ task' = [task EXCEPT ![id] = NULL]
      /\ heap' = [b \in Args |-> IF b = a THEN NULL ELSE heap[b]]
      /\ stListPtr' = RemoveFirst(stListPtr, [index |-> i, id |-> id])
      /\ op' = NULL
      /\ UNCHANGED <<rows, traps, phase, lTaskId, logging>>
  BY <1>1, <1>2 DEF DeleteTask
<1>4. EndsTask(i, id)
  <2>1. ASSUME NEW x \in JobTasks, x # id
        PROVE  heap'[task[x].vpArg] = heap[task[x].vpArg]
    <3>1. task[x].vpArg # a
      BY <1>1, <1>2, <2>1 DEF JobInv, ArgsInv
    <3>2. task[x].vpArg \in Args
      BY JobTaskNodes DEF JobInv, JobNodes
    <3> QED
      BY <1>3, <3>1, <3>2
  <2> QED
    BY <1>1, <1>3, <2>1 DEF EndsTask
<1>5. /\ TasksOf(i)' = {}
      /\ \A j \in Indices : j # i => TasksOf(j)' = TasksOf(j)
      /\ \A j \in Indices, w \in Jobs \cup {NULL} :
             j # i => (Follows(j, w)' <=> Follows(j, w))
      /\ \A x \in Ids : task'[x] = LogTask <=> task[x] = LogTask
  BY <1>4, TaskGone
<1>6. LogInv'
  BY <1>3, <1>5, LogKept DEF TidyInv
<1>7. ListInv'
  <2>1. PICK s \in Seq(Entry), e \in Entry :
            s = stListPtr /\ e = [index |-> i, id |-> id]
    BY DEF JobInv, TypeOK, Entry
  <2>2. OnePerRow(s) /\ \A k \in 1 .. Len(s) : s[k].id \in TasksOf(s[k].index)
    BY <1>1, <2>1 DEF TidyInv, ListInv, OnePerRow
  <2>3. PICK R \in Seq(Entry) :
            /\ R = RemoveFirst(s, e) /\ OnePerRow(R)
            /\ \A k \in 1 .. Len(R) :
                   R[k] # e /\ \E m \in 1 .. Len(s) : R[k] = s[m]
    BY <2>2, ListShrinks
  <2>4. R = stListPtr'
    BY <1>3, <2>1, <2>3
  <2>5. ASSUME NEW k \in 1 .. Len(R) PROVE R[k].id \in TasksOf(R[k].index)'
    <3>1. R[k] \in Entry /\ R[k] # e /\ R[k].id \in TasksOf(R[k].index)
      BY <2>2, <2>3
    <3>2. /\ R[k] = [index |-> R[k].index, id |-> R[k].id]
          /\ R[k].index \in Indices
      BY <3>1 DEF Entry
    <3>3. R[k].index # i
      BY <1>1, <2>1, <3>1, <3>2
    <3> QED
      BY <1>5, <3>1, <3>2, <3>3
  <2> QED
    BY <2>3, <2>4, <2>5 DEF ListInv, OnePerRow
<1>8. PlanInv'
  <2>1. Follows(i, NULL)'
    BY <1>5 DEF Follows
  <2>2. \A P \in Plans : PlanFits(P) => PlanFits(P)'
    BY <1>1, <1>3, <1>5, <2>1, OperationDone
  <2> QED
    BY <1>1, <1>3, <2>2, PlanStays DEF TidyInv
<1>9. OpTidy'
  BY <1>3 DEF OpTidy
<1> QED
  BY <1>1, <1>3, <1>6, <1>7, <1>8, <1>9 DEF TidyInv

\* The first half of SCH_ModifyTask deletes the task; its entry stays.
LEMMA ModifyDeletesTidy ==
    ASSUME JobInv, TidyInv, ModifyDeletes
    PROVE  TidyInv'
<1>1. PICK i \in Indices, id \in Ids, a \in Args :
        /\ i = op.index /\ id = op.id /\ a = op.vpArg
        /\ op # NULL /\ op.oper = "MODIFY" /\ phase = "run"
        /\ TasksOf(i) = {id} /\ task[id].vpArg = a
        /\ heap[a].index = i /\ heap[a] # NULL
  <2>1. op # NULL /\ op.oper = "MODIFY" /\ op \in Operations /\ phase = "run"
    BY DEF ModifyDeletes, JobInv, TypeOK, OpInv
  <2> QED
    BY <2>1 DEF TidyInv, OpTidy, Operations, JobInv, OpInv
<1>2. id \in JobTasks /\ task[id] # NULL
  BY <1>1 DEF TasksOf, JobTasks
<1>3. /\ task' = [task EXCEPT ![id] = NULL]
      /\ heap' = [heap EXCEPT ![a].job = op.job]
      /\ op' = [op EXCEPT !.oper = "ADD"]
      /\ UNCHANGED <<rows, traps, phase, stListPtr, lTaskId, logging>>
  BY <1>1, <1>2 DEF ModifyDeletes
<1>4. /\ op' # NULL /\ op'.oper = "ADD" /\ op'.index = i /\ op'.id = id
      /\ op'.vpArg = a /\ op'.job = op.job
  <2>1. op \in Operations
    BY <1>1 DEF JobInv, TypeOK
  <2>2. op' \in Operations
    BY <1>3, <2>1 DEF Operations
  <2> QED
    BY <1>1, <1>3, <2>1, <2>2, JobSchedAssumption DEF Operations
<1>5. \A b \in Args : heap[b] # NULL => heap'[b].index = heap[b].index
  <2>1. heap[a] \in JobMasters
    BY <1>1 DEF JobInv, TypeOK
  <2>2. heap'[a].index = heap[a].index
    BY <1>3, <2>1 DEF JobInv, TypeOK, JobMasters
  <2>3. \A b \in Args : b # a => heap'[b] = heap[b]
    BY <1>3 DEF JobInv, TypeOK
  <2> QED
    BY <2>2, <2>3
<1>6. EndsTask(i, id)
  <2>1. ASSUME NEW x \in JobTasks
        PROVE  heap'[task[x].vpArg].index = heap[task[x].vpArg].index
    <3>1. task[x].vpArg \in Args
      BY JobTaskNodes DEF JobInv, JobNodes
    <3>2. heap[task[x].vpArg] # NULL
      BY DEF JobInv, LinkedArgumentsAlive
    <3> QED
      BY <1>5, <3>1, <3>2
  <2> QED
    BY <1>1, <1>3, <2>1 DEF EndsTask
<1>7. /\ TasksOf(i)' = {}
      /\ \A j \in Indices : j # i => TasksOf(j)' = TasksOf(j)
      /\ \A j \in Indices, w \in Jobs \cup {NULL} :
             j # i => (Follows(j, w)' <=> Follows(j, w))
      /\ \A x \in Ids : task'[x] = LogTask <=> task[x] = LogTask
  BY <1>6, TaskGone
<1>8. LogInv'
  BY <1>3, <1>7, LogKept DEF TidyInv
<1>9. ListInv'
  <2>1. PICK s \in Seq(Entry) : s = stListPtr
    BY DEF JobInv, TypeOK, Entry
  <2>2. ASSUME NEW k \in 1 .. Len(s)
        PROVE  \/ s[k].id \in TasksOf(s[k].index)'
               \/ s[k] = [index |-> i, id |-> id]
    <3>1. s[k].id \in TasksOf(s[k].index)
      BY <1>1, <2>1 DEF TidyInv, ListInv
    <3>2. s[k] \in Entry
      OBVIOUS
    <3>3. /\ s[k] = [index |-> s[k].index, id |-> s[k].id]
          /\ s[k].index \in Indices
      BY <3>2 DEF Entry
    <3>4. CASE s[k].index = i
      BY <1>1, <3>1, <3>3, <3>4
    <3>5. CASE s[k].index # i
      BY <1>7, <3>1, <3>3, <3>5
    <3> QED
      BY <3>4, <3>5
  <2>3. s = stListPtr'
    BY <1>3, <2>1
  <2>4. \A k, m \in 1 .. Len(s) : s[k].index = s[m].index => k = m
    BY <2>1 DEF TidyInv, ListInv
  <2> QED
    BY <1>4, <2>2, <2>3, <2>4 DEF ListInv
<1>10. PlanInv'
  <2>1. ASSUME NEW P \in Plans, PlanFits(P) PROVE PlanFits(P)'
    <3>1. ASSUME NEW j \in Indices, j # i PROVE Follows(j, P[j])'
      <4>1. PICK w \in Jobs \cup {NULL} : w = P[j]
        BY DEF Plans
      <4>2. Follows(j, w)
        BY <1>1, <2>1, <3>1, <4>1 DEF PlanFits
      <4> QED
        BY <1>7, <3>1, <4>1, <4>2
    <3>2. P[i] = op.job
      BY <1>1, <2>1 DEF PlanFits
    <3> QED
      BY <1>4, <3>1, <3>2 DEF PlanFits
  <2> QED
    BY <1>1, <1>3, <2>1, PlanStays DEF TidyInv
<1>11. OpTidy'
  <2>1. heap'[a].index = i
    BY <1>1, <1>5
  <2>2. a # LOG
    BY JobSchedAssumption
  <2>3. PICK j \in Indices : j = op'.index /\ j = i
    BY <1>4
  <2>4. TasksOf(j)' = {}
    BY <1>7, <2>3
  <2> QED
    BY <1>4, <2>1, <2>2, <2>3, <2>4 DEF OpTidy
<1> QED
  BY <1>1, <1>3, <1>8, <1>9, <1>10, <1>11 DEF TidyInv

\* The second half adds it again, with the structure it had.
LEMMA ModifyAddsTidy ==
    ASSUME JobInv, TidyInv, ModifyAdds
    PROVE  TidyInv'
<1>1. PICK i \in Indices, job \in Jobs, a \in Args :
        /\ i = op.index /\ job = op.job /\ a = op.vpArg
        /\ op # NULL /\ op.oper = "ADD" /\ phase = "run"
        /\ TasksOf(i) = {} /\ heap[a].index = i
        /\ \A x \in JobTasks : task[x].vpArg # a
  <2>1. op # NULL /\ op.oper = "ADD" /\ op \in Operations /\ phase = "run"
    BY DEF ModifyAdds, JobInv, TypeOK, OpInv
  <2>2. op.job \in Jobs /\ op.vpArg \in Args /\ op.index \in Indices
    BY <2>1 DEF JobInv, OpInv, TidyInv, OpTidy, Operations
  <2>3. \A x \in JobTasks : task[x].vpArg # op.vpArg
    BY <2>1, <2>2, JobSchedAssumption DEF JobInv, OpInv
  <2> QED
    BY <2>1, <2>2, <2>3 DEF TidyInv, OpTidy
<1>2. PICK id \in FreeIds :
        /\ task' = [task EXCEPT ![id] = [vpArg |-> a, job |-> job]]
        /\ stListPtr' = AddNode(RemoveFirst(stListPtr,
                                    [index |-> i, id |-> op.id]), i, id)
  BY <1>1 DEF ModifyAdds
<1>3. op' = NULL /\ UNCHANGED <<rows, traps, phase, heap, lTaskId, logging>>
  BY DEF ModifyAdds
<1>4. MakesTask(i, job, id, a)
  BY <1>1, <1>2, <1>3 DEF MakesTask
<1>5. /\ id \in Ids
      /\ TasksOf(i)' = TasksOf(i) \cup {id}
      /\ \A j \in Indices : j # i => TasksOf(j)' = TasksOf(j)
      /\ \A j \in Indices, w \in Jobs \cup {NULL} :
             j # i => (Follows(j, w)' <=> Follows(j, w))
      /\ Follows(i, job)'
      /\ \A x \in Ids : task'[x] = LogTask <=> task[x] = LogTask
  BY <1>1, <1>4, TaskMade
<1>6. LogInv'
  BY <1>3, <1>5, LogKept DEF TidyInv
<1>7. ListInv'
  <2>1. PICK s \in Seq(Entry), e \in Entry :
            s = stListPtr /\ e = [index |-> i, id |-> op.id]
    <3>1. op.id \in Ids
      BY <1>1 DEF JobInv, TypeOK, Operations
    <3> QED
      BY <3>1 DEF JobInv, TypeOK, Entry
  <2>2. \A k \in 1 .. Len(s) : s[k] # e => s[k].id \in TasksOf(s[k].index)
    BY <1>1, <2>1 DEF TidyInv, ListInv
  <2>3. OnePerRow(s)
    BY <2>1 DEF TidyInv, ListInv, OnePerRow
  <2>4. PICK R \in Seq(Entry) :
            /\ R = RemoveFirst(s, e) /\ OnePerRow(R)
            /\ \A k \in 1 .. Len(R) :
                   R[k] # e /\ \E m \in 1 .. Len(s) : R[k] = s[m]
    BY <2>3, ListShrinks
  <2>5. ASSUME NEW k \in 1 .. Len(R)
        PROVE  R[k].index # i /\ R[k].id \in TasksOf(R[k].index)'
    <3>1. R[k] \in Entry /\ R[k].id \in TasksOf(R[k].index)
      BY <2>2, <2>4
    <3>2. R[k].index \in Indices
      BY <3>1 DEF Entry
    <3>3. R[k].index # i
      BY <1>1, <3>1
    <3> QED
      BY <1>5, <3>1, <3>2, <3>3
  <2>6. stListPtr' = AddNode(R, i, id) /\ id \in TasksOf(i)'
    BY <1>2, <1>5, <2>1, <2>4
  <2> QED
    BY <1>5, <2>4, <2>5, <2>6, ListGrows DEF OnePerRow
<1>8. PlanInv'
  <2>1. \A P \in Plans : PlanFits(P) => PlanFits(P)'
    BY <1>1, <1>3, <1>5, OperationDone
  <2> QED
    BY <1>1, <1>3, <2>1, PlanStays DEF TidyInv
<1>9. OpTidy'
  BY <1>3 DEF OpTidy
<1> QED
  BY <1>1, <1>3, <1>6, <1>7, <1>8, <1>9 DEF TidyInv

\* JS_ScheduleLogInfo deletes and adds no task but its own.
LEMMA LogTidy ==
    ASSUME JobInv, TidyInv, LogDeletes \/ LogAdds, ~disturbed'
    PROVE  TidyInv'
<1>1. UNCHANGED <<rows, traps, phase, fetched, stListPtr, heap, op>>
  BY DEF LogDeletes, LogAdds
<1>2. LogTask # NULL /\ LogInv
  BY JobSchedAssumption DEF TidyInv
<1>3. LogInv' /\ \A x \in Ids : \/ task'[x] = task[x]
                                \/ {task[x], task'[x]} \subseteq {LogTask, NULL}
  <2>1. CASE LogDeletes
    <3>1. /\ task' = [id \in Ids |-> IF id = lTaskId THEN NULL ELSE task[id]]
          /\ ~logging /\ logging' /\ lTaskId' = lTaskId
      BY <2>1 DEF LogDeletes
    <3>2. \A x \in Ids : task[x] = LogTask <=> x = lTaskId
      BY <1>2, <3>1 DEF LogInv
    <3>3. \A x \in Ids : task'[x] # LogTask
      BY <1>2, <3>1, <3>2
    <3> QED
      BY <3>1, <3>2, <3>3 DEF LogInv
  <2>2. CASE LogAdds
    <3>1. ScheduleLog /\ logging /\ ~logging'
      BY <2>2 DEF LogAdds
    <3>2. \A x \in Ids : task[x] # LogTask
      BY <1>2, <3>1 DEF LogInv
    <3>3. CASE lTaskId' = NULL /\ task' = task
      BY <3>2, <3>3, JobSchedAssumption DEF LogInv
    <3>4. ASSUME NEW id \in FreeIds, lTaskId' = id,
                 task' = [task EXCEPT ![id] = LogTask]
          PROVE  LogInv' /\ \A x \in Ids :
                     \/ task'[x] = task[x]
                     \/ {task[x], task'[x]} \subseteq {LogTask, NULL}
      <4>1. \A x \in Ids : task'[x] = IF x = id THEN LogTask ELSE task[x]
        BY <3>4 DEF JobInv, TypeOK
      <4> QED
        BY <3>1, <3>2, <3>4, <4>1 DEF LogInv, FreeIds
    <3> QED
      BY <3>1, <3>3, <3>4 DEF ScheduleLog
  <2> QED
    BY <2>1, <2>2
<1>4. JobTasks' = JobTasks /\ \A x \in JobTasks : task'[x] = task[x]
  BY <1>2, <1>3 DEF JobTasks
<1>5. /\ \A i \in Indices : TasksOf(i)' = TasksOf(i)
      /\ \A i \in Indices, job \in Jobs \cup {NULL} :
             Follows(i, job)' <=> Follows(i, job)
  BY <1>1, <1>4, TasksKept
<1>6. ListInv'
  <2>1. PICK s \in Seq(Entry) : s = stListPtr /\ s = stListPtr'
    BY <1>1 DEF JobInv, TypeOK, Entry
  <2>2. \A k \in 1 .. Len(s) : s[k].index \in Indices
    <3>1. \A k \in 1 .. Len(s) : s[k] \in Entry
      OBVIOUS
    <3> QED
      BY <3>1 DEF Entry
  <2>3. \A k \in 1 .. Len(s) : TasksOf(s[k].index)' = TasksOf(s[k].index)
    BY <1>5, <2>2
  <2> QED
    BY <1>1, <2>1, <2>3 DEF TidyInv, ListInv
<1>7. OpTidy'
  <2>1. CASE op = NULL
    BY <1>1, <2>1 DEF OpTidy
  <2>2. CASE op # NULL
    <3>1. PICK i \in Indices : i = op.index /\ i = op'.index
      BY <1>1, <2>2 DEF JobInv, TypeOK, Operations
    <3>2. TasksOf(i)' = TasksOf(i)
      BY <1>5
    <3>3. op.oper # "ADD" => op.id \in JobTasks
      BY <2>2 DEF TidyInv, OpTidy, TasksOf
    <3> QED
      BY <1>1, <1>4, <2>2, <3>1, <3>2, <3>3 DEF TidyInv, OpTidy
  <2> QED
    BY <2>1, <2>2
<1>8. PICK W \in Plans : W = Wanted /\ W = Wanted'
  <2>1. \A r \in Rows : r.job \in Jobs
    BY DEF Rows
  <2> QED
    BY <1>1, <2>1 DEF Wanted, Plans, JobInv, TypeOK
<1>9. phase' = "add" => FetchedInv'
  <2>1. \A i \in Indices : Follows(i, W[i])' <=> Follows(i, W[i])
    BY <1>5 DEF Plans
  <2> QED
    BY <1>1, <1>5, <1>8, <2>1 DEF TidyInv, FetchedInv
<1>10. phase' = "run" => PlanInv'
  <2>1. ASSUME NEW P \in Plans, PlanFits(P) PROVE PlanFits(P)'
    <3>1. \A i \in Indices : Follows(i, P[i])' <=> Follows(i, P[i])
      BY <1>5 DEF Plans
    <3> QED
      BY <1>1, <2>1, <3>1 DEF PlanFits
  <2> QED
    BY <1>1, <2>1, PlanStays DEF TidyInv
<1> QED
  BY <1>3, <1>6, <1>7, <1>9, <1>10 DEF TidyInv

\* The invariant of the schedule.
LEMMA ScheduleStep == ScheduleInv /\ [Next]_vars => ScheduleInv'
<1> SUFFICES ASSUME ScheduleInv, [Next]_vars PROVE ScheduleInv'
  OBVIOUS
<1>1. JobInv /\ JobInv' /\ StartInv /\ StartInv'
  BY JobStep, StartStep DEF ScheduleInv
<1> SUFFICES ASSUME ~disturbed', phase' # "down" PROVE TidyInv'
  BY <1>1 DEF ScheduleInv
<1>2. CASE Start
  BY <1>1, <1>2, StartTidy
<1>3. CASE UNCHANGED vars
  <2>1. TidyInv
    BY <1>3 DEF ScheduleInv, vars, daemonVars
  <2>2. /\ rows' = rows /\ traps' = traps /\ phase' = phase
        /\ fetched' = fetched /\ stListPtr' = stListPtr /\ task' = task
        /\ heap' = heap /\ op' = op /\ lTaskId' = lTaskId
        /\ (logging' <=> logging)
    BY <1>3 DEF vars, daemonVars
  <2>3. /\ JobTasks' = JobTasks /\ \A i : TasksOf(i)' = TasksOf(i)
        /\ Wanted' = Wanted
    BY <2>2 DEF JobTasks, TasksOf, Wanted
  <2>4. \A i, job : Follows(i, job)' <=> Follows(i, job)
    BY <2>2, <2>3 DEF Follows
  <2>5. ListInv' /\ OpTidy' /\ LogInv'
    BY <2>1, <2>2, <2>3 DEF TidyInv, ListInv, OpTidy, LogInv
  <2>6. phase' = "add" => FetchedInv'
    BY <2>1, <2>2, <2>3, <2>4 DEF TidyInv, FetchedInv
  <2>7. phase' = "run" => PlanInv'
    <3>1. \A P \in Plans : PlanFits(P) => PlanFits(P)'
      BY <2>2, <2>4 DEF PlanFits
    <3> QED
      BY <1>1, <2>1, <2>2, <3>1, PlanStays DEF TidyInv
  <2> QED
    BY <2>5, <2>6, <2>7 DEF TidyInv
<1>4. CASE Exit
  BY <1>4 DEF Exit
<1>5. CASE Next /\ ~Start /\ ~Exit
  <2>1. ~disturbed /\ phase # "down"
    <3>1. ASSUME Manager PROVE disturbed => disturbed'
      BY <3>1 DEF Manager, SetActive, SetNotInService, Destroy, CreateAndGo,
         SetSilently, CreateAndWait, SetColumns, SendTrap
    <3>2. ASSUME Manager PROVE phase' = phase
      BY <3>2 DEF Manager, SetActive, SetNotInService, Destroy, CreateAndGo,
         SetSilently, CreateAndWait, SetColumns, SetRow, daemonVars
    <3>3. ASSUME Next, ~Manager, ~Start, ~Exit
          PROVE  (disturbed => disturbed') /\ phase # "down"
      <4>1. CASE FetchRows \/ FetchFails \/ InitCBuffer
        BY <4>1 DEF FetchRows, FetchFails, InitCBuffer
      <4>2. CASE \E i \in Indices : AddFetched(i)
        BY <4>2 DEF AddFetched, JS_AddJobToSched, AddAccepted, AddRefused
      <4>3. CASE ProcessTrapMsg
        BY <1>1, <4>3 DEF ProcessTrapMsg, ParseAdd, ParseUnknown, ParseKnown,
           NextTrap, DeleteTask, ModifyDeletes, ModifyAdds, ModifyFails,
           JS_AddJobToSched, AddAccepted, AddRefused, JobInv, OpInv
      <4>4. CASE LogDeletes \/ LogAdds \/ \E id \in Ids : AutoClean(id)
        <5>1. LogTask # NULL
          BY JobSchedAssumption
        <5> QED
          BY <1>1, <4>4, <5>1 DEF LogDeletes, LogAdds, AutoClean, StartInv
      <4> QED
        BY <3>3, <4>1, <4>2, <4>3, <4>4 DEF Next
    <3> QED
      BY <1>5, <3>1, <3>2, <3>3
  <2>2. TidyInv
    BY <2>1 DEF ScheduleInv
  <2>3. CASE Manager
    BY <1>1, <2>2, <2>3, ManagerTidy
  <2>4. CASE FetchRows
    BY <1>1, <2>2, <2>4, FetchTidy
  <2>5. CASE InitCBuffer
    BY <1>1, <2>2, <2>5, InitCBufferTidy
  <2>6. CASE \E i \in Indices : AddFetched(i)
    BY <1>1, <2>2, <2>6, AddFetchedTidy
  <2>7. CASE ProcessTrapMsg
    BY <1>1, <2>2, <2>7, ParseAddTidy, ParseUnknownTidy, ParseKnownTidy,
       DeleteTidy, ModifyDeletesTidy, ModifyAddsTidy
       DEF ProcessTrapMsg, ModifyFails
  <2>8. CASE LogDeletes \/ LogAdds
    BY <1>1, <2>2, <2>8, LogTidy
  <2>9. CASE FetchFails \/ \E id \in Ids : AutoClean(id)
    BY <2>9 DEF FetchFails, AutoClean
  <2> QED
    BY <1>5, <2>3, <2>4, <2>5, <2>6, <2>7, <2>8, <2>9 DEF Next
<1> QED
  BY <1>2, <1>3, <1>4, <1>5

\* The invariant holds in every state.
THEOREM ScheduleInvariant == Spec => []ScheduleInv
<1>1. Init => ScheduleInv
  <2> SUFFICES ASSUME Init PROVE ScheduleInv
    OBVIOUS
  <2>1. JobInv
    BY InitJobInv
  <2>2. StartInv
    BY DEF Init, StartInv, JobTasks
  <2> QED
    BY <2>1, <2>2 DEF Init, ScheduleInv
<1> QED
  BY <1>1, ScheduleStep, PTL DEF Spec

\* The id of every task of a job stays in the list, whatever the other threads
\* do between the two halves of a change; and while nothing was lost, refused or
\* cleaned, and no SET without a trap changed what the table asks for, the
\* first entry for the row of a task, which JS_GetTaskID takes, is its own.
THEOREM TasksListed == Spec => []EveryTaskListed
<1>1. ScheduleInv => EveryTaskListed
  <2> SUFFICES ASSUME ScheduleInv PROVE EveryTaskListed
    OBVIOUS
  <2>1. JobInv /\ Listed
    BY DEF ScheduleInv, JobInv
  <2>2. ASSUME ~disturbed, NEW id \in JobTasks
        PROVE  GetTaskID(heap[task[id].vpArg].index) = id
    <3>1. phase # "down"
      BY DEF ScheduleInv, StartInv
    <3>2. ListInv
      BY <2>2, <3>1 DEF ScheduleInv, TidyInv
    <3>3. PICK k \in 1 .. Len(stListPtr) : stListPtr[k].id = id
      BY <2>1 DEF Listed
    <3>4. PICK i \in Indices : i = stListPtr[k].index
      <4>1. stListPtr \in Seq(Entry)
        BY <2>1 DEF JobInv, TypeOK, Entry
      <4>2. stListPtr[k] \in Entry
        BY <4>1
      <4> QED
        BY <4>2 DEF Entry
    <3>5. heap[task[id].vpArg].index = i
      <4>1. op # NULL /\ op.oper = "ADD" => op.id # id
        BY <2>1 DEF JobInv, OpInv
      <4> QED
        BY <3>2, <3>3, <3>4, <4>1 DEF ListInv, TasksOf
    <3>6. k \in Entries(i)
      BY <3>4 DEF Entries
    <3>7. First(i) = k
      BY <2>1, <3>2, <3>4, <3>6, FoundListed DEF ListInv
    <3> QED
      BY <3>3, <3>5, <3>7 DEF GetTaskID
  <2> QED
    BY <2>1, <2>2 DEF EveryTaskListed
<1> QED
  BY <1>1, ScheduleInvariant, PTL

\* When all traps are handled and nothing was lost or refused, every active row
\* has exactly one task, with the job the table has for it, no other row has
\* one, and if there is a log task it is the one JS_ScheduleLogInfo knows.
THEOREM ScheduleFollows == Spec => []ScheduleFollowsTable
<1>1. ScheduleInv => ScheduleFollowsTable
  <2> SUFFICES ASSUME ScheduleInv, Quiet, ~disturbed
               PROVE  /\ \A i \in Indices :
                             IF rows[i] # NULL /\ rows[i].active
                             THEN \E id \in Ids : /\ TasksOf(i) = {id}
                                                  /\ task[id].job = rows[i].job
                             ELSE TasksOf(i) = {}
                      /\ ~logging => {id \in Ids : task[id] = LogTask}
                                         = {lTaskId} \ {NULL}
    BY DEF ScheduleFollowsTable
  <2>1. JobInv /\ TidyInv /\ PlanInv /\ traps = << >> /\ op = NULL
    BY DEF ScheduleInv, Quiet, TidyInv
  <2>2. PlanFits(Wanted)
    <3>1. Len(traps) = 0 /\ 0 + 1 = 1
      BY <2>1
    <3> QED
      BY <2>1, <3>1 DEF PlanInv
  <2>3. ASSUME NEW i \in Indices
        PROVE  IF rows[i] # NULL /\ rows[i].active
               THEN \E id \in Ids : /\ TasksOf(i) = {id}
                                    /\ task[id].job = rows[i].job
               ELSE TasksOf(i) = {}
    <3>1. Follows(i, Wanted[i])
      BY <2>1, <2>2 DEF PlanFits
    <3>2. CASE rows[i] # NULL /\ rows[i].active
      <4>1. rows[i] \in Rows
        BY <2>1, <3>2 DEF JobInv, TypeOK
      <4>2. rows[i].job # NULL /\ Wanted[i] = rows[i].job
        BY <3>2, <4>1, JobSchedAssumption DEF Wanted, Rows
      <4> QED
        BY <3>1, <3>2, <4>2 DEF Follows
    <3>3. CASE ~(rows[i] # NULL /\ rows[i].active)
      <4>1. Wanted[i] = NULL
        BY <3>3 DEF Wanted
      <4> QED
        BY <3>1, <3>3, <4>1 DEF Follows
    <3> QED
      BY <3>2, <3>3
  <2>4. ~logging => {id \in Ids : task[id] = LogTask} = {lTaskId} \ {NULL}
    BY <2>1, JobSchedAssumption DEF TidyInv, LogInv, JobInv, TypeOK
  <2> QED
    BY <2>3, <2>4
<1> QED
  BY <1>1, ScheduleInvariant, PTL
=============================================================================
