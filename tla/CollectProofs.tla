---------------------------- MODULE CollectProofs ----------------------------
(***************************************************************************)
(* For any rows, days, frequencies and lengths of a list: the alarms of    *)
(* the real time monitor come when the next sample is due, a row that may  *)
(* no longer be sampled is noticed, one in its window is sampled often     *)
(* enough, and the list stays short.                                       *)
(***************************************************************************)
EXTENDS Collect, FiniteSetTheorems, WellFoundedInduction, TLAPS

-----------------------------------------------------------------------------
(* The list.                                                               *)

\* A set of numbers that is not empty has a least one, and Min is it.
LEMMA Least ==
    ASSUME NEW T \in SUBSET Nat, T # {}
    PROVE  Min(T) \in T /\ \A y \in T : Min(T) <= y
<1>1. PICK x \in T : \A y \in T : ~(<<y, x>> \in OpToRel(<, Nat))
  BY NatLessThanWellFounded, WFMin
<1>2. \A y \in T : ~(y < x)
  BY <1>1 DEF OpToRel
<1>3. \A y \in T : x <= y
  BY <1>2
<1> QED
  BY <1>3 DEF Min

\* The nodes of a list: samples in the future, of rows of the table.
Nodes(list) ==
    \A node \in list : node.interval \in Nat /\ node.index \in Indices

\* The first node of a list.
LEMMA FirstNode ==
    ASSUME NEW list, Nodes(list), list # {}
    PROVE  /\ First(list) \in Nat
           /\ \E node \in list : node.interval = First(list)
           /\ \A node \in list : First(list) <= node.interval
<1>1. PICK T : T = {node.interval : node \in list}
  OBVIOUS
<1>2. T \in SUBSET Nat /\ T # {}
  BY <1>1 DEF Nodes
<1>3. First(list) = Min(T)
  BY <1>1 DEF First
<1>4. Min(T) \in T /\ \A y \in T : Min(T) <= y
  BY <1>2, Least
<1>5. \A y \in T : y \in Nat
  BY <1>2
<1> QED
  BY <1>1, <1>3, <1>4, <1>5

\* What a row that gets nodes holds: its plan for the day has begun and repeats.
LEMMA EligiblePlan ==
    ASSUME NEW row \in Contents \cup {NULL}, NEW t \in Nat, Eligible(row, t)
    PROVE  /\ row \in Contents /\ row # NULL /\ row.active
           /\ Plan(row, t).start \in Nat /\ Plan(row, t).freq \in Nat \ {0}
           /\ CTime(t) \in Nat /\ Plan(row, t).start < CTime(t)
<1>1. row \in Contents /\ row # NULL /\ row.active
  BY DEF Eligible
<1>2. row.week \in [0 .. DaysPerWeek - 1 -> Plans]
  BY <1>1, CollectAssumption
<1>3. Today(t) \in 0 .. DaysPerWeek - 1 /\ CTime(t) \in Nat
  <2>1. t \div SecondsPerDay \in Nat /\ t % SecondsPerDay \in Nat
    BY CollectAssumption
  <2> QED
    BY <2>1, CollectAssumption DEF Today, CTime
<1>4. Plan(row, t) \in Plans
  BY <1>2, <1>3 DEF Plan
<1>5. Plan(row, t).start \in Nat /\ Plan(row, t).freq \in Nat
  BY <1>4 DEF Plans
<1> QED
  BY <1>1, <1>3, <1>5 DEF Eligible

\* The first sample of a row comes in the future, and before a period is over.
LEMMA DelayType ==
    ASSUME NEW p, NEW t, p.start \in Nat, p.freq \in Nat \ {0},
           CTime(t) \in Nat, p.start < CTime(t)
    PROVE  InitDelay(p, t) \in 1 .. p.freq
<1>1. PICK d \in Nat : d = CTime(t) - p.start
  OBVIOUS
<1>2. d % p.freq \in 0 .. p.freq - 1
  BY <1>1
<1>3. InitDelay(p, t) = IF p.freq - (d % p.freq) = p.freq THEN 1
                        ELSE p.freq - (d % p.freq)
  BY <1>1 DEF InitDelay
<1> QED
  BY <1>2, <1>3

\* Form_Linked_List makes samples in the future, of rows that are active.
LEMMA NewList ==
    ASSUME NEW tbl \in [Indices -> Contents \cup {NULL}], NEW t \in Nat
    PROVE  /\ Nodes(Form_Linked_List(tbl, t))
           /\ \A node \in Form_Linked_List(tbl, t) :
                  /\ node.interval > 0
                  /\ tbl[node.index] # NULL /\ tbl[node.index].active
<1>1. PICK n : n = RTC_Calc_Num_Nodes_Interval(tbl, t)
  OBVIOUS
<1>2. Form_Linked_List(tbl, t) =
        UNION {NodesOf(i, Plan(tbl[i], t), t, n) : i \in EligibleRows(tbl, t)}
  BY <1>1 DEF Form_Linked_List
<1>3. SUFFICES ASSUME NEW i \in EligibleRows(tbl, t),
                      NEW node \in NodesOf(i, Plan(tbl[i], t), t, n)
               PROVE  /\ node.interval \in Nat /\ node.interval > 0
                      /\ node.index \in Indices
                      /\ tbl[node.index] # NULL /\ tbl[node.index].active
  BY <1>2 DEF Nodes
<1>4. i \in Indices /\ Eligible(tbl[i], t)
  BY DEF EligibleRows
<1>5. PICK p : p = Plan(tbl[i], t)
  OBVIOUS
<1>6. /\ tbl[i] # NULL /\ tbl[i].active
      /\ p.start \in Nat /\ p.freq \in Nat \ {0}
      /\ CTime(t) \in Nat /\ p.start < CTime(t)
  BY <1>4, <1>5, EligiblePlan
<1>7. InitDelay(p, t) \in 1 .. p.freq
  BY <1>6, DelayType
<1>8. PICK c : NodesOf(i, p, t, n) =
                 {[interval |-> InitDelay(p, t) + k * p.freq, index |-> i] :
                     k \in {0} \cup 1 .. c - 1}
  BY DEF NodesOf
<1>9. PICK k \in {0} \cup 1 .. c - 1 :
        node = [interval |-> InitDelay(p, t) + k * p.freq, index |-> i]
  BY <1>5, <1>8
<1>10. k \in Nat
  OBVIOUS
<1>11. k * p.freq \in Nat
  BY <1>6, <1>10
<1>12. InitDelay(p, t) + k * p.freq \in Nat /\ InitDelay(p, t) + k * p.freq > 0
  BY <1>6, <1>7, <1>11
<1> QED
  BY <1>4, <1>6, <1>9, <1>12

-----------------------------------------------------------------------------
(* RTC_callback.                                                           *)

\* What RTC_callback and the start leave: an alarm for the list that was formed,
\* which holds no row that may not be sampled.
Scheduled(list, reg1, alarm, tbl, t) ==
    /\ Nodes(list)
    /\ \A node \in list : tbl[node.index] # NULL /\ tbl[node.index].active
    /\ reg1 \in Nat \cup {NULL} /\ alarm \in Nat \cup {NULL}
    /\ IF list = {} THEN reg1 # NULL
       ELSE alarm = t + First(list) /\ alarm >= t

\* A list is formed and an alarm is set for it.
LEMMA ListScheduled ==
    ASSUME NEW tbl \in [Indices -> Contents \cup {NULL}], NEW t \in Nat,
           NEW list, list = Form_Linked_List(tbl, t), NEW reg1, NEW alarm,
           IF list = {}
           THEN reg1 = t + RTC_IDLE_TIME /\ alarm = NULL
           ELSE reg1 = NULL /\ alarm = t + First(list)
    PROVE  Scheduled(list, reg1, alarm, tbl, t)
<1>1. /\ Nodes(list)
      /\ \A node \in list : tbl[node.index] # NULL /\ tbl[node.index].active
  BY NewList
<1>2. RTC_IDLE_TIME \in Nat /\ NULL \notin Nat
  BY CollectAssumption
<1>3. CASE list = {}
  BY <1>1, <1>2, <1>3 DEF Scheduled
<1>4. CASE list # {}
  <2>1. First(list) \in Nat
    BY <1>1, <1>4, FirstNode
  <2> QED
    BY <1>1, <1>2, <1>4, <2>1 DEF Scheduled
<1> QED
  BY <1>3, <1>4

\* The history keeps its type.
LEMMA TrackType ==
    ASSUME NEW tbl, now \in Nat,
           NEW known \in [Indices -> (0 .. now) \cup {NULL}]
    PROVE  Track(tbl, known) \in [Indices -> (0 .. now) \cup {NULL}]
  BY DEF Track

\* The inductive invariant.
CollectInv == TypeOK /\ AlarmForNextNode /\ ChangesAnnounced

\* A step that calls RTC_callback.
LEMMA CallbackStep ==
    ASSUME CollectInv, now' = now, NEW tbl, table' = tbl,
           tbl \in [Indices -> Contents \cup {NULL}],
           NEW known \in [Indices -> (0 .. now) \cup {NULL}],
           NEW lists \in [Indices -> Nat], RTC_callback(tbl, known, lists),
           events' \in 0 .. MaxEvents, orphans' \subseteq orphans,
           giContextChanged' \in BOOLEAN
    PROVE  CollectInv'
<1>1. now \in Nat /\ \A t \in orphans : t \in Nat
  BY DEF CollectInv, TypeOK
<1>2. Scheduled(gpstHeadList', guiRTCReg1', collectAlarm', tbl, now)
  <2>1. PICK list, reg1, alarm :
          /\ list = gpstHeadList' /\ reg1 = guiRTCReg1'
          /\ alarm = collectAlarm'
    OBVIOUS
  <2>2. /\ list = Form_Linked_List(tbl, now)
        /\ IF list = {}
           THEN reg1 = now + RTC_IDLE_TIME /\ alarm = NULL
           ELSE reg1 = NULL /\ alarm = now + First(list)
    BY <2>1 DEF RTC_callback
  <2>3. Scheduled(list, reg1, alarm, tbl, now)
    BY <1>1, <2>2, ListScheduled
  <2> QED
    BY <2>1, <2>3
<1>3. formed' = now /\ unsaved' = FALSE /\ since' = Track(tbl, known)
  BY DEF RTC_callback
<1>4. /\ since' \in [Indices -> (0 .. now) \cup {NULL}]
      /\ cut' \in [Indices -> Nat]
  BY <1>1, <1>3, TrackType DEF RTC_callback
<1>5. TypeOK'
  <2>1. /\ Nodes(gpstHeadList')
        /\ guiRTCReg1' \in Nat \cup {NULL} /\ collectAlarm' \in Nat \cup {NULL}
    BY <1>2 DEF Scheduled
  <2>2. formed' \in 0 .. now /\ unsaved' \in BOOLEAN
    <3>1. formed' \in 0 .. now
      BY <1>1, <1>3
    <3>2. unsaved' \in BOOLEAN
      BY <1>3, Zenon
    <3> QED
      BY <3>1, <3>2
  <2>3. \A node \in gpstHeadList' :
            node.interval \in Nat /\ node.index \in Indices
    BY <2>1 DEF Nodes
  <2>4. \A t \in orphans' : t \in Nat
    BY <1>1
  <2> QED
    BY <1>1, <1>4, <2>1, <2>2, <2>3, <2>4 DEF TypeOK
<1>6. AlarmForNextNode'
  <2>1. PICK list, reg1, alarm :
          /\ list = gpstHeadList' /\ reg1 = guiRTCReg1'
          /\ alarm = collectAlarm'
    OBVIOUS
  <2>2. Scheduled(list, reg1, alarm, tbl, now)
    BY <1>2, <2>1
  <2>3. CASE list = {}
    BY <2>1, <2>2, <2>3 DEF Scheduled, AlarmForNextNode
  <2>4. CASE list # {}
    <3>1. alarm = now + First(list) /\ alarm >= now
      BY <2>2, <2>4 DEF Scheduled
    <3>2. First(list) = First(gpstHeadList)'
      BY <2>1
    <3> QED
      BY <1>3, <2>1, <2>4, <3>1, <3>2 DEF AlarmForNextNode
  <2> QED
    BY <2>3, <2>4
<1>7. ChangesAnnounced'
  BY <1>2 DEF ChangesAnnounced, Scheduled
<1> QED
  BY <1>5, <1>6, <1>7 DEF CollectInv

-----------------------------------------------------------------------------
(* The invariant.                                                          *)

\* The list that is formed at the start.
LEMMA Start == Init => CollectInv
<1> SUFFICES ASSUME Init PROVE CollectInv
  OBVIOUS
<1>1. now \in Nat /\ table \in [Indices -> Contents \cup {NULL}]
  BY CollectAssumption DEF Init
<1>2. Scheduled(gpstHeadList, guiRTCReg1, collectAlarm, table, now)
  BY <1>1, ListScheduled DEF Init
<1>3. since \in [Indices -> (0 .. now) \cup {NULL}]
  <2>1. NoneTracked \in [Indices -> (0 .. now) \cup {NULL}]
    BY DEF NoneTracked
  <2> QED
    BY <1>1, <2>1, TrackType DEF Init
<1>4. TypeOK
  <2>1. /\ guiRTCReg1 \in Nat \cup {NULL} /\ collectAlarm \in Nat \cup {NULL}
        /\ \A node \in gpstHeadList :
               node.interval \in Nat /\ node.index \in Indices
    BY <1>2 DEF Scheduled, Nodes
  <2>2. formed \in 0 .. now /\ 0 \in 0 .. MaxEvents
    BY <1>1, CollectAssumption DEF Init
  <2> QED
    BY <1>1, <1>3, <2>1, <2>2 DEF Init, TypeOK
<1>5. AlarmForNextNode
  BY <1>2 DEF Init, AlarmForNextNode, Scheduled
<1>6. ChangesAnnounced
  BY <1>2 DEF ChangesAnnounced, Scheduled
<1> QED
  BY <1>4, <1>5, <1>6 DEF CollectInv

\* A SET, with the list formed anew or left as it is.
LEMMA SetStep ==
    ASSUME CollectInv, NEW i \in Indices, NEW row \in Contents \cup {NULL},
           \/ SetWhileIdle(i, row) \/ SetWhileCollecting(i, row)
           \/ SetUnsaved(i, row)
    PROVE  CollectInv'
<1>1. /\ now \in Nat /\ events \in 0 .. MaxEvents
      /\ table \in [Indices -> Contents \cup {NULL}]
      /\ since \in [Indices -> (0 .. now) \cup {NULL}]
      /\ cut \in [Indices -> Nat]
  BY DEF CollectInv, TypeOK
<1>2. SetRow(i, row)
  BY DEF SetWhileIdle, SetWhileCollecting, SetUnsaved
<1>3. events' \in 0 .. MaxEvents
  BY <1>1, <1>2, CollectAssumption DEF SetRow, Event
<1>4. table' \in [Indices -> Contents \cup {NULL}]
  BY <1>1, <1>2 DEF SetRow
<1>5. CASE SetWhileIdle(i, row)
  <2>1. PICK tbl : tbl = table'
    OBVIOUS
  <2>2. /\ now' = now /\ orphans' = orphans /\ giContextChanged' = FALSE
        /\ RTC_callback(tbl, Untracked(i), CutShort)
    BY <1>5, <2>1 DEF SetWhileIdle
  <2>3. /\ Untracked(i) \in [Indices -> (0 .. now) \cup {NULL}]
        /\ CutShort \in [Indices -> Nat]
    BY <1>1 DEF Untracked, CutShort
  <2> QED
    BY <1>3, <1>4, <2>1, <2>2, <2>3, CallbackStep
<1>6. CASE SetWhileCollecting(i, row) \/ SetUnsaved(i, row)
  <2>1. /\ UNCHANGED <<now, gpstHeadList, formed>>
        /\ UNCHANGED <<guiRTCReg1, collectAlarm, orphans>>
        /\ since' = [since EXCEPT ![i] = NULL] /\ cut' = cut
        /\ \/ giContextChanged' = TRUE /\ unsaved' = unsaved
           \/ giContextChanged' = giContextChanged /\ unsaved' = TRUE
    BY <1>6 DEF SetWhileCollecting, SetUnsaved, Untracked, alarms
  <2>2. since' \in [Indices -> (0 .. now) \cup {NULL}]
    BY <1>1, <2>1
  <2>3. giContextChanged' \in BOOLEAN /\ unsaved' \in BOOLEAN
    BY <2>1 DEF CollectInv, TypeOK
  <2>4. TypeOK'
    BY <1>3, <1>4, <2>1, <2>2, <2>3 DEF CollectInv, TypeOK
  <2>5. AlarmForNextNode'
    BY <2>1 DEF CollectInv, AlarmForNextNode, First
  <2>6. ChangesAnnounced'
    BY <2>1 DEF ChangesAnnounced
  <2> QED
    BY <2>4, <2>5, <2>6 DEF CollectInv
<1> QED
  BY <1>5, <1>6

\* RTC_Check_LogFile_Name asks for RTC_callback.
LEMMA FailureStep ==
    ASSUME CollectInv, LogFileFails
    PROVE  CollectInv'
<1>1. /\ UNCHANGED <<now, table, gpstHeadList, collectAlarm, formed>>
      /\ UNCHANGED <<giContextChanged, unsaved, since, cut>>
      /\ guiRTCReg1' = now + RTC_IDLE_TIME
      /\ orphans' = orphans \cup ({guiRTCReg1} \ {NULL})
  BY DEF LogFileFails
<1>2. events' \in 0 .. MaxEvents
  BY CollectAssumption DEF CollectInv, TypeOK, LogFileFails, Event
<1>3. guiRTCReg1' \in Nat /\ guiRTCReg1' # NULL
  BY <1>1, CollectAssumption DEF CollectInv, TypeOK
<1>4. \A t \in orphans' : t \in Nat
  BY <1>1 DEF CollectInv, TypeOK
<1>5. TypeOK'
  BY <1>1, <1>2, <1>3, <1>4 DEF CollectInv, TypeOK
<1>6. AlarmForNextNode'
  BY <1>1, <1>3 DEF CollectInv, AlarmForNextNode, First
<1>7. ChangesAnnounced'
  BY <1>3 DEF ChangesAnnounced
<1> QED
  BY <1>5, <1>6, <1>7 DEF CollectInv

\* The alarms that lead to RTC_callback.
LEMMA ListStep ==
    ASSUME CollectInv,
           \/ CallbackAlarm \/ OrphanedAlarm
           \/ CollectAfterChange \/ CollectLast
    PROVE  CollectInv'
<1>1. /\ now \in Nat /\ table \in [Indices -> Contents \cup {NULL}]
      /\ since \in [Indices -> (0 .. now) \cup {NULL}]
      /\ cut \in [Indices -> Nat]
      /\ events \in 0 .. MaxEvents /\ giContextChanged \in BOOLEAN
  BY DEF CollectInv, TypeOK
<1>2. /\ Sampled \in [Indices -> (0 .. now) \cup {NULL}]
      /\ CutShort \in [Indices -> Nat] /\ Uncut \in [Indices -> Nat]
  BY <1>1 DEF Sampled, CutShort, Uncut
<1>3. /\ UNCHANGED <<now, events, table>>
      /\ orphans' \subseteq orphans /\ giContextChanged' \in BOOLEAN
  BY <1>1 DEF CallbackAlarm, OrphanedAlarm, CollectAfterChange, CollectLast
<1>4. PICK tbl : tbl = table
  OBVIOUS
<1>5. PICK known \in [Indices -> (0 .. now) \cup {NULL}],
           lists \in [Indices -> Nat] : RTC_callback(tbl, known, lists)
  BY <1>1, <1>2, <1>4
     DEF CallbackAlarm, OrphanedAlarm, CollectAfterChange, CollectLast
<1> QED
  BY <1>1, <1>3, <1>4, <1>5, CallbackStep

\* The samples of this second are taken, and the next alarm is set.
LEMMA WaitStep ==
    ASSUME CollectInv, CollectAndWait
    PROVE  CollectInv'
<1>1. /\ UNCHANGED <<now, events, table, guiRTCReg1, orphans>>
      /\ UNCHANGED <<giContextChanged, formed, unsaved>>
      /\ collectAlarm = now /\ Later # {} /\ gpstHeadList' = Later
      /\ collectAlarm' = now + (First(Later) - First(gpstHeadList))
      /\ since' = Sampled /\ cut' = Uncut
  BY DEF CollectAndWait
<1>2. /\ now \in Nat /\ formed \in Nat /\ Nodes(gpstHeadList)
      /\ since \in [Indices -> (0 .. now) \cup {NULL}]
      /\ cut \in [Indices -> Nat]
  BY DEF CollectInv, TypeOK, Nodes
<1>3. /\ Later \subseteq gpstHeadList /\ Nodes(Later) /\ gpstHeadList # {}
  BY <1>1, <1>2 DEF Later, Nodes
<1>4. /\ First(gpstHeadList) \in Nat /\ First(Later) \in Nat
      /\ First(gpstHeadList) <= First(Later)
  <2>1. First(gpstHeadList) \in Nat
    BY <1>2, <1>3, FirstNode
  <2>2. First(Later) \in Nat
    BY <1>1, <1>3, FirstNode
  <2>3. PICK node \in Later : node.interval = First(Later)
    BY <1>1, <1>3, FirstNode
  <2>4. First(gpstHeadList) <= node.interval
    BY <1>2, <1>3, FirstNode
  <2> QED
    BY <2>1, <2>2, <2>3, <2>4
<1>5. now = formed + First(gpstHeadList)
  BY <1>1, <1>3 DEF CollectInv, AlarmForNextNode
<1>6. /\ collectAlarm' = formed + First(Later) /\ collectAlarm' >= now
      /\ collectAlarm' \in Nat
  BY <1>1, <1>2, <1>4, <1>5
<1>7. TypeOK'
  <2>1. /\ since' \in [Indices -> (0 .. now) \cup {NULL}]
        /\ cut' \in [Indices -> Nat]
    BY <1>1, <1>2 DEF Sampled, Uncut
  <2>2. \A node \in gpstHeadList' :
            node.interval \in Nat /\ node.index \in Indices
    BY <1>1, <1>3 DEF Nodes
  <2> QED
    BY <1>1, <1>6, <2>1, <2>2 DEF CollectInv, TypeOK
<1>8. AlarmForNextNode'
  <2>1. PICK list : list = Later
    OBVIOUS
  <2>2. gpstHeadList' = list /\ list # {}
    BY <1>1, <2>1
  <2>3. collectAlarm' = formed + First(list)
    BY <1>6, <2>1
  <2> QED
    BY <1>1, <1>6, <2>2, <2>3 DEF AlarmForNextNode
<1>9. ChangesAnnounced'
  BY <1>1, <1>3 DEF CollectInv, ChangesAnnounced
<1> QED
  BY <1>7, <1>8, <1>9 DEF CollectInv

\* Time goes on when no alarm is due.
LEMMA TickStep ==
    ASSUME CollectInv, Tick
    PROVE  CollectInv'
<1>1. /\ UNCHANGED <<events, table, gpstHeadList, formed, unsaved>>
      /\ UNCHANGED <<guiRTCReg1, collectAlarm, orphans, giContextChanged>>
      /\ now' = now + 1 /\ collectAlarm # now /\ cut' = cut
  BY DEF Tick, alarms, AlarmDue
<1>2. /\ now \in Nat /\ formed \in 0 .. now
      /\ since \in [Indices -> (0 .. now) \cup {NULL}]
      /\ collectAlarm \in Nat \cup {NULL}
  BY DEF CollectInv, TypeOK
<1>3. TypeOK'
  <2>1. since' \in [Indices -> (0 .. now') \cup {NULL}]
    <3>1. \A x \in (0 .. now) \cup {NULL} : x \in (0 .. now') \cup {NULL}
      BY <1>1, <1>2
    <3> QED
      BY <1>2, <3>1 DEF Tick
  <2>2. now' \in Nat /\ formed' \in 0 .. now'
    BY <1>1, <1>2
  <2> QED
    BY <1>1, <2>1, <2>2 DEF CollectInv, TypeOK
<1>4. AlarmForNextNode'
  <2>1. CASE gpstHeadList = {}
    BY <1>1, <2>1 DEF CollectInv, AlarmForNextNode
  <2>2. CASE gpstHeadList # {}
    <3>1. /\ collectAlarm = formed + First(gpstHeadList)
          /\ collectAlarm >= now
      BY <2>2 DEF CollectInv, AlarmForNextNode
    <3>2. First(gpstHeadList) \in Nat
      BY <2>2, FirstNode DEF CollectInv, TypeOK, Nodes
    <3>3. collectAlarm \in Nat /\ collectAlarm' >= now'
      BY <1>1, <1>2, <3>1, <3>2
    <3>4. PICK list : list = gpstHeadList
      OBVIOUS
    <3>5. /\ list = gpstHeadList' /\ list # {}
          /\ collectAlarm' = formed' + First(list)
      BY <1>1, <2>2, <3>1, <3>4
    <3> QED
      BY <3>3, <3>5 DEF AlarmForNextNode
  <2> QED
    BY <2>1, <2>2
<1>5. ChangesAnnounced'
  BY <1>1 DEF CollectInv, ChangesAnnounced
<1> QED
  BY <1>3, <1>4, <1>5 DEF CollectInv

\* Every step keeps the invariant.
LEMMA Preserved == CollectInv /\ [Next]_vars => CollectInv'
<1> SUFFICES ASSUME CollectInv, [Next]_vars PROVE CollectInv'
  OBVIOUS
<1>1. ASSUME NEW i \in Indices, NEW row \in Contents \cup {NULL},
             \/ SetWhileIdle(i, row) \/ SetWhileCollecting(i, row)
             \/ SetUnsaved(i, row)
      PROVE  CollectInv'
  BY <1>1, SetStep
<1>2. CASE LogFileFails
  BY <1>2, FailureStep
<1>3. CASE CallbackAlarm \/ OrphanedAlarm \/ CollectAfterChange \/ CollectLast
  BY <1>3, ListStep
<1>4. CASE CollectAndWait
  BY <1>4, WaitStep
<1>5. CASE Tick
  BY <1>5, TickStep
<1>6. CASE UNCHANGED vars
  <2>1. /\ UNCHANGED <<now, events, table, gpstHeadList, formed, unsaved>>
        /\ UNCHANGED <<guiRTCReg1, collectAlarm, orphans, giContextChanged>>
        /\ UNCHANGED <<since, cut>>
    BY <1>6 DEF vars, alarms
  <2>2. TypeOK'
    BY <2>1 DEF CollectInv, TypeOK
  <2>3. AlarmForNextNode'
    BY <2>1 DEF CollectInv, AlarmForNextNode, First
  <2>4. ChangesAnnounced'
    BY <2>1 DEF CollectInv, ChangesAnnounced
  <2> QED
    BY <2>2, <2>3, <2>4 DEF CollectInv
<1> QED
  BY <1>1, <1>2, <1>3, <1>4, <1>5, <1>6 DEF Next

\* The inductive invariant holds through all lists, changes and failures.
THEOREM CollectInvariant == Spec => []CollectInv
  BY Start, Preserved, PTL DEF Spec

\* Every variable keeps its type; the nodes of a list belong to rows.
THEOREM TypeCorrect == Spec => []TypeOK
<1>1. CollectInv => TypeOK
  BY DEF CollectInv
<1> QED
  BY <1>1, CollectInvariant, PTL

\* The alarm comes when the next sample of the list is due, counted from when
\* RTC_callback formed it, and no list is left without an alarm.
THEOREM AlarmsInTime == Spec => []AlarmForNextNode
<1>1. CollectInv => AlarmForNextNode
  BY DEF CollectInv
<1> QED
  BY <1>1, CollectInvariant, PTL

\* A row that is removed or set out of service while it has nodes is found at
\* the next alarm, unless the change could not be saved.
THEOREM ChangesNoticed == Spec => []ChangesAnnounced
<1>1. CollectInv => ChangesAnnounced
  BY DEF CollectInv
<1> QED
  BY <1>1, CollectInvariant, PTL

-----------------------------------------------------------------------------
(* Arithmetic.                                                             *)

\* Multiples of a frequency are at least the frequency apart.
LEMMA Multiples ==
    ASSUME NEW a \in Int, NEW b \in Int, NEW f \in Nat \ {0}, a < b
    PROVE  a * f + f <= b * f
<1>1. (b - a - 1) * f >= 0
  OBVIOUS
<1>2. (b - a - 1) * f = b * f - a * f - f
  OBVIOUS
<1>3. a * f \in Int /\ b * f \in Int
  OBVIOUS
<1> QED
  BY <1>1, <1>2, <1>3

\* Division with remainder.
LEMMA Division ==
    ASSUME NEW d \in Nat, NEW f \in Nat \ {0}
    PROVE  \E q \in Nat, r \in 0 .. f - 1 :
               q = d \div f /\ r = d % f /\ d = q * f + r
<1>1. d \in Int /\ f \in Nat /\ f > 0
  OBVIOUS
<1>2. d = f * (d \div f) + (d % f)
  BY <1>1
<1>3. d \div f \in Nat /\ d % f \in 0 .. f - 1
  OBVIOUS
<1>4. PICK q \in Nat : q = d \div f
  BY <1>3
<1>5. PICK r \in 0 .. f - 1 : r = d % f
  BY <1>3
<1>6. d = f * q + r
  BY <1>2, <1>4, <1>5
<1>7. d = q * f + r
  BY <1>1, <1>6
<1> QED
  BY <1>4, <1>5, <1>7

\* Within a day the seconds of the day are counted up.
LEMMA SameDay ==
    ASSUME NEW t \in Nat, CTime(t + 1) # 0
    PROVE  CTime(t + 1) = CTime(t) + 1 /\ Today(t + 1) = Today(t)
<1>1. SecondsPerDay \in Nat \ {0}
  BY CollectAssumption
<1>2. PICK q \in Nat, r \in 0 .. SecondsPerDay - 1 :
        /\ q = t \div SecondsPerDay /\ r = t % SecondsPerDay
        /\ t = q * SecondsPerDay + r
  BY <1>1, Division
<1>3. PICK u \in Nat, v \in 0 .. SecondsPerDay - 1 :
        /\ u = (t + 1) \div SecondsPerDay /\ v = (t + 1) % SecondsPerDay
        /\ t + 1 = u * SecondsPerDay + v
  BY <1>1, Division
<1>4. v # 0
  BY <1>3 DEF CTime
<1>5. q * SecondsPerDay \in Nat /\ u * SecondsPerDay \in Nat
  BY <1>1, <1>2, <1>3
<1>6. ~(q < u)
  BY <1>1, <1>2, <1>3, <1>4, <1>5, Multiples
<1>7. ~(u < q)
  BY <1>1, <1>2, <1>3, <1>4, <1>5, Multiples
<1>8. q = u
  BY <1>2, <1>3, <1>6, <1>7
<1>9. v = r + 1
  BY <1>1, <1>2, <1>3, <1>5, <1>8
<1> QED
  BY <1>2, <1>3, <1>8, <1>9 DEF CTime, Today

\* h is computed by halving, with Stop the intervals for which the nodes fit.
Halves(h, Stop, N) ==
    \A n \in 0 .. N :
        h[n] = IF n <= 1 \/ n \in Stop THEN n ELSE h[n \div 2]

\* There is such a function: it is built from 0 on.
LEMMA HalvingDefined ==
    ASSUME NEW Stop, NEW N \in Nat
    PROVE  \E g \in [0 .. N -> Nat] : Halves(g, Stop, N)
<1> DEFINE Built(m) == \E g \in [0 .. m -> Nat] : Halves(g, Stop, m)
           Failed == {m \in Nat : ~Built(m)}
<1>1. SUFFICES ASSUME Failed # {} PROVE FALSE
  OBVIOUS
<1>2. PICK m \in Failed : \A y \in Failed : ~(<<y, m>> \in OpToRel(<, Nat))
  BY <1>1, NatLessThanWellFounded, WFMin
<1>3. \A y \in Failed : ~(y < m)
  BY <1>2 DEF OpToRel
<1>4. m \in Nat /\ ~Built(m)
  BY <1>2
<1>5. \A k \in Nat : k \notin Failed => Built(k)
  OBVIOUS
<1> HIDE DEF Failed
<1>6. CASE m = 0
  <2> DEFINE g == [n \in 0 .. 0 |-> 0]
  <2>1. g \in [0 .. 0 -> Nat] /\ Halves(g, Stop, 0)
    BY DEF Halves
  <2>2. Built(0)
    BY <2>1
  <2> QED
    BY <1>4, <1>6, <2>2
<1>7. CASE m # 0
  <2>1. m - 1 \in Nat /\ m - 1 < m
    BY <1>4, <1>7
  <2>2. Built(m - 1)
    BY <1>3, <1>5, <2>1
  <2>3. PICK h \in [0 .. m - 1 -> Nat] : Halves(h, Stop, m - 1)
    BY <2>2
  <2> DEFINE g == [n \in 0 .. m |->
                     IF n < m THEN h[n]
                     ELSE IF n <= 1 \/ n \in Stop THEN n ELSE h[n \div 2]]
  <2>4. \A n \in 0 .. m : n > 1 => n \div 2 \in 0 .. m - 1
    BY <1>4
  <2>5. g \in [0 .. m -> Nat]
    BY <1>4, <1>7, <2>4
  <2>6. Halves(g, Stop, m)
    <3> SUFFICES ASSUME NEW n \in 0 .. m
                 PROVE  g[n] = IF n <= 1 \/ n \in Stop THEN n ELSE g[n \div 2]
      BY DEF Halves
    <3>1. n > 1 => n \div 2 \in 0 .. m - 1 /\ g[n \div 2] = h[n \div 2]
      BY <1>4, <2>4
    <3> QED
      BY <1>4, <2>3, <3>1 DEF Halves
  <2> QED
    BY <1>4, <2>5, <2>6
<1> QED
  BY <1>6, <1>7

\* Such a function ends with a number, at most 1 or one for which it stops.
LEMMA HalvingEnds ==
    ASSUME NEW Stop, NEW N \in Nat, NEW h, Halves(h, Stop, N)
    PROVE  h[N] \in Nat /\ (h[N] <= 1 \/ h[N] \in Stop)
<1> DEFINE Ends(n) == h[n] \in Nat /\ (h[n] <= 1 \/ h[n] \in Stop)
           Bad == {n \in 0 .. N : ~Ends(n)}
<1>1. SUFFICES ASSUME Bad # {} PROVE FALSE
  OBVIOUS
<1>2. Bad \subseteq Nat
  OBVIOUS
<1>3. PICK m \in Bad : \A y \in Bad : ~(<<y, m>> \in OpToRel(<, Nat))
  BY <1>1, <1>2, NatLessThanWellFounded, WFMin
<1>4. \A y \in Bad : ~(y < m)
  BY <1>2, <1>3 DEF OpToRel
<1>5. m \in 0 .. N /\ ~Ends(m)
  BY <1>3
<1>6. m > 1 /\ h[m] = h[m \div 2]
  BY <1>5 DEF Halves
<1>7. m \div 2 \in 0 .. N /\ m \div 2 < m
  BY <1>5, <1>6
<1> QED
  BY <1>4, <1>5, <1>6, <1>7

\* The interval that RTC_Calc_Num_Nodes_Interval ends with is a number: the
\* estimated nodes fit, or it cannot be halved further.
LEMMA IntervalType ==
    ASSUME NEW tbl, NEW t
    PROVE  LET n == RTC_Calc_Num_Nodes_Interval(tbl, t)
           IN  /\ n \in Nat
               /\ n <= 1 \/ EstimateAll(tbl, t, n) <= RTC_MAX_LIST_NODES
<1> DEFINE fits(n) == EstimateAll(tbl, t, n) <= RTC_MAX_LIST_NODES
           Halved(g) == g = [n \in 0 .. INIT_INTERVAL |->
                               IF n <= 1 \/ fits(n) THEN n ELSE g[n \div 2]]
<1>1. PICK N \in Nat : N = INIT_INTERVAL
  BY CollectAssumption
<1>2. PICK Stop : Stop = {n \in 0 .. N : fits(n)}
  OBVIOUS
<1>3. \A n \in 0 .. N : n \in Stop <=> fits(n)
  BY <1>2
<1>4. PICK g \in [0 .. N -> Nat] : Halves(g, Stop, N)
  BY HalvingDefined
<1>5. Halved(g)
  BY <1>1, <1>3, <1>4 DEF Halves
<1>6. PICK h : Halved(h) /\ h[N] = RTC_Calc_Num_Nodes_Interval(tbl, t)
  BY <1>1, <1>5 DEF RTC_Calc_Num_Nodes_Interval
<1>7. Halves(h, Stop, N)
  BY <1>1, <1>3, <1>6 DEF Halves
<1>8. h[N] \in Nat /\ (h[N] <= 1 \/ h[N] \in Stop)
  BY <1>7, HalvingEnds
<1>9. h[N] \in Stop => fits(h[N])
  BY <1>2
<1> QED
  BY <1>6, <1>8, <1>9

\* Multiples are natural and add up.
LEMMA Adding ==
    ASSUME NEW a \in Nat, NEW k \in Nat, NEW f \in Nat
    PROVE  /\ a * f \in Nat /\ k * f \in Nat
           /\ (a + k) * f = a * f + k * f
           /\ (a + 1) * f = a * f + f
  OBVIOUS

-----------------------------------------------------------------------------
(* The times of a row.                                                     *)

DayStart(t) == t - CTime(t)

\* A plan that has begun and not ended, for a time t of the day that starts at
\* b.
Running(p, b, t) ==
    /\ t \in Nat /\ b \in Int /\ CTime(t) \in Nat /\ b = t - CTime(t)
    /\ p.start \in Nat /\ p.freq \in Nat \ {0} /\ p.end \in Nat
    /\ p.start < CTime(t) /\ CTime(t) < p.end

\* x is a time of the plan, or the second after it.
OnTime(p, b, x) ==
    \E q \in Nat : \/ x = b + p.start + q * p.freq
                   \/ x = b + p.start + q * p.freq + 1

\* An eligible row has such a plan.
LEMMA EligibleRuns ==
    ASSUME NEW row \in Contents \cup {NULL}, NEW t \in Nat, Eligible(row, t)
    PROVE  Running(Plan(row, t), DayStart(t), t)
<1>1. row \in Contents
  BY DEF Eligible
<1>2. row.week \in [0 .. DaysPerWeek - 1 -> Plans]
  BY <1>1, CollectAssumption
<1>3. Today(t) \in 0 .. DaysPerWeek - 1 /\ CTime(t) \in Nat
  <2>1. t \div SecondsPerDay \in Nat /\ t % SecondsPerDay \in Nat
    BY CollectAssumption
  <2> QED
    BY <2>1, CollectAssumption DEF Today, CTime
<1>4. Plan(row, t) \in Plans
  BY <1>2, <1>3 DEF Plan
<1>5. PICK p \in Plans : p = Plan(row, t)
  BY <1>4
<1>6. p.start \in Nat /\ p.freq \in Nat /\ p.end \in Nat
  BY CollectAssumption DEF Plans
<1>7. p.start < CTime(t) /\ CTime(t) < p.end /\ p.freq # 0
  BY <1>5 DEF Eligible
<1>8. Running(p, DayStart(t), t)
  BY <1>3, <1>6, <1>7 DEF Running, DayStart
<1> QED
  BY <1>5, <1>8

\* The first time of a list: it is a time of the row, and no time of the row
\* after t is missed.
LEMMA FirstTime ==
    ASSUME NEW p, NEW b, NEW t, Running(p, b, t)
    PROVE  /\ InitDelay(p, t) \in 1 .. p.freq
           /\ OnTime(p, b, t + InitDelay(p, t))
           /\ \A x \in Int : t < x /\ OnTime(p, b, x)
                                => t + InitDelay(p, t) <= x
<1>1. PICK c \in Nat, f \in Nat \ {0}, s \in Nat :
        c = CTime(t) /\ f = p.freq /\ s = p.start
  BY DEF Running
<1>2. t \in Nat /\ b \in Int /\ b = t - c /\ s < c
  BY <1>1 DEF Running
<1>3. PICK d \in Nat : d = c - s
  BY <1>1, <1>2
<1>4. PICK k \in Nat, r \in 0 .. f - 1 : r = d % f /\ d = k * f + r
  BY Division
<1>5. PICK delay \in Int : delay = InitDelay(p, t)
  BY <1>1, DelayType DEF Running
<1>6. delay = IF r = 0 THEN 1 ELSE f - r
  <2>1. InitDelay(p, t) = IF f - (d % f) = f THEN 1 ELSE f - (d % f)
    BY <1>1, <1>3 DEF InitDelay
  <2> QED
    BY <1>4, <1>5, <2>1
<1>7. k * f \in Nat /\ (k + 1) * f = k * f + f
  BY Adding
<1>8. t = b + s + k * f + r
  BY <1>2, <1>3, <1>4, <1>7
<1>9. delay \in 1 .. f
  BY <1>4, <1>6
<1>10. OnTime(p, b, t + delay)
  <2>1. CASE r = 0
    <3>1. t + delay = b + s + k * f + 1
      BY <1>2, <1>6, <1>7, <1>8, <2>1
    <3> QED
      BY <1>1, <1>4, <3>1 DEF OnTime
  <2>2. CASE r # 0
    <3>1. t + delay = b + s + (k + 1) * f
      BY <1>2, <1>6, <1>7, <1>8, <2>2
    <3>2. k + 1 \in Nat
      OBVIOUS
    <3> QED
      BY <1>1, <3>1, <3>2 DEF OnTime
  <2> QED
    BY <2>1, <2>2
<1>11. ASSUME NEW x \in Int, t < x, OnTime(p, b, x)
       PROVE  t + delay <= x
  <2>1. PICK q \in Nat : x = b + s + q * f \/ x = b + s + q * f + 1
    BY <1>1, <1>11 DEF OnTime
  <2>2. q * f \in Nat
    BY <1>1, <2>1
  <2>3. CASE k < q
    <3>1. k * f + f <= q * f
      BY <1>1, <2>3, Multiples
    <3> QED
      BY <1>2, <1>6, <1>7, <1>8, <2>1, <2>2, <3>1
  <2>4. CASE q <= k
    <3>1. q * f <= k * f
      BY <1>1, <1>7, <2>2, <2>4, Multiples
    <3> QED
      BY <1>2, <1>6, <1>7, <1>8, <1>11, <2>1, <2>2, <3>1
  <2> QED
    BY <2>3, <2>4
<1> QED
  BY <1>1, <1>5, <1>9, <1>10, <1>11

\* The times after it are times of the row as well.
LEMMA TimesGoOn ==
    ASSUME NEW p, NEW b \in Int, NEW x \in Int, OnTime(p, b, x), NEW k \in Nat,
           p.freq \in Nat \ {0}, p.start \in Nat
    PROVE  OnTime(p, b, x + k * p.freq)
<1>1. PICK f \in Nat \ {0}, s \in Nat : f = p.freq /\ s = p.start
  OBVIOUS
<1>2. PICK q \in Nat : x = b + s + q * f \/ x = b + s + q * f + 1
  BY <1>1 DEF OnTime
<1>3. q * f \in Nat /\ k * f \in Nat /\ (q + k) * f = q * f + k * f
  BY Adding
<1>4. q + k \in Nat
  OBVIOUS
<1>5. \/ x + k * f = b + s + (q + k) * f
      \/ x + k * f = b + s + (q + k) * f + 1
  BY <1>2, <1>3
<1> QED
  BY <1>1, <1>4, <1>5 DEF OnTime

-----------------------------------------------------------------------------
(* Waiting for a row.  A list was formed at time t; b is the start of the  *)
(* day, p the plan of row i.                                               *)

\* Two periods after s the window is over, or the list used up and the next one
\* formed.
Closing(p, b, t, list, s) ==
    \/ s + 2 * p.freq >= b + p.end
    \/ \A m \in list : t + m.interval < s + 2 * p.freq

\* The nodes of a row are at times of its plan, one period apart up to the last,
\* which comes less than two periods before the list is replaced.
Chain(i, p, b, t, list) ==
    \A node \in list : node.index = i =>
        /\ OnTime(p, b, t + node.interval)
        /\ \/ \E m \in list : /\ m.index = i
                              /\ m.interval = node.interval + p.freq
           \/ Closing(p, b, t, list, t + node.interval)

\* A row that was sampled at s has a node in time, or the next list will have
\* it.
Awaited(i, p, b, t, list, s) ==
    \/ \E node \in list : node.index = i /\ t + node.interval <= s + 2 * p.freq
    \/ OnTime(p, b, s) /\ Closing(p, b, t, list, s)

Waiting(i, p, b, t, list, s) ==
    Chain(i, p, b, t, list) /\ Awaited(i, p, b, t, list, s)

\* No node of a list lies beyond n.
UpTo(list, n) == \A m \in list : m.interval \in Nat /\ m.interval <= n

\* The nodes RTC_Add_Intervals_To_List makes for a row, when no node of the list
\* lies beyond the interval n.
LEMMA RowNodes ==
    ASSUME NEW i, NEW p, NEW b, NEW t, Running(p, b, t), NEW n \in Nat,
           NEW list, UpTo(list, n),
           NEW node \in NodesOf(i, p, t, n)
    PROVE  /\ OnTime(p, b, t + node.interval)
           /\ \/ \E m \in NodesOf(i, p, t, n) :
                     m.index = i /\ m.interval = node.interval + p.freq
              \/ Closing(p, b, t, list, t + node.interval)
<1>1. PICK f \in Nat \ {0}, c \in Nat, e \in Nat :
        f = p.freq /\ c = CTime(t) /\ e = p.end
  BY DEF Running
<1>2. t \in Nat /\ b \in Int /\ b = t - c /\ c < e
  BY <1>1 DEF Running
<1>3. PICK delay \in 1 .. f : delay = InitDelay(p, t)
  BY <1>1, FirstTime
<1>4. OnTime(p, b, t + delay)
  BY <1>3, FirstTime
<1>5. PICK len \in Nat : len = IF e > n + (c + delay) THEN n ELSE e - c
  <2>1. e - c \in Nat
    BY <1>2
  <2> QED
    BY <2>1, Zenon
<1>6. PICK iCnt \in Nat, r \in 0 .. f - 1 :
        iCnt = len \div f /\ len = iCnt * f + r
  BY Division
<1>7. NodesOf(i, p, t, n) = {[interval |-> delay + k * f, index |-> i] :
                               k \in {0} \cup 1 .. iCnt - 1}
  <2>1. iCnt = IF e > n + (c + delay) THEN n \div f ELSE (e - c) \div f
    BY <1>5, <1>6
  <2> QED
    BY <1>1, <1>3, <2>1 DEF NodesOf, ASTime
<1>8. PICK k \in {0} \cup 1 .. iCnt - 1 :
        node = [interval |-> delay + k * f, index |-> i]
  BY <1>7
<1>9. k \in Nat
  OBVIOUS
<1>10. k * f \in Nat /\ (k + 1) * f = k * f + f /\ iCnt * f \in Nat
  BY <1>9, Adding
<1>11. node.interval = delay + k * f
  BY <1>8
<1>12. OnTime(p, b, t + node.interval)
  <2>1. t + delay \in Int /\ p.start \in Nat
    BY <1>2 DEF Running
  <2>2. OnTime(p, b, (t + delay) + k * f)
    BY <1>1, <1>2, <1>4, <1>9, <2>1, TimesGoOn
  <2>3. (t + delay) + k * f = t + node.interval
    BY <1>2, <1>10, <1>11
  <2> QED
    BY <2>2, <2>3
<1>13. CASE k + 1 \in 1 .. iCnt - 1
  <2>1. PICK m : m = [interval |-> delay + (k + 1) * f, index |-> i]
    OBVIOUS
  <2>2. m \in NodesOf(i, p, t, n)
    BY <1>7, <1>13, <2>1
  <2>3. m.index = i /\ m.interval = node.interval + p.freq
    BY <1>1, <1>10, <1>11, <2>1
  <2> QED
    BY <1>12, <2>2, <2>3
<1>14. CASE ~(k + 1 \in 1 .. iCnt - 1)
  <2>1. iCnt <= k + 1
    BY <1>9, <1>14
  <2>2. iCnt * f <= (k + 1) * f
    <3>1. CASE iCnt = k + 1
      BY <1>10, <3>1
    <3>2. CASE iCnt < k + 1
      BY <1>9, <1>10, <3>2, Multiples
    <3> QED
      BY <2>1, <3>1, <3>2
  <2>3. len < (t + node.interval - t) + 2 * f
    BY <1>2, <1>6, <1>10, <1>11, <2>2
  <2>4. Closing(p, b, t, list, t + node.interval)
    <3>1. CASE e > n + (c + delay)
      <4>1. \A m \in list : t + m.interval < t + node.interval + 2 * f
        BY <1>2, <1>5, <1>10, <1>11, <2>3, <3>1 DEF UpTo
      <4> QED
        BY <1>1, <4>1 DEF Closing
    <3>2. CASE ~(e > n + (c + delay))
      <4>1. t + node.interval + 2 * f >= b + e
        BY <1>2, <1>5, <1>10, <1>11, <2>3, <3>2
      <4> QED
        BY <1>1, <4>1 DEF Closing
    <3> QED
      BY <3>1, <3>2
  <2> QED
    BY <1>12, <2>4
<1> QED
  BY <1>13, <1>14

\* The first node is among them.
LEMMA FirstOfRow ==
    ASSUME NEW i, NEW p, NEW t, NEW n
    PROVE  [interval |-> InitDelay(p, t) + 0 * p.freq, index |-> i]
               \in NodesOf(i, p, t, n)
  BY DEF NodesOf

\* A new list, if no node lies beyond its interval, has for every row that is
\* eligible a chain of nodes that starts with the first time.
LEMMA NewChain ==
    ASSUME NEW tbl \in [Indices -> Contents \cup {NULL}], NEW t \in Nat,
           NEW i \in Indices, Eligible(tbl[i], t), WithinInterval(tbl, t),
           NEW p, p = Plan(tbl[i], t), NEW b, b = DayStart(t),
           NEW list, list = Form_Linked_List(tbl, t)
    PROVE  /\ Chain(i, p, b, t, list)
           /\ \E node \in list : /\ node.index = i
                                 /\ node.interval = InitDelay(p, t)
<1>1. PICK n \in Nat : n = RTC_Calc_Num_Nodes_Interval(tbl, t)
  BY IntervalType
<1>2. list =
        UNION {NodesOf(j, Plan(tbl[j], t), t, n) : j \in EligibleRows(tbl, t)}
  BY <1>1 DEF Form_Linked_List
<1>3. UpTo(list, n)
  BY <1>1, NewList DEF WithinInterval, Nodes, UpTo
<1>4. Running(p, b, t)
  BY EligibleRuns
<1>5. NodesOf(i, p, t, n) \subseteq list
  BY <1>2 DEF EligibleRows
<1>6. \A node \in list : node.index = i => node \in NodesOf(i, p, t, n)
  <2> SUFFICES ASSUME NEW j \in EligibleRows(tbl, t),
                      NEW node \in NodesOf(j, Plan(tbl[j], t), t, n),
                      node.index = i
               PROVE  node \in NodesOf(i, p, t, n)
    BY <1>2
  <2>1. node.index = j
    BY DEF NodesOf
  <2> QED
    BY <2>1
<1>7. Chain(i, p, b, t, list)
  <2> SUFFICES ASSUME NEW node \in list, node.index = i
               PROVE  /\ OnTime(p, b, t + node.interval)
                      /\ \/ \E m \in list :
                                /\ m.index = i
                                /\ m.interval = node.interval + p.freq
                         \/ Closing(p, b, t, list, t + node.interval)
    BY DEF Chain
  <2>1. node \in NodesOf(i, p, t, n)
    BY <1>6
  <2>2. /\ OnTime(p, b, t + node.interval)
        /\ \/ \E m \in NodesOf(i, p, t, n) :
                  m.index = i /\ m.interval = node.interval + p.freq
           \/ Closing(p, b, t, list, t + node.interval)
    BY <1>3, <1>4, <2>1, RowNodes
  <2> QED
    BY <1>5, <2>2
<1>8. PICK node :
        node = [interval |-> InitDelay(p, t) + 0 * p.freq, index |-> i]
  OBVIOUS
<1>9. node \in list /\ node.index = i
  BY <1>5, <1>8, FirstOfRow
<1>10. node.interval = InitDelay(p, t)
  <2>1. InitDelay(p, t) \in 1 .. p.freq /\ p.freq \in Nat
    BY <1>4, FirstTime DEF Running
  <2> QED
    BY <1>8, <2>1
<1> QED
  BY <1>7, <1>9, <1>10

\* Every row that is waited for is in its window, and will be sampled in time.
AllWaiting(list, times, tbl, t, start) ==
    /\ list = {} => \A i \in Indices : times[i] = NULL
    /\ \A i \in Indices : times[i] # NULL =>
           /\ Eligible(tbl[i], t)
           /\ Waiting(i, Plan(tbl[i], t), DayStart(t), start, list, times[i])

\* When the row was sampled last, and one period for each list that was cut
\* short since: from then on the row is waited for.
Counted(times, lists, tbl, t) ==
    [i \in Indices |-> IF times[i] = NULL THEN NULL
                       ELSE times[i] + lists[i] * Plan(tbl[i], t).freq]

\* The rows that are in a list formed at t, and the lists that were cut short
\* for them.
Tracked(known, tbl, t) ==
    [i \in Indices |->
        IF ~Eligible(tbl[i], t) \/ ~WithinInterval(tbl, t) THEN NULL
        ELSE IF known[i] = NULL THEN t ELSE known[i]]

CutOf(known, lists) ==
    [i \in Indices |-> IF known[i] = NULL THEN 0 ELSE lists[i]]

\* Rows out of their window are not waited for.
InWindow(times, tbl, t) ==
    \A i \in Indices : times[i] # NULL => Eligible(tbl[i], t)

\* The inductive invariant of the wait.
WaitInv ==
    /\ InWindow(since, table, now)
    /\ AllWaiting(gpstHeadList, Counted(since, cut, table, now), table, now,
                  formed)

\* For a row in its window this is a time.
LEMMA CountedTime ==
    ASSUME NEW tbl \in [Indices -> Contents \cup {NULL}], NEW t \in Nat,
           NEW i \in Indices, Eligible(tbl[i], t),
           NEW times, times[i] \in Nat, NEW lists, lists[i] \in Nat
    PROVE  \E f \in Nat \ {0} :
               /\ f = Plan(tbl[i], t).freq /\ lists[i] * f \in Nat
               /\ Counted(times, lists, tbl, t)[i] = times[i] + lists[i] * f
               /\ Counted(times, lists, tbl, t)[i] \in Nat
               /\ Counted(times, lists, tbl, t)[i] # NULL
<1>1. PICK p, b : p = Plan(tbl[i], t) /\ b = DayStart(t)
  OBVIOUS
<1>2. Running(p, b, t)
  BY <1>1, EligibleRuns
<1>3. PICK f \in Nat \ {0} : f = Plan(tbl[i], t).freq
  BY <1>1, <1>2 DEF Running
<1>4. lists[i] * f \in Nat
  BY <1>3, Adding
<1>5. times[i] # NULL /\ NULL \notin Nat
  BY CollectAssumption
<1>6. Counted(times, lists, tbl, t)[i] = times[i] + lists[i] * f
  BY <1>3, <1>5 DEF Counted
<1>7. times[i] + lists[i] * f \in Nat
  BY <1>4
<1> QED
  BY <1>3, <1>4, <1>5, <1>6, <1>7

\* A new list counts on for the rows that are known.
LEMMA CountedOn ==
    ASSUME NEW tbl \in [Indices -> Contents \cup {NULL}], NEW t \in Nat,
           NEW known \in [Indices -> (0 .. t) \cup {NULL}],
           NEW lists \in [Indices -> Nat]
    PROVE  Counted(Tracked(known, tbl, t), CutOf(known, lists), tbl, t)
               = Tracked(Counted(known, lists, tbl, t), tbl, t)
<1> DEFINE times == Tracked(known, tbl, t)
           cuts == CutOf(known, lists)
           C == Counted(times, cuts, tbl, t)
           K == Counted(known, lists, tbl, t)
           N == Tracked(K, tbl, t)
<1>1. ASSUME NEW i \in Indices PROVE C[i] = N[i]
  <2>1. CASE ~Eligible(tbl[i], t) \/ ~WithinInterval(tbl, t)
    <3>1. times[i] = NULL /\ N[i] = NULL
      BY <2>1 DEF Tracked
    <3> QED
      BY <3>1 DEF Counted
  <2>2. CASE Eligible(tbl[i], t) /\ WithinInterval(tbl, t) /\ known[i] = NULL
    <3>1. times[i] = t /\ cuts[i] = 0 /\ t # NULL
      BY <2>2, CollectAssumption DEF Tracked, CutOf
    <3>2. N[i] = t
      BY <2>2 DEF Tracked, Counted
    <3>3. PICK f \in Nat \ {0} : f = Plan(tbl[i], t).freq
      BY <2>2, EligibleRuns DEF Running
    <3> HIDE DEF times, cuts
    <3>4. C[i] = t + 0 * f
      BY <3>1, <3>3 DEF Counted
    <3>5. C[i] = t
      BY <3>3, <3>4
    <3> QED
      BY <3>2, <3>5
  <2>3. CASE Eligible(tbl[i], t) /\ WithinInterval(tbl, t) /\ known[i] # NULL
    <3>1. times[i] = known[i] /\ cuts[i] = lists[i] /\ known[i] \in Nat
      BY <2>3 DEF Tracked, CutOf
    <3>2. K[i] # NULL
      BY <2>3, <3>1, CountedTime
    <3>3. C[i] = K[i]
      BY <3>1 DEF Counted
    <3> QED
      BY <2>3, <3>2, <3>3 DEF Tracked
  <2> QED
    BY <2>1, <2>2, <2>3
<1>2. C = [i \in Indices |-> C[i]]
  BY DEF Counted
<1>3. N = [i \in Indices |-> N[i]]
  BY DEF Tracked
<1> HIDE DEF C, N
<1>4. C = N
  BY <1>1, <1>2, <1>3
<1> QED
  BY <1>4 DEF C, N

-----------------------------------------------------------------------------
(* RTC_callback.                                                           *)

\* What is known of a row when a list is formed at t: its first node comes in
\* time, or its window is over before.
InTime(p, b, t, s) ==
    \/ t + InitDelay(p, t) <= s + 2 * p.freq
    \/ OnTime(p, b, s) /\ s + 2 * p.freq >= b + p.end

Timely(known, tbl, t) ==
    \A i \in Indices : known[i] # NULL /\ Eligible(tbl[i], t)
        => InTime(Plan(tbl[i], t), DayStart(t), t, known[i])

\* Then all rows that are waited for will be sampled in time.
LEMMA Formed ==
    ASSUME NEW tbl \in [Indices -> Contents \cup {NULL}], NEW t \in Nat,
           NEW known, Timely(known, tbl, t), NEW times,
           times = Tracked(known, tbl, t),
           NEW list, list = Form_Linked_List(tbl, t)
    PROVE  AllWaiting(list, times, tbl, t, t)
<1>1. ASSUME NEW i \in Indices, times[i] # NULL
      PROVE  /\ list # {} /\ Eligible(tbl[i], t)
             /\ Waiting(i, Plan(tbl[i], t), DayStart(t), t, list, times[i])
  <2>1. Eligible(tbl[i], t) /\ WithinInterval(tbl, t)
    BY <1>1 DEF Tracked
  <2>2. PICK p, b : p = Plan(tbl[i], t) /\ b = DayStart(t)
    OBVIOUS
  <2>3. Chain(i, p, b, t, list)
    BY <2>1, <2>2, NewChain
  <2>4. PICK node \in list : node.index = i /\ node.interval = InitDelay(p, t)
    BY <2>1, <2>2, NewChain
  <2>5. Running(p, b, t)
    BY <2>1, <2>2, EligibleRuns
  <2>6. InTime(p, b, t, times[i])
    <3>1. CASE known[i] = NULL
      <4>1. times[i] = t
        BY <2>1, <3>1 DEF Tracked
      <4>2. InitDelay(p, t) \in 1 .. p.freq /\ p.freq \in Nat
        BY <2>5, FirstTime DEF Running
      <4>3. t + InitDelay(p, t) <= t + 2 * p.freq
        BY <4>2
      <4> QED
        BY <4>1, <4>3 DEF InTime
    <3>2. CASE known[i] # NULL
      BY <2>1, <2>2, <3>2 DEF Timely, Tracked
    <3> QED
      BY <3>1, <3>2
  <2>7. Awaited(i, p, b, t, list, times[i])
    BY <2>4, <2>6 DEF InTime, Awaited, Closing
  <2> QED
    BY <2>1, <2>2, <2>3, <2>4, <2>7 DEF Waiting
<1> QED
  BY <1>1 DEF AllWaiting

\* A step that calls RTC_callback.
LEMMA CallbackWaits ==
    ASSUME now \in Nat, now' = now, NEW tbl, table' = tbl,
           tbl \in [Indices -> Contents \cup {NULL}],
           NEW known \in [Indices -> (0 .. now) \cup {NULL}],
           NEW lists \in [Indices -> Nat], RTC_callback(tbl, known, lists),
           Timely(Counted(known, lists, tbl, now), tbl, now)
    PROVE  WaitInv'
<1>1. PICK list, times, cuts :
        list = gpstHeadList' /\ times = since' /\ cuts = cut'
  OBVIOUS
<1>2. PICK t \in Nat : t = now
  OBVIOUS
<1>3. /\ list = Form_Linked_List(tbl, t) /\ formed' = t
      /\ times = Tracked(known, tbl, t) /\ cuts = CutOf(known, lists)
  BY <1>1, <1>2 DEF RTC_callback, Track, Tracked, CutOf
<1>4. PICK K : K = Counted(known, lists, tbl, t)
  OBVIOUS
<1>5. PICK counted : counted = Counted(times, cuts, tbl, t)
  OBVIOUS
<1>6. counted = Tracked(K, tbl, t)
  BY <1>2, <1>3, <1>4, <1>5, CountedOn
<1>7. Timely(K, tbl, t)
  BY <1>2, <1>4
<1>8. AllWaiting(list, counted, tbl, t, t)
  BY <1>3, <1>6, <1>7, Formed
<1>9. AllWaiting(gpstHeadList', Counted(since', cut', table', now'), table',
                 now', formed')
  BY <1>1, <1>2, <1>3, <1>5, <1>8
<1>10. InWindow(times, tbl, t)
  BY <1>3 DEF InWindow, Tracked
<1>11. InWindow(since', table', now')
  BY <1>1, <1>2, <1>10
<1> QED
  BY <1>9, <1>11 DEF WaitInv


\* A row that is waited for is counted from a time, and the wait is not over:
\* the alarm for the next node has not passed, and a window that has ended is
\* not waited for.
LEMMA NotOver ==
    ASSUME CollectInv, WaitInv, NEW i \in Indices, since[i] # NULL
    PROVE  \E s \in Nat, f \in Nat \ {0} :
               /\ s = Counted(since, cut, table, now)[i] /\ s # NULL
               /\ f = Plan(table[i], now).freq
               /\ s = since[i] + cut[i] * f /\ cut[i] * f \in Nat
               /\ Eligible(table[i], now) /\ now <= s + 2 * f
<1>1. /\ now \in Nat /\ formed \in Nat /\ Nodes(gpstHeadList)
      /\ table \in [Indices -> Contents \cup {NULL}]
      /\ since[i] \in Nat /\ cut[i] \in Nat
  BY DEF CollectInv, TypeOK, Nodes
<1>2. PICK p, b : p = Plan(table[i], now) /\ b = DayStart(now)
  OBVIOUS
<1>3. PICK C : C = Counted(since, cut, table, now)
  OBVIOUS
<1>4. Eligible(table[i], now)
  BY DEF WaitInv, InWindow
<1>5. PICK f \in Nat \ {0} :
        /\ f = p.freq /\ cut[i] * f \in Nat
        /\ C[i] = since[i] + cut[i] * f /\ C[i] \in Nat /\ C[i] # NULL
  BY <1>1, <1>2, <1>3, <1>4, CountedTime
<1>6. PICK s \in Nat : s = C[i]
  BY <1>5
<1>7. gpstHeadList # {} /\ Awaited(i, p, b, formed, gpstHeadList, s)
  BY <1>2, <1>3, <1>5, <1>6 DEF WaitInv, AllWaiting, Waiting
<1>8. Running(p, b, now)
  BY <1>1, <1>2, <1>4, EligibleRuns
<1>9. PICK first \in gpstHeadList : first.interval = First(gpstHeadList)
  BY <1>1, <1>7, FirstNode
<1>10. \A node \in gpstHeadList :
           node.interval \in Nat /\ now <= formed + node.interval
  <2>1. now <= formed + First(gpstHeadList)
    BY <1>7 DEF CollectInv, AlarmForNextNode
  <2>2. /\ First(gpstHeadList) \in Nat
        /\ \A node \in gpstHeadList : First(gpstHeadList) <= node.interval
    BY <1>1, <1>7, FirstNode
  <2> QED
    BY <1>1, <2>1, <2>2 DEF Nodes
<1>11. PICK e \in Nat, c \in Nat :
         e = p.end /\ c = CTime(now) /\ b = now - c /\ c < e
  BY <1>8 DEF Running
<1>12. now <= s + 2 * f
  <2>1. CASE \E node \in gpstHeadList : formed + node.interval <= s + 2 * f
    BY <1>1, <1>10, <2>1
  <2>2. CASE s + 2 * f >= b + e
    BY <1>1, <1>11, <2>2
  <2>3. CASE \A m \in gpstHeadList : formed + m.interval < s + 2 * f
    BY <1>1, <1>9, <1>10, <2>3
  <2> QED
    BY <1>5, <1>7, <1>11, <2>1, <2>2, <2>3 DEF Awaited, Closing
<1> QED
  BY <1>2, <1>3, <1>4, <1>5, <1>6, <1>12

\* A list is cut short: the rows that are still known get one period more, and
\* the new list has them within that.
LEMMA CutKnown ==
    ASSUME CollectInv, WaitInv, NEW tbl,
           tbl \in [Indices -> Contents \cup {NULL}], NEW known,
           \A j \in Indices : known[j] # NULL
               => known[j] = since[j] /\ tbl[j] = table[j]
    PROVE  Timely(Counted(known, CutShort, tbl, now), tbl, now)
<1>1. PICK K : K = Counted(known, CutShort, tbl, now)
  OBVIOUS
<1> SUFFICES ASSUME NEW i \in Indices, K[i] # NULL, Eligible(tbl[i], now)
             PROVE  InTime(Plan(tbl[i], now), DayStart(now), now, K[i])
  BY <1>1 DEF Timely
<1>2. /\ now \in Nat /\ cut[i] \in Nat
      /\ table \in [Indices -> Contents \cup {NULL}]
      /\ since \in [Indices -> (0 .. now) \cup {NULL}]
  BY DEF CollectInv, TypeOK
<1>3. known[i] # NULL /\ known[i] = since[i] /\ tbl[i] = table[i]
  BY <1>1 DEF Counted
<1>4. PICK s \in Nat, f \in Nat \ {0} :
        /\ f = Plan(tbl[i], now).freq /\ cut[i] * f \in Nat
        /\ s = since[i] + cut[i] * f /\ now <= s + 2 * f
  BY <1>3, NotOver
<1>5. since[i] \in Nat
  BY <1>2, <1>3
<1>6. K[i] = since[i] + (cut[i] + 1) * f
  BY <1>1, <1>3, <1>4 DEF Counted, CutShort
<1>7. (cut[i] + 1) * f = cut[i] * f + f
  BY <1>2, <1>4, Adding
<1>8. K[i] = s + f
  BY <1>4, <1>5, <1>6, <1>7
<1>9. PICK p, b : p = Plan(tbl[i], now) /\ b = DayStart(now)
  OBVIOUS
<1>10. Running(p, b, now)
  BY <1>2, <1>9, EligibleRuns
<1>11. InitDelay(p, now) \in 1 .. f
  BY <1>4, <1>9, <1>10, FirstTime
<1>12. now + InitDelay(p, now) <= (s + f) + 2 * f
  BY <1>2, <1>4, <1>11
<1> QED
  BY <1>4, <1>8, <1>9, <1>12 DEF InTime

\* A sample starts the wait anew; the other rows are counted as before.
LEMMA SampledCounted ==
    ASSUME CollectInv, WaitInv, NEW C, C = Counted(since, cut, table, now),
           NEW K, K = Counted(Sampled, Uncut, table, now),
           NEW i \in Indices, Sampled[i] # NULL
    PROVE  /\ since[i] # NULL /\ Eligible(table[i], now)
           /\ C[i] \in Nat /\ C[i] # NULL /\ K[i] # NULL
           /\ InTurn(i) => K[i] = now
           /\ ~InTurn(i) => K[i] = C[i]
<1>1. now \in Nat /\ NULL \notin Nat
  BY CollectAssumption DEF CollectInv, TypeOK
<1>2. since[i] # NULL
  BY DEF Sampled
<1>3. PICK f \in Nat \ {0} :
        /\ f = Plan(table[i], now).freq /\ Eligible(table[i], now)
        /\ C[i] \in Nat /\ C[i] # NULL
  BY <1>2, NotOver
<1>4. CASE InTurn(i)
  <2>1. Sampled[i] = now /\ Uncut[i] = 0
    BY <1>2, <1>4 DEF Sampled, Uncut
  <2>2. K[i] = now + 0 * f
    BY <1>1, <1>3, <2>1 DEF Counted
  <2>3. K[i] = now
    BY <1>1, <1>3, <2>2
  <2> QED
    BY <1>1, <1>2, <1>3, <1>4, <2>3
<1>5. CASE ~InTurn(i)
  <2>1. Sampled[i] = since[i] /\ Uncut[i] = cut[i]
    BY <1>5 DEF Sampled, Uncut
  <2>2. K[i] = C[i]
    BY <2>1 DEF Counted
  <2> QED
    BY <1>2, <1>3, <1>5, <2>2
<1> QED
  BY <1>4, <1>5

\* A list is replaced at an alarm for samples: the rows that were taken, and the
\* ones that were not, will be sampled in time.
LEMMA SampledKnown ==
    ASSUME CollectInv, WaitInv, collectAlarm = now
    PROVE  Timely(Counted(Sampled, Uncut, table, now), table, now)
<1>1. /\ now \in Nat /\ formed \in Nat /\ Nodes(gpstHeadList)
      /\ table \in [Indices -> Contents \cup {NULL}]
      /\ since \in [Indices -> (0 .. now) \cup {NULL}]
  BY DEF CollectInv, TypeOK, Nodes
<1> DEFINE C == Counted(since, cut, table, now)
           K == Counted(Sampled, Uncut, table, now)
<1> SUFFICES ASSUME NEW i \in Indices, K[i] # NULL, Eligible(table[i], now)
             PROVE  InTime(Plan(table[i], now), DayStart(now), now, K[i])
  BY DEF Timely
<1>2. /\ C[i] \in Nat /\ C[i] # NULL
      /\ InTurn(i) => K[i] = now
      /\ ~InTurn(i) => K[i] = C[i]
  <2>1. Sampled[i] # NULL
    BY DEF Counted
  <2> QED
    BY <2>1, SampledCounted
<1>3. PICK p, b : p = Plan(table[i], now) /\ b = DayStart(now)
  OBVIOUS
<1>4. gpstHeadList # {} /\ Waiting(i, p, b, formed, gpstHeadList, C[i])
  BY <1>2, <1>3 DEF WaitInv, AllWaiting
<1> HIDE DEF C, K
<1>5. Running(p, b, now)
  BY <1>1, <1>3, EligibleRuns
<1>6. now = formed + First(gpstHeadList)
  BY <1>4 DEF CollectInv, AlarmForNextNode
<1>7. /\ First(gpstHeadList) \in Nat
      /\ \E node \in gpstHeadList : node.interval = First(gpstHeadList)
      /\ \A node \in gpstHeadList : First(gpstHeadList) <= node.interval
  BY <1>1, <1>4, FirstNode
<1>8. /\ InitDelay(p, now) \in 1 .. p.freq /\ p.freq \in Nat \ {0}
      /\ p.start \in Nat /\ b \in Int
  BY <1>5, FirstTime DEF Running
<1>9. CASE InTurn(i)
  <2>1. K[i] = now
    BY <1>2, <1>9
  <2>2. now + InitDelay(p, now) <= now + 2 * p.freq
    BY <1>1, <1>8
  <2> QED
    BY <1>3, <2>1, <2>2 DEF InTime
<1>10. CASE ~InTurn(i)
  <2>1. PICK s \in Nat : s = C[i] /\ s = K[i]
    BY <1>2, <1>10
  <2>2. Chain(i, p, b, formed, gpstHeadList)
    BY <1>4 DEF Waiting
  <2>3. ASSUME NEW x \in Int, now < x, OnTime(p, b, x), x <= s + 2 * p.freq
        PROVE  InTime(p, b, now, s)
    <3>1. now + InitDelay(p, now) <= x
      BY <1>5, <2>3, FirstTime
    <3> QED
      BY <1>1, <1>8, <2>3, <3>1 DEF InTime
  <2>4. ASSUME NEW node \in gpstHeadList, node.index = i,
               formed + node.interval <= s + 2 * p.freq
        PROVE  InTime(p, b, now, s)
    <3>1. node.interval # First(gpstHeadList)
      BY <1>10, <2>4 DEF InTurn, ThisSecond
    <3>2. OnTime(p, b, formed + node.interval)
      BY <2>2, <2>4 DEF Chain
    <3>3. node.interval \in Nat
      BY <1>1 DEF Nodes
    <3>4. formed + node.interval \in Int /\ now < formed + node.interval
      BY <1>1, <1>6, <1>7, <3>1, <3>3
    <3> QED
      BY <2>3, <2>4, <3>2, <3>4
  <2>5. ASSUME OnTime(p, b, s), s + 2 * p.freq >= b + p.end
        PROVE  InTime(p, b, now, s)
    BY <2>5 DEF InTime
  <2>6. ASSUME OnTime(p, b, s),
               \A m \in gpstHeadList : formed + m.interval < s + 2 * p.freq
        PROVE  InTime(p, b, now, s)
    <3>1. now < s + 2 * p.freq
      BY <1>6, <1>7, <2>6
    <3>2. OnTime(p, b, s + 2 * p.freq)
      BY <1>8, <2>6, TimesGoOn
    <3>3. s + 2 * p.freq \in Int /\ s + 2 * p.freq <= s + 2 * p.freq
      BY <1>8
    <3> QED
      BY <2>3, <3>1, <3>2, <3>3
  <2>7. Awaited(i, p, b, formed, gpstHeadList, s)
    BY <1>4, <2>1 DEF Waiting
  <2> QED
    BY <1>3, <2>1, <2>4, <2>5, <2>6, <2>7 DEF Awaited, Closing
<1> QED
  BY <1>9, <1>10

-----------------------------------------------------------------------------
(* The other steps.                                                        *)

\* A row is no longer waited for: the others are not disturbed.
LEMMA LessWaiting ==
    ASSUME NEW list, NEW times, NEW tbl, NEW t, NEW start,
           AllWaiting(list, times, tbl, t, start), NEW fewer, NEW tbl2,
           \A j \in Indices : fewer[j] # NULL
               => fewer[j] = times[j] /\ tbl2[j] = tbl[j]
    PROVE  AllWaiting(list, fewer, tbl2, t, start)
  BY DEF AllWaiting

\* The samples of this second are taken off the list.
LEMMA TakenWaits ==
    ASSUME CollectInv, WaitInv, CollectAndWait
    PROVE  WaitInv'
<1>1. PICK list, later : list = gpstHeadList /\ later = Later
  OBVIOUS
<1>2. /\ UNCHANGED <<now, table, formed>>
      /\ collectAlarm = now /\ later # {} /\ gpstHeadList' = later
      /\ since' = Sampled /\ cut' = Uncut
  BY <1>1 DEF CollectAndWait
<1>3. /\ now \in Nat /\ formed \in Nat /\ Nodes(list)
      /\ table \in [Indices -> Contents \cup {NULL}]
  BY <1>1 DEF CollectInv, TypeOK, Nodes
<1>4. /\ later = {node \in list : node.interval # First(list)}
      /\ ThisSecond = {node \in list : node.interval = First(list)}
      /\ list # {}
  BY <1>1, <1>2 DEF Later, ThisSecond
<1>5. /\ First(list) \in Nat
      /\ \A node \in list : First(list) <= node.interval
  BY <1>3, <1>4, FirstNode
<1>6. now = formed + First(list)
  BY <1>1, <1>2, <1>4 DEF CollectInv, AlarmForNextNode
<1> DEFINE C == Counted(since, cut, table, now)
           K == Counted(Sampled, Uncut, table, now)
<1>7. ASSUME NEW i \in Indices, Sampled[i] # NULL
      PROVE  /\ Eligible(table[i], now)
             /\ Waiting(i, Plan(table[i], now), DayStart(now), formed, later,
                        K[i])
  <2>1. /\ C[i] # NULL
        /\ InTurn(i) => K[i] = now
        /\ ~InTurn(i) => K[i] = C[i]
    BY <1>7, SampledCounted
  <2>2. PICK p, b : p = Plan(table[i], now) /\ b = DayStart(now)
    OBVIOUS
  <2>3. Eligible(table[i], now) /\ Waiting(i, p, b, formed, list, C[i])
    BY <1>1, <2>1, <2>2 DEF WaitInv, AllWaiting
  <2> HIDE DEF C, K
  <2>4. p.freq \in Nat \ {0}
    BY <1>3, <2>2, <2>3, EligibleRuns DEF Running
  <2>5. Chain(i, p, b, formed, list) /\ Awaited(i, p, b, formed, list, C[i])
    BY <2>3 DEF Waiting
  <2>6. \A s : Closing(p, b, formed, list, s) => Closing(p, b, formed, later, s)
    BY <1>4 DEF Closing
  <2>7. ASSUME NEW node \in list, NEW m \in list,
               m.interval = node.interval + p.freq
        PROVE  m \in later
    <3>1. node.interval \in Nat /\ First(list) <= node.interval
      BY <1>3, <1>5 DEF Nodes
    <3>2. m.interval # First(list)
      BY <1>5, <2>4, <2>7, <3>1
    <3> QED
      BY <1>4, <3>2
  <2>8. Chain(i, p, b, formed, later)
    <3> SUFFICES ASSUME NEW node \in later, node.index = i
                 PROVE  /\ OnTime(p, b, formed + node.interval)
                        /\ \/ \E m \in later :
                                  /\ m.index = i
                                  /\ m.interval = node.interval + p.freq
                           \/ Closing(p, b, formed, later,
                                      formed + node.interval)
      BY DEF Chain
    <3>1. node \in list
      BY <1>4
    <3>2. /\ OnTime(p, b, formed + node.interval)
          /\ \/ \E m \in list : /\ m.index = i
                                /\ m.interval = node.interval + p.freq
             \/ Closing(p, b, formed, list, formed + node.interval)
      BY <2>5, <3>1 DEF Chain
    <3> QED
      BY <2>6, <2>7, <3>1, <3>2
  <2>9. Awaited(i, p, b, formed, later, K[i])
    <3>1. CASE InTurn(i)
      <4>1. PICK node \in list : node.index = i /\ node.interval = First(list)
        BY <1>4, <3>1 DEF InTurn
      <4>2. K[i] = now /\ now = formed + node.interval
        BY <1>6, <2>1, <3>1, <4>1
      <4>3. /\ OnTime(p, b, now)
            /\ \/ \E m \in list : /\ m.index = i
                                  /\ m.interval = node.interval + p.freq
               \/ Closing(p, b, formed, list, now)
        BY <2>5, <4>1, <4>2 DEF Chain
      <4>4. ASSUME NEW m \in list, m.index = i,
                   m.interval = node.interval + p.freq
            PROVE  Awaited(i, p, b, formed, later, now)
        <5>1. m \in later
          BY <2>7, <4>4
        <5>2. formed + m.interval <= now + 2 * p.freq
          BY <1>3, <1>5, <2>4, <4>1, <4>2, <4>4
        <5> QED
          BY <4>4, <5>1, <5>2 DEF Awaited
      <4>5. ASSUME Closing(p, b, formed, list, now)
            PROVE  Awaited(i, p, b, formed, later, now)
        BY <2>6, <4>3, <4>5 DEF Awaited
      <4> QED
        BY <4>2, <4>3, <4>4, <4>5
    <3>2. CASE ~InTurn(i)
      <4>1. K[i] = C[i]
        BY <2>1, <3>2
      <4>2. \A node \in list : node.index = i => node \in later
        BY <1>4, <3>2 DEF InTurn
      <4> QED
        BY <2>5, <2>6, <4>1, <4>2 DEF Awaited
    <3> QED
      BY <3>1, <3>2
  <2> QED
    BY <2>2, <2>3, <2>8, <2>9 DEF Waiting
<1>8. AllWaiting(later, K, table, now, formed)
  <2>1. \A i \in Indices : K[i] # NULL => Sampled[i] # NULL
    BY DEF Counted
  <2> QED
    BY <1>2, <1>7, <2>1 DEF AllWaiting
<1>9. AllWaiting(gpstHeadList', Counted(since', cut', table', now'), table',
                 now', formed')
  BY <1>2, <1>8
<1>10. InWindow(since', table', now')
  BY <1>2, <1>7 DEF InWindow
<1> QED
  BY <1>9, <1>10 DEF WaitInv

\* Time goes on.  A row that is still in its window has the plan of the same
\* day.
LEMMA TickWaits ==
    ASSUME CollectInv, WaitInv, Tick
    PROVE  WaitInv'
<1>1. /\ UNCHANGED <<table, gpstHeadList, formed>> /\ now' = now + 1
      /\ since' = [i \in Indices |->
                     IF Eligible(table[i], now + 1) THEN since[i] ELSE NULL]
      /\ cut' = cut
  BY DEF Tick
<1>2. now \in Nat /\ table \in [Indices -> Contents \cup {NULL}]
  BY DEF CollectInv, TypeOK
<1>3. PICK times : times = since'
  OBVIOUS
<1>4. ASSUME NEW i \in Indices, times[i] # NULL
      PROVE  /\ times[i] = since[i] /\ Eligible(table[i], now + 1)
             /\ Plan(table[i], now + 1) = Plan(table[i], now)
             /\ DayStart(now + 1) = DayStart(now)
  <2>1. times[i] = since[i] /\ Eligible(table[i], now + 1)
    BY <1>1, <1>3, <1>4
  <2>2. now + 1 \in Nat
    BY <1>2
  <2>3. CTime(now + 1) # 0
    <3>1. Running(Plan(table[i], now + 1), DayStart(now + 1), now + 1)
      BY <1>2, <2>1, <2>2, EligibleRuns
    <3> QED
      BY <3>1 DEF Running
  <2>4. CTime(now + 1) = CTime(now) + 1 /\ Today(now + 1) = Today(now)
    BY <1>2, <2>3, SameDay
  <2>5. CTime(now) \in Nat
    BY <1>2, CollectAssumption DEF CTime
  <2>6. DayStart(now + 1) = DayStart(now)
    BY <1>2, <2>4, <2>5 DEF DayStart
  <2> QED
    BY <2>1, <2>4, <2>6 DEF Plan
<1>5. PICK C, D : /\ C = Counted(since, cut, table, now)
                  /\ D = Counted(times, cut, table, now + 1)
  OBVIOUS
<1>6. \A i \in Indices : D[i] # NULL => times[i] # NULL /\ D[i] = C[i]
  BY <1>4, <1>5 DEF Counted
<1>7. gpstHeadList = {} => \A i \in Indices : C[i] = NULL
  BY <1>5 DEF WaitInv, AllWaiting
<1>8. AllWaiting(gpstHeadList, D, table, now + 1, formed)
  <2>1. ASSUME NEW i \in Indices, D[i] # NULL
        PROVE  /\ Eligible(table[i], now + 1)
               /\ Waiting(i, Plan(table[i], now + 1), DayStart(now + 1), formed,
                          gpstHeadList, D[i])
    BY <1>4, <1>5, <1>6, <2>1 DEF WaitInv, AllWaiting
  <2> QED
    BY <1>6, <1>7, <2>1 DEF AllWaiting
<1>9. AllWaiting(gpstHeadList', Counted(since', cut', table', now'), table',
                 now', formed')
  BY <1>1, <1>3, <1>5, <1>8
<1>10. InWindow(since', table', now')
  BY <1>1, <1>3, <1>4 DEF InWindow
<1> QED
  BY <1>9, <1>10 DEF WaitInv

\* The list of the start.
LEMMA StartWaits == Init => WaitInv
<1> SUFFICES ASSUME Init PROVE WaitInv
  OBVIOUS
<1>1. now \in Nat /\ table \in [Indices -> Contents \cup {NULL}]
  BY CollectAssumption DEF Init
<1>2. /\ gpstHeadList = Form_Linked_List(table, now) /\ formed = now
      /\ since = Tracked(NoneTracked, table, now)
  BY DEF Init, Track, Tracked
<1>3. PICK zero \in [Indices -> Nat] : zero = [i \in Indices |-> 0]
  OBVIOUS
<1>4. /\ NoneTracked \in [Indices -> (0 .. now) \cup {NULL}]
      /\ \A i \in Indices : NoneTracked[i] = NULL
  BY DEF NoneTracked
<1>5. cut = CutOf(NoneTracked, zero)
  BY <1>3, <1>4 DEF Init, CutOf
<1>6. PICK K : K = Counted(NoneTracked, zero, table, now)
  OBVIOUS
<1>7. Counted(since, cut, table, now) = Tracked(K, table, now)
  BY <1>1, <1>2, <1>4, <1>5, <1>6, CountedOn
<1>8. Timely(K, table, now)
  BY <1>4, <1>6 DEF Timely, Counted
<1>9. AllWaiting(gpstHeadList, Counted(since, cut, table, now), table, now, now)
  BY <1>1, <1>2, <1>7, <1>8, Formed
<1>10. InWindow(since, table, now)
  BY <1>2 DEF InWindow, Tracked
<1> QED
  BY <1>2, <1>9, <1>10 DEF WaitInv

\* Every step keeps the wait.
LEMMA WaitPreserved == CollectInv /\ WaitInv /\ [Next]_vars => WaitInv'
<1> SUFFICES ASSUME CollectInv, WaitInv, [Next]_vars PROVE WaitInv'
  OBVIOUS
<1>1. now \in Nat /\ table \in [Indices -> Contents \cup {NULL}]
  BY DEF CollectInv, TypeOK
<1>2. /\ since \in [Indices -> (0 .. now) \cup {NULL}]
      /\ cut \in [Indices -> Nat]
      /\ CutShort \in [Indices -> Nat]
  BY DEF CollectInv, TypeOK, CutShort
<1>3. ASSUME NEW i \in Indices, NEW row \in Contents \cup {NULL},
             SetWhileIdle(i, row)
      PROVE  WaitInv'
  <2>1. PICK tbl : tbl = table'
    OBVIOUS
  <2>2. PICK known : known = Untracked(i)
    OBVIOUS
  <2>3. now' = now /\ RTC_callback(tbl, known, CutShort)
    BY <1>3, <2>1, <2>2 DEF SetWhileIdle
  <2>4. tbl \in [Indices -> Contents \cup {NULL}]
    BY <1>1, <1>3, <2>1 DEF SetWhileIdle, SetRow
  <2>5. /\ known \in [Indices -> (0 .. now) \cup {NULL}]
        /\ \A j \in Indices : known[j] # NULL
               => known[j] = since[j] /\ tbl[j] = table[j]
    BY <1>1, <1>2, <1>3, <2>1, <2>2 DEF SetWhileIdle, SetRow, Untracked
  <2>6. Timely(Counted(known, CutShort, tbl, now), tbl, now)
    BY <2>4, <2>5, CutKnown
  <2> QED
    BY <1>1, <1>2, <2>1, <2>3, <2>4, <2>5, <2>6, CallbackWaits
<1>4. ASSUME NEW i \in Indices, NEW row \in Contents \cup {NULL},
             SetWhileCollecting(i, row) \/ SetUnsaved(i, row)
      PROVE  WaitInv'
  <2>1. /\ UNCHANGED <<now, gpstHeadList, formed>>
        /\ since' = [since EXCEPT ![i] = NULL]
        /\ table' = [table EXCEPT ![i] = row] /\ cut' = cut
    BY <1>4 DEF SetWhileCollecting, SetUnsaved, Untracked, SetRow
  <2>2. PICK times, tbl : times = since' /\ tbl = table'
    OBVIOUS
  <2>3. \A j \in Indices : times[j] # NULL
            => times[j] = since[j] /\ tbl[j] = table[j]
    BY <1>1, <1>2, <2>1, <2>2
  <2>4. PICK C, D : /\ C = Counted(since, cut, table, now)
                    /\ D = Counted(times, cut, tbl, now)
    OBVIOUS
  <2>5. \A j \in Indices : D[j] # NULL => D[j] = C[j] /\ tbl[j] = table[j]
    BY <2>3, <2>4 DEF Counted
  <2>6. AllWaiting(gpstHeadList, C, table, now, formed)
    BY <2>4 DEF WaitInv
  <2>7. AllWaiting(gpstHeadList, D, tbl, now, formed)
    BY <2>5, <2>6, LessWaiting
  <2>8. AllWaiting(gpstHeadList', Counted(since', cut', table', now'), table',
                   now', formed')
    BY <2>1, <2>2, <2>4, <2>7
  <2>9. InWindow(times, tbl, now)
    BY <2>3 DEF WaitInv, InWindow
  <2>10. InWindow(since', table', now')
    BY <2>1, <2>2, <2>9
  <2> QED
    BY <2>8, <2>10 DEF WaitInv
<1>5. CASE CallbackAlarm \/ OrphanedAlarm
  <2>1. UNCHANGED <<now, table>> /\ RTC_callback(table, since, CutShort)
    BY <1>5 DEF CallbackAlarm, OrphanedAlarm
  <2>2. PICK tbl, known : tbl = table /\ known = since
    OBVIOUS
  <2>3. Timely(Counted(known, CutShort, tbl, now), tbl, now)
    BY <1>1, <2>2, CutKnown
  <2> QED
    BY <1>1, <1>2, <2>1, <2>2, <2>3, CallbackWaits
<1>6. CASE CollectAfterChange \/ CollectLast
  <2>1. /\ UNCHANGED <<now, table>> /\ RTC_callback(table, Sampled, Uncut)
        /\ collectAlarm = now
    BY <1>6 DEF CollectAfterChange, CollectLast
  <2>2. PICK tbl, known, lists :
          tbl = table /\ known = Sampled /\ lists = Uncut
    OBVIOUS
  <2>3. Timely(Counted(known, lists, tbl, now), tbl, now)
    BY <2>1, <2>2, SampledKnown
  <2>4. /\ known \in [Indices -> (0 .. now) \cup {NULL}]
        /\ lists \in [Indices -> Nat]
    BY <1>1, <1>2, <2>2 DEF Sampled, Uncut
  <2> QED
    BY <1>1, <2>1, <2>2, <2>3, <2>4, CallbackWaits
<1>7. CASE CollectAndWait
  BY <1>7, TakenWaits
<1>8. CASE Tick
  BY <1>8, TickWaits
<1>9. CASE LogFileFails \/ UNCHANGED vars
  <2>1. UNCHANGED <<now, table, gpstHeadList, formed, since, cut>>
    BY <1>9 DEF LogFileFails, vars
  <2> QED
    BY <2>1 DEF WaitInv
<1> QED
  BY <1>3, <1>4, <1>5, <1>6, <1>7, <1>8, <1>9 DEF Next

\* The wait is never longer than two periods, and one for each list that was
\* cut short.
LEMMA WaitBounded == CollectInv /\ WaitInv => SampledInTime
<1> SUFFICES ASSUME CollectInv, WaitInv, NEW i \in Indices, since[i] # NULL
             PROVE  now - since[i] <= (2 + cut[i]) * Plan(table[i], now).freq
  BY DEF SampledInTime
<1>1. now \in Nat /\ since[i] \in Nat /\ cut[i] \in Nat
  BY DEF CollectInv, TypeOK
<1>2. PICK s \in Nat, f \in Nat \ {0} :
        /\ f = Plan(table[i], now).freq /\ cut[i] * f \in Nat
        /\ s = since[i] + cut[i] * f /\ now <= s + 2 * f
  BY NotOver
<1>3. (2 + cut[i]) * f = 2 * f + cut[i] * f
  BY <1>1, <1>2, Adding
<1>4. now - since[i] <= 2 * f + cut[i] * f
  BY <1>1, <1>2
<1> QED
  BY <1>2, <1>3, <1>4

\* A row in its window is sampled at least every second time its frequency
\* names, through all lists that are used up or replaced after a change; each
\* list that RTC_callback or a SET cuts short, when a log file could not be
\* opened, costs it at most one time more.  So it is as long as no list reaches
\* beyond the interval RTC_Calc_Num_Nodes_Interval chose for it.
THEOREM SampledOften == Spec => []SampledInTime
<1>1. Init => CollectInv /\ WaitInv
  BY Start, StartWaits
<1>2. CollectInv /\ WaitInv /\ [Next]_vars => (CollectInv /\ WaitInv)'
  BY Preserved, WaitPreserved
<1> QED
  BY <1>1, <1>2, WaitBounded, PTL DEF Spec

-----------------------------------------------------------------------------
(* The length of the list.                                                 *)

\* g adds up F over the subsets of a finite set, an element at a time, as the
\* fold of EstimateAll does.
Sums(g, F, D) ==
    \A s \in D :
        g[s] = IF s = {} THEN 0
               ELSE F[CHOOSE x \in s : TRUE] + g[s \ {CHOOSE x \in s : TRUE}]

\* There is such a function: it is built from the empty set on.
LEMMA SumDefined ==
    ASSUME NEW S, IsFiniteSet(S), NEW F \in [S -> Nat]
    PROVE  \E g \in [SUBSET S -> Nat] : Sums(g, F, SUBSET S)
<1> DEFINE Small(m) == {s \in SUBSET S : Cardinality(s) <= m}
           Built(m) == \E g \in [Small(m) -> Nat] : Sums(g, F, Small(m))
           Failed == {m \in Nat : ~Built(m)}
           e(s) == CHOOSE x \in s : TRUE
<1>1. \A s \in SUBSET S : IsFiniteSet(s) /\ Cardinality(s) \in Nat
                          /\ Cardinality(s) <= Cardinality(S)
  BY FS_Subset, FS_CardinalityType
<1>2. \A s \in SUBSET S : s # {} =>
        /\ e(s) \in S /\ s \ {e(s)} \in SUBSET S
        /\ Cardinality(s \ {e(s)}) = Cardinality(s) - 1
  <2> SUFFICES ASSUME NEW s \in SUBSET S, s # {}
               PROVE  /\ e(s) \in s
                      /\ Cardinality(s \ {e(s)}) = Cardinality(s) - 1
    OBVIOUS
  <2>1. e(s) \in s
    OBVIOUS
  <2> QED
    BY <1>1, <2>1, FS_RemoveElement
<1>3. \A s \in SUBSET S : Cardinality(s) = 0 <=> s = {}
  BY <1>1, FS_EmptySet
<1>4. Failed = {}
  <2> SUFFICES ASSUME Failed # {} PROVE FALSE
    OBVIOUS
  <2>1. PICK m \in Failed : \A y \in Failed : ~(<<y, m>> \in OpToRel(<, Nat))
    BY NatLessThanWellFounded, WFMin
  <2>2. \A y \in Failed : ~(y < m)
    BY <2>1 DEF OpToRel
  <2>3. m \in Nat /\ ~Built(m)
    BY <2>1
  <2>4. \A k \in Nat : k \notin Failed => Built(k)
    OBVIOUS
  <2> HIDE DEF Failed
  <2>5. CASE m = 0
    <3> DEFINE g == [s \in Small(0) |-> 0]
    <3>1. \A s \in Small(0) : s = {}
      BY <1>1, <1>3
    <3>2. g \in [Small(0) -> Nat] /\ Sums(g, F, Small(0))
      BY <3>1 DEF Sums
    <3>3. Built(0)
      BY <3>2
    <3> QED
      BY <2>3, <2>5, <3>3
  <2>6. CASE m # 0
    <3>1. m - 1 \in Nat /\ m - 1 < m
      BY <2>3, <2>6
    <3>2. Built(m - 1)
      BY <2>2, <2>4, <3>1
    <3>3. PICK h \in [Small(m - 1) -> Nat] : Sums(h, F, Small(m - 1))
      BY <3>2
    <3> DEFINE g == [s \in Small(m) |->
                       IF s = {} THEN 0 ELSE F[e(s)] + h[s \ {e(s)}]]
    <3>4. \A s \in Small(m) : s # {} => s \ {e(s)} \in Small(m - 1)
      BY <1>1, <1>2, <2>3
    <3>5. g \in [Small(m) -> Nat]
      BY <1>2, <3>3, <3>4
    <3>6. \A s \in Small(m - 1) : s \in Small(m) /\ g[s] = h[s]
      <4> SUFFICES ASSUME NEW s \in Small(m - 1)
                   PROVE  s \in Small(m) /\ g[s] = h[s]
        OBVIOUS
      <4>1. s \in Small(m)
        BY <1>1, <2>3
      <4>2. h[s] = IF s = {} THEN 0 ELSE F[e(s)] + h[s \ {e(s)}]
        BY <3>3 DEF Sums
      <4> QED
        BY <4>1, <4>2
    <3>7. \A s \in Small(m) : g[s] = IF s = {} THEN 0
                                     ELSE F[e(s)] + g[s \ {e(s)}]
      <4> SUFFICES ASSUME NEW s \in Small(m)
                   PROVE  g[s] = IF s = {} THEN 0 ELSE F[e(s)] + g[s \ {e(s)}]
        OBVIOUS
      <4>1. g[s] = IF s = {} THEN 0 ELSE F[e(s)] + h[s \ {e(s)}]
        OBVIOUS
      <4> HIDE DEF g
      <4> QED
        BY <3>4, <3>6, <4>1
    <3>8. Sums(g, F, Small(m))
      BY <3>7 DEF Sums
    <3> QED
      BY <2>3, <3>5, <3>8
  <2> QED
    BY <2>5, <2>6
<1>5. Cardinality(S) \in Nat
  BY FS_CardinalityType
<1>6. Built(Cardinality(S))
  BY <1>4, <1>5
<1>7. Small(Cardinality(S)) = SUBSET S
  BY <1>1
<1> QED
  BY <1>6, <1>7

\* The sets N[i] have at most an element more than F[i].
OneMore(N, F, S) ==
    \A i \in S : IsFiniteSet(N[i]) /\ Cardinality(N[i]) <= F[i] + 1

All(N, S) == UNION {N[i] : i \in S}

\* Then their union has at most as many more as there are sets.
LEMMA SumBounds ==
    ASSUME NEW S, IsFiniteSet(S), NEW F \in [S -> Nat], NEW N,
           NEW g, Sums(g, F, SUBSET S),
           OneMore(N, F, S)
    PROVE  /\ g[S] \in Nat /\ IsFiniteSet(All(N, S))
           /\ Cardinality(All(N, S)) <= g[S] + Cardinality(S)
           /\ (\A i \in S : F[i] <= 1) => g[S] <= Cardinality(S)
<1> DEFINE U(s) == All(N, s)
           P(s) == /\ g[s] \in Nat /\ IsFiniteSet(U(s))
                   /\ Cardinality(U(s)) <= g[s] + Cardinality(s)
                   /\ (\A i \in S : F[i] <= 1) => g[s] <= Cardinality(s)
           Bad == {k \in Nat : \E s \in SUBSET S : Cardinality(s) = k /\ ~P(s)}
<1>1. \A s \in SUBSET S : IsFiniteSet(s) /\ Cardinality(s) \in Nat
  BY FS_Subset, FS_CardinalityType
<1>2. Bad = {}
  <2> SUFFICES ASSUME Bad # {} PROVE FALSE
    OBVIOUS
  <2>1. PICK m \in Bad : \A y \in Bad : ~(<<y, m>> \in OpToRel(<, Nat))
    BY NatLessThanWellFounded, WFMin
  <2>2. \A y \in Bad : ~(y < m)
    BY <2>1 DEF OpToRel
  <2>3. PICK s \in SUBSET S : Cardinality(s) = m /\ ~P(s) /\ m \in Nat
    BY <2>1
  <2>4. \A r \in SUBSET S : Cardinality(r) < m => P(r)
    <3> SUFFICES ASSUME NEW r \in SUBSET S, Cardinality(r) < m, ~P(r)
                 PROVE  FALSE
      OBVIOUS
    <3>1. Cardinality(r) \in Bad
      BY <1>1
    <3> QED
      BY <2>2, <3>1
  <2> HIDE DEF Bad
  <2>5. CASE s = {}
    <3>1. U(s) = {} /\ g[s] = 0
      BY <2>5 DEF Sums, All
    <3>2. /\ IsFiniteSet(U(s)) /\ Cardinality(U(s)) = 0
          /\ Cardinality(s) = 0
      BY <2>5, <3>1, FS_EmptySet
    <3> HIDE DEF U
    <3>3. P(s)
      BY <3>1, <3>2
    <3> QED
      BY <2>3, <3>3
  <2>6. CASE s # {}
    <3> DEFINE x == CHOOSE y \in s : TRUE
               r == s \ {x}
    <3>1. x \in s /\ x \in S /\ r \in SUBSET S
      BY <2>6
    <3>2. g[s] = F[x] + g[r]
      BY <2>6 DEF Sums
    <3> HIDE DEF x
    <3>3. Cardinality(r) = m - 1
      BY <1>1, <2>3, <3>1, FS_RemoveElement
    <3>4. P(r)
      <4> HIDE DEF P, r
      <4> QED
        BY <2>3, <2>4, <3>1, <3>3
    <3>5. U(s) = U(r) \cup N[x]
      BY <3>1 DEF All
    <3>6. IsFiniteSet(N[x]) /\ Cardinality(N[x]) <= F[x] + 1
      BY <3>1 DEF OneMore
    <3>7. /\ IsFiniteSet(U(s))
          /\ Cardinality(U(s)) = Cardinality(U(r)) + Cardinality(N[x])
                                 - Cardinality(U(r) \cap N[x])
      <4>1. PICK A : A = U(r) /\ IsFiniteSet(A)
        BY <3>4
      <4>2. PICK B : B = N[x] /\ IsFiniteSet(B)
        BY <3>6
      <4>3. /\ IsFiniteSet(A \cup B)
            /\ Cardinality(A \cup B) = Cardinality(A) + Cardinality(B)
                                        - Cardinality(A \cap B)
        BY <4>1, <4>2, FS_Union
      <4> HIDE DEF U, P, r
      <4> QED
        BY <3>5, <4>1, <4>2, <4>3
    <3>8. /\ Cardinality(U(r)) \in Nat /\ Cardinality(N[x]) \in Nat
          /\ Cardinality(U(r) \cap N[x]) \in Nat
      BY <3>4, <3>6, FS_CardinalityType, FS_Intersection
    <3>9. F[x] \in Nat /\ Cardinality(N[x]) <= F[x] + 1
      BY <3>1, <3>6
    <3> HIDE DEF r, U
    <3>10. P(s)
      BY <2>3, <3>1, <3>2, <3>3, <3>4, <3>7, <3>8, <3>9
    <3> QED
      BY <2>3, <3>10
  <2> QED
    BY <2>5, <2>6
<1>3. P(S)
  BY <1>1, <1>2
<1> QED
  BY <1>3

\* EstimateAll is such a sum.
Estimates(F, tbl, t, n) ==
    \A i \in EligibleRows(tbl, t) : F[i] = Estimate(Plan(tbl[i], t), t, n)

LEMMA EstimateIsSum ==
    ASSUME NEW tbl, NEW t, NEW n, NEW S, S = EligibleRows(tbl, t),
           IsFiniteSet(S), NEW F \in [S -> Nat], Estimates(F, tbl, t, n)
    PROVE  \E g : Sums(g, F, SUBSET S) /\ g[S] = EstimateAll(tbl, t, n)
<1> DEFINE E(i) == Estimate(Plan(tbl[i], t), t, n)
           e(s) == CHOOSE x \in s : TRUE
           Summed(g) == g = [s \in SUBSET S |->
                               IF s = {} THEN 0 ELSE E(e(s)) + g[s \ {e(s)}]]
<1>1. \A s \in SUBSET S : s # {} => e(s) \in S /\ F[e(s)] = E(e(s))
  <2> SUFFICES ASSUME NEW s \in SUBSET S, s # {}
               PROVE  e(s) \in S /\ F[e(s)] = E(e(s))
    OBVIOUS
  <2>1. e(s) \in s
    OBVIOUS
  <2> QED
    BY <2>1 DEF Estimates
<1>2. PICK g \in [SUBSET S -> Nat] : Sums(g, F, SUBSET S)
  BY SumDefined
<1>3. Summed(g)
  <2> HIDE DEF E
  <2>1. \A s \in SUBSET S : g[s] = IF s = {} THEN 0
                                   ELSE E(e(s)) + g[s \ {e(s)}]
    BY <1>1, <1>2 DEF Sums
  <2> QED
    BY <2>1
<1>4. PICK h : Summed(h) /\ h[S] = EstimateAll(tbl, t, n)
  <2>1. EstimateAll(tbl, t, n) = (CHOOSE h : Summed(h))[S]
    BY DEF EstimateAll, MapThenSumSet, MapThenFoldSet
  <2> HIDE DEF Summed
  <2> QED
    BY <1>3, <2>1
<1>5. Sums(h, F, SUBSET S)
  <2> HIDE DEF E
  <2>1. \A s \in SUBSET S : h[s] = IF s = {} THEN 0
                                   ELSE E(e(s)) + h[s \ {e(s)}]
    BY <1>4
  <2> QED
    BY <1>1, <2>1 DEF Sums
<1> QED
  BY <1>4, <1>5

\* The nodes with the numbers 0 and 1 .. c - 1.
Numbered(d, f, i, c) ==
    {[interval |-> d + k * f, index |-> i] : k \in {0} \cup 1 .. c - 1}

\* They are not more than there are numbers.
LEMMA NodesCounted ==
    ASSUME NEW d, NEW f, NEW i, NEW c \in Nat
    PROVE  /\ IsFiniteSet(Numbered(d, f, i, c))
           /\ Cardinality(Numbered(d, f, i, c)) <= IF c = 0 THEN 1 ELSE c
<1> DEFINE K == {0} \cup 1 .. c - 1
           T == Numbered(d, f, i, c)
           m == IF c = 0 THEN 1 ELSE c
           h == [k \in K |-> [interval |-> d + k * f, index |-> i]]
<1>1. IsFiniteSet(0 .. m - 1) /\ Cardinality(0 .. m - 1) = m
  <2>1. 0 \in Int /\ m - 1 \in Int /\ ~(0 > m - 1) /\ (m - 1) - 0 + 1 = m
    OBVIOUS
  <2> HIDE DEF m
  <2> QED
    BY <2>1, FS_Interval
<1>2. K = 0 .. m - 1
  OBVIOUS
<1>3. h \in Surjection(K, T)
  BY DEF Surjection, Numbered
<1> HIDE DEF K, T, h, m
<1>4. IsFiniteSet(T) /\ Cardinality(T) <= Cardinality(K)
  BY <1>1, <1>2, <1>3, FS_Surjection
<1>5. Cardinality(K) = m
  BY <1>1, <1>2
<1>6. IsFiniteSet(T) /\ Cardinality(T) <= m
  BY <1>4, <1>5
<1> QED
  BY <1>6 DEF T, m

\* A quotient is small when the dividend is.
LEMMA QuotientBound ==
    ASSUME NEW a \in Nat, NEW f \in Nat \ {0}, NEW k \in Nat, a < k * f + f
    PROVE  a \div f \in Nat /\ a \div f <= k
<1>1. PICK q \in Nat, r \in 0 .. f - 1 : q = a \div f /\ a = q * f + r
  BY Division
<1>2. q * f \in Nat /\ k * f \in Nat
  BY <1>1
<1>3. k < q => k * f + f <= q * f
  BY <1>1, Multiples
<1>4. ~(k < q)
  BY <1>1, <1>2, <1>3
<1> QED
  BY <1>1, <1>4

\* The nodes of a row are at most one more than RTC_Calc_Num_Nodes_Interval
\* estimates: the first time is added in any case.  In an interval of a second
\* there are at most two, the second when the window ends with it.
LEMMA RowLength ==
    ASSUME NEW p, NEW b, NEW t, Running(p, b, t), NEW n \in Nat, NEW i
    PROVE  /\ Estimate(p, t, n) \in Nat
           /\ IsFiniteSet(NodesOf(i, p, t, n))
           /\ Cardinality(NodesOf(i, p, t, n)) <= Estimate(p, t, n) + 1
           /\ n <= 1 => Cardinality(NodesOf(i, p, t, n)) <= 2
<1>1. PICK f \in Nat \ {0} : f = p.freq
  BY DEF Running
<1>2. PICK end \in Nat : end = p.end
  BY DEF Running
<1>3. PICK C \in Nat : C = CTime(t) /\ C < end
  BY <1>2 DEF Running
<1>4. PICK D \in 1 .. f : D = InitDelay(p, t)
  BY <1>1, DelayType DEF Running
<1>5. PICK A \in Nat : A = C + D /\ A = ASTime(p, t)
  BY <1>3, <1>4 DEF ASTime
<1>6. PICK c : c = IF end > n + A THEN n \div f ELSE (end - C) \div f
  OBVIOUS
<1>7. PICK E : E = IF A > end THEN 0
                   ELSE IF end > n + A THEN 1 + n \div f
                   ELSE 1 + (end - A) \div f
  OBVIOUS
<1>8. E = Estimate(p, t, n)
  BY <1>1, <1>2, <1>5, <1>7 DEF Estimate
<1>9. NodesOf(i, p, t, n) = Numbered(D, f, i, c)
  BY <1>1, <1>2, <1>3, <1>4, <1>5, <1>6 DEF NodesOf, Numbered
<1> DEFINE m == IF c = 0 THEN 1 ELSE c
<1>10. c \in Nat /\ E \in Nat /\ m <= E + 1 /\ (n <= 1 => m <= 2)
  <2>1. CASE end > n + A
    <3>1. c = n \div f /\ E = 1 + n \div f
      BY <1>6, <1>7, <2>1, <1>5
    <3>2. n \div f \in Nat
      BY <1>1
    <3>3. n <= 1 => n \div f <= 1
      <4>1. 1 * f = f
        BY <1>1
      <4>2. n <= 1 => n < 1 * f + f
        BY <1>1, <4>1
      <4> QED
        BY <4>2, QuotientBound
    <3>4. PICK q \in Nat : q = n \div f
      BY <3>2
    <3> QED
      BY <3>1, <3>3, <3>4
  <2>2. CASE ~(end > n + A) /\ A > end
    <3>1. PICK a \in Nat : a = end - C
      BY <1>3
    <3>2. a < 0 * f + f
      BY <1>4, <1>5, <2>2, <3>1
    <3>3. a \div f = 0
      BY <3>2, QuotientBound
    <3> QED
      BY <1>6, <1>7, <2>2, <3>1, <3>3
  <2>3. CASE ~(end > n + A) /\ ~(A > end)
    <3>1. PICK x \in Nat : x = end - A /\ x <= n
      BY <1>5, <2>3
    <3>2. PICK a \in Nat : a = end - C /\ a = x + D
      BY <1>3, <1>5, <3>1
    <3>3. PICK q \in Nat, r \in 0 .. f - 1 : q = x \div f /\ x = q * f + r
      BY <3>1, Division
    <3>4. c = a \div f /\ E = 1 + q
      BY <1>6, <1>7, <2>3, <3>1, <3>2, <3>3
    <3>5. q * f \in Nat /\ (q + 1) * f = q * f + f
      BY <3>3
    <3>6. PICK k \in Nat : k = q + 1
      BY <3>3
    <3>7. a < k * f + f
      BY <1>4, <3>2, <3>3, <3>5, <3>6
    <3>8. a \div f \in Nat /\ a \div f <= k
      BY <3>7, QuotientBound
    <3>9. n <= 1 => a \div f <= 2
      <4>1. 2 * f = f + f
        BY <1>1
      <4>2. n <= 1 => a < 2 * f + f
        BY <1>1, <1>4, <3>1, <3>2, <4>1
      <4> QED
        BY <4>2, QuotientBound
    <3>10. PICK y \in Nat : y = a \div f
      BY <3>8
    <3> QED
      BY <3>4, <3>6, <3>8, <3>9, <3>10
  <2> QED
    BY <2>1, <2>2, <2>3
<1> HIDE DEF m
<1>11. /\ IsFiniteSet(NodesOf(i, p, t, n))
       /\ Cardinality(NodesOf(i, p, t, n)) <= m
  BY <1>9, <1>10, NodesCounted DEF m
<1>12. Cardinality(NodesOf(i, p, t, n)) \in Nat
  BY <1>11, FS_CardinalityType
<1>13. m \in Nat
  BY <1>10 DEF m
<1> QED
  BY <1>8, <1>10, <1>11, <1>12, <1>13

\* How long a list may be: as long as allowed, with the first times of the rows
\* on top; or two nodes for each row, when its interval is a second.
Short(list) ==
    /\ IsFiniteSet(list)
    /\ \/ Cardinality(list) <= RTC_MAX_LIST_NODES + Cardinality(Indices)
       \/ Cardinality(list) <= 2 * Cardinality(Indices)

\* A new list is that short.
LEMMA NewListShort ==
    ASSUME NEW tbl \in [Indices -> Contents \cup {NULL}], NEW t \in Nat
    PROVE  Short(Form_Linked_List(tbl, t))
<1>1. PICK n \in Nat : /\ n = RTC_Calc_Num_Nodes_Interval(tbl, t)
                       /\ n <= 1 \/ EstimateAll(tbl, t, n) <= RTC_MAX_LIST_NODES
  BY IntervalType
<1>2. PICK S : S = EligibleRows(tbl, t)
  OBVIOUS
<1>3. /\ IsFiniteSet(Indices) /\ IsFiniteSet(S)
      /\ Cardinality(S) <= Cardinality(Indices)
  BY <1>2, CollectAssumption, FS_Subset DEF EligibleRows
<1>4. Cardinality(Indices) \in Nat /\ Cardinality(S) \in Nat
  BY <1>3, FS_CardinalityType
<1> DEFINE E(i) == Estimate(Plan(tbl[i], t), t, n)
           Of(i) == NodesOf(i, Plan(tbl[i], t), t, n)
           N == [i \in S |-> Of(i)]
<1>5. \A i \in S : /\ E(i) \in Nat /\ IsFiniteSet(Of(i))
                   /\ Cardinality(Of(i)) <= E(i) + 1
                   /\ n <= 1 => Cardinality(Of(i)) <= 2
  <2> SUFFICES ASSUME NEW i \in S
               PROVE  /\ E(i) \in Nat /\ IsFiniteSet(Of(i))
                      /\ Cardinality(Of(i)) <= E(i) + 1
                      /\ n <= 1 => Cardinality(Of(i)) <= 2
    OBVIOUS
  <2>1. Eligible(tbl[i], t) /\ tbl[i] \in Contents \cup {NULL}
    BY <1>2 DEF EligibleRows
  <2>2. Running(Plan(tbl[i], t), DayStart(t), t)
    BY <2>1, EligibleRuns
  <2> QED
    BY <2>2, RowLength
<1>6. Form_Linked_List(tbl, t) = All(N, S)
  BY <1>1, <1>2 DEF Form_Linked_List, All
<1> HIDE DEF E, Of
<1>7. \A i \in S : N[i] = Of(i)
  OBVIOUS
<1> HIDE DEF N
<1>8. CASE n <= 1
  <2>1. PICK F \in [S -> Nat] : F = [i \in S |-> 1]
    OBVIOUS
  <2>2. OneMore(N, F, S)
    BY <1>5, <1>7, <1>8, <2>1 DEF OneMore
  <2>3. PICK g : Sums(g, F, SUBSET S)
    BY <1>3, SumDefined
  <2>4. /\ g[S] \in Nat /\ IsFiniteSet(All(N, S)) 
        /\ g[S] <= Cardinality(S)
        /\ Cardinality(All(N, S)) <= g[S] + Cardinality(S)
    BY <1>3, <2>1, <2>2, <2>3, SumBounds
  <2>5. Cardinality(All(N, S)) \in Nat
    BY <2>4, FS_CardinalityType
  <2> QED
    BY <1>3, <1>4, <1>6, <2>4, <2>5 DEF Short
<1>9. CASE EstimateAll(tbl, t, n) <= RTC_MAX_LIST_NODES
  <2>1. PICK F \in [S -> Nat] : F = [i \in S |-> E(i)]
    BY <1>5
  <2>2. OneMore(N, F, S)
    BY <1>5, <1>7, <2>1 DEF OneMore
  <2>3. Estimates(F, tbl, t, n)
    BY <1>2, <2>1 DEF E, Estimates
  <2>4. PICK g : Sums(g, F, SUBSET S) /\ g[S] = EstimateAll(tbl, t, n)
    BY <1>2, <1>3, <2>3, EstimateIsSum
  <2>5. /\ g[S] \in Nat /\ IsFiniteSet(All(N, S))
        /\ Cardinality(All(N, S)) <= g[S] + Cardinality(S)
    BY <1>3, <2>2, <2>4, SumBounds
  <2>6. Cardinality(All(N, S)) \in Nat
    BY <2>5, FS_CardinalityType
  <2>7. g[S] <= RTC_MAX_LIST_NODES /\ RTC_MAX_LIST_NODES \in Nat
    BY <1>9, <2>4, CollectAssumption
  <2> QED
    BY <1>3, <1>4, <1>6, <2>5, <2>6, <2>7 DEF Short
<1> QED
  BY <1>1, <1>8, <1>9

\* A part of a list is as short.
LEMMA PartShort ==
    ASSUME NEW list, Short(list), NEW part \in SUBSET list
    PROVE  Short(part)
<1>1. IsFiniteSet(list) /\ IsFiniteSet(part)
  BY FS_Subset DEF Short
<1>2. Cardinality(part) <= Cardinality(list)
  BY <1>1, FS_Subset
<1>3. Cardinality(part) \in Nat /\ Cardinality(list) \in Nat
  BY <1>1, FS_CardinalityType
<1>4. Cardinality(Indices) \in Nat /\ RTC_MAX_LIST_NODES \in Nat
  BY CollectAssumption, FS_CardinalityType
<1> QED
  BY <1>1, <1>2, <1>3, <1>4 DEF Short

\* The list of the monitor stays short.
LengthInv == Short(gpstHeadList)

LEMMA StartShort == Init => LengthInv
<1> SUFFICES ASSUME Init PROVE LengthInv
  OBVIOUS
<1>1. table \in [Indices -> Contents \cup {NULL}] /\ now \in Nat
  BY CollectAssumption DEF Init
<1> QED
  BY <1>1, NewListShort DEF Init, LengthInv

LEMMA LengthPreserved ==
    TypeOK /\ TypeOK' /\ LengthInv /\ [Next]_vars => LengthInv'
<1> SUFFICES ASSUME TypeOK, TypeOK', LengthInv, [Next]_vars
             PROVE  LengthInv'
  OBVIOUS
<1>1. now \in Nat /\ table \in [Indices -> Contents \cup {NULL}]
      /\ table' \in [Indices -> Contents \cup {NULL}]
  BY DEF TypeOK
<1>2. Short(Form_Linked_List(table, now))
  BY <1>1, NewListShort
<1>3. PICK tbl \in [Indices -> Contents \cup {NULL}] : tbl = table'
  BY <1>1
<1>4. Short(Form_Linked_List(tbl, now))
  BY <1>1, <1>3, NewListShort
<1>5. CASE \E i \in Indices, row \in Contents \cup {NULL} : SetWhileIdle(i, row)
  BY <1>3, <1>4, <1>5 DEF SetWhileIdle, RTC_callback, LengthInv, Short
<1>6. CASE CallbackAlarm \/ OrphanedAlarm
  BY <1>2, <1>6 DEF CallbackAlarm, OrphanedAlarm, RTC_callback, LengthInv, Short
<1>7. CASE CollectAfterChange \/ CollectLast
  BY <1>2, <1>7
     DEF CollectAfterChange, CollectLast, RTC_callback, LengthInv, Short
<1>8. CASE CollectAndWait
  <2>1. gpstHeadList' \in SUBSET gpstHeadList
    BY <1>8 DEF CollectAndWait, Later
  <2>2. PICK part \in SUBSET gpstHeadList : part = gpstHeadList'
    BY <2>1
  <2>3. Short(part)
    BY <2>2, PartShort DEF LengthInv
  <2> QED
    BY <2>2, <2>3 DEF LengthInv, Short
<1>9. CASE UNCHANGED gpstHeadList
  BY <1>9 DEF LengthInv, Short
<1>10. \/ \E i \in Indices, row \in Contents \cup {NULL} : SetWhileIdle(i, row)
       \/ CallbackAlarm \/ OrphanedAlarm
       \/ CollectAfterChange \/ CollectLast \/ CollectAndWait
       \/ UNCHANGED gpstHeadList
  BY DEF Next, vars, SetWhileCollecting, SetUnsaved, LogFileFails, Tick
<1> QED
  BY <1>5, <1>6, <1>7, <1>8, <1>9, <1>10

\* A list is never much longer than RTC_MAX_LIST_NODES, through all changes,
\* failures and alarms.  The table may not have more rows than a list may have
\* nodes: otherwise no interval is short enough, and the source ignores the
\* limit when the interval is a second.
THEOREM ListsAreBounded ==
    ASSUME Cardinality(Indices) <= RTC_MAX_LIST_NODES
    PROVE  Spec => []ListBounded
<1>1. Init => CollectInv /\ LengthInv
  BY Start, StartShort
<1>2. CollectInv /\ LengthInv /\ [Next]_vars => (CollectInv /\ LengthInv)'
  <2> SUFFICES ASSUME CollectInv, LengthInv, [Next]_vars
               PROVE  CollectInv' /\ LengthInv'
    OBVIOUS
  <2>1. CollectInv'
    BY Preserved
  <2>2. TypeOK /\ TypeOK'
    BY <2>1 DEF CollectInv
  <2> QED
    BY <2>1, <2>2, LengthPreserved
<1>3. LengthInv => ListBounded
  <2>1. Cardinality(Indices) \in Nat /\ RTC_MAX_LIST_NODES \in Nat
    BY CollectAssumption, FS_CardinalityType
  <2> SUFFICES ASSUME LengthInv PROVE ListBounded
    OBVIOUS
  <2>2. Cardinality(gpstHeadList) \in Nat
    BY FS_CardinalityType DEF LengthInv, Short
  <2> QED
    BY <2>1, <2>2 DEF LengthInv, Short, ListBounded
<1> QED
  BY <1>1, <1>2, <1>3, PTL DEF Spec
=============================================================================
