--------------------------- MODULE TrapQueueProofs ---------------------------
(***************************************************************************)
(* For any number of slots, traps and copies of the queue: as long as the  *)
(* mutex protects the queue the processor never takes an empty slot, and   *)
(* the queue implements TrapFifo.                                          *)
(***************************************************************************)
EXTENDS TrapQueue, TLAPS

\* The daemon has started and the mutex protects the queue.
Covered == ppc # "off" /\ ~spoiled

\* What the threads have in hand: XX_ListenTrap its trap until it returns, the
\* processor a clone exactly while it parses it.
HandsInv ==
    /\ lpc # "idle" => trap \in Traps
    /\ clone # NULL <=> ppc = "parse"

\* The mutex is held by the thread that is between its lock and its unlock.
MutexInv ==
    Covered => /\ queue_lock = "listener" <=> InListenTrap
               /\ queue_lock = "processor" <=> ppc \in {"test", "take"}

\* What slot number i of the queue holds.
SlotContent(i) == queueEntry[(iQFront + i - 1) % MAX_ELEMENT]

\* There is room when the listener advances the rear and something to take when
\* the processor was woken or found the queue not empty; each slot between the
\* indices holds a trap.
SlotInv ==
    Covered => /\ lpc = "rear" => ~IsQueue_Full
               /\ lpc = "entry" => iQRear \in Slots
               /\ lpc \in {"entry", "signal"} => Occupied > 0
               /\ ppc \in {"woken", "relock", "take"} => Stored > 0
               /\ \A i \in 1 .. Stored :
                      SlotContent(i) \in Traps

\* The inductive invariant.
QueueInv == TypeOK /\ HandsInv /\ MutexInv /\ SlotInv /\ NeverTakesEmptySlot

-----------------------------------------------------------------------------
(* The arithmetic of the indices.                                          *)

\* The slot after s, and the one behind the rear: -1 counts like the last slot.
After(s) == IF s = MAX_ELEMENT - 1 THEN 0 ELSE s + 1

\* Slot number i of the queue when the front one is f.
SlotAt(f, i) == IF f + i - 1 < MAX_ELEMENT THEN f + i - 1
                ELSE f + i - 1 - MAX_ELEMENT

\* The slots from f up to, not including, b.
Between(f, b) == IF b >= f THEN b - f ELSE b - f + MAX_ELEMENT

\* What % gives for a number below three times the divisor.
LEMMA ModThree ==
    ASSUME NEW m \in Nat, m > 0, NEW a \in Nat, a < 3 * m
    PROVE  a % m = IF a < m THEN a ELSE IF a < 2 * m THEN a - m ELSE a - 2 * m
<1>1. CASE a < m
  BY <1>1
<1>2. CASE m <= a /\ a < 2 * m
  BY <1>2
<1>3. CASE 2 * m <= a
  BY <1>3
<1> QED
  BY <1>1, <1>2, <1>3

\* The index arithmetic of the code, with % written out.
LEMMA IndexArithmetic ==
    ASSUME NEW f \in Slots, NEW r \in Slots \cup {-1}
    PROVE  /\ After(r) \in Slots
           /\ (r + 1) % MAX_ELEMENT = After(r)
           /\ (r + 2) % MAX_ELEMENT = After(After(r))
           /\ (f + 1) % MAX_ELEMENT = After(f)
           /\ ((r + 1 - f) + MAX_ELEMENT) % MAX_ELEMENT = Between(f, After(r))
           /\ \A i \in 1 .. MAX_ELEMENT :
                  (f + i - 1) % MAX_ELEMENT = SlotAt(f, i)
<1> USE TrapQueueAssumption
<1>1. /\ r \in Int /\ r >= -1 /\ r <= MAX_ELEMENT - 1
      /\ f \in Nat /\ f < MAX_ELEMENT
  BY DEF Slots
<1>2. After(r) \in Slots
  BY <1>1 DEF After, Slots
<1>3. (r + 1) % MAX_ELEMENT = After(r) /\ (f + 1) % MAX_ELEMENT = After(f)
  BY <1>1, ModThree DEF After
<1>4. (r + 2) % MAX_ELEMENT = After(After(r))
  BY <1>1, ModThree DEF After
<1>5. ((r + 1 - f) + MAX_ELEMENT) % MAX_ELEMENT = Between(f, After(r))
  BY <1>1, ModThree DEF After, Between
<1>6. ASSUME NEW i \in 1 .. MAX_ELEMENT
      PROVE  (f + i - 1) % MAX_ELEMENT = SlotAt(f, i)
  BY <1>1, ModThree DEF SlotAt
<1> QED
  BY <1>2, <1>3, <1>4, <1>5, <1>6

\* How the slots between the indices change when the rear or the front moves
\* on, and which slot is the first and which the last of them.
LEMMA Moving ==
    ASSUME NEW f \in Slots, NEW b \in Slots
    PROVE  /\ Between(f, b) \in 0 .. MAX_ELEMENT - 1
           /\ Between(f, b) = 0 <=> b = f
           /\ Between(f, b) = MAX_ELEMENT - 1 <=> After(b) = f
           /\ After(b) # f => Between(f, After(b)) = Between(f, b) + 1
           /\ b # f => Between(After(f), b) = Between(f, b) - 1
           /\ SlotAt(f, 1) = f
           /\ Between(f, After(b)) > 0 => SlotAt(f, Between(f, After(b))) = b
<1> USE TrapQueueAssumption DEF Slots, Between, After, SlotAt
<1>1. /\ Between(f, b) \in 0 .. MAX_ELEMENT - 1
      /\ Between(f, b) = 0 <=> b = f
      /\ Between(f, b) = MAX_ELEMENT - 1 <=> After(b) = f
  OBVIOUS
<1>2. /\ After(b) # f => Between(f, After(b)) = Between(f, b) + 1
      /\ b # f => Between(After(f), b) = Between(f, b) - 1
  OBVIOUS
<1>3. /\ SlotAt(f, 1) = f
      /\ Between(f, After(b)) > 0 => SlotAt(f, Between(f, After(b))) = b
  OBVIOUS
<1> QED
  BY <1>1, <1>2, <1>3

\* The slots of the queue are distinct, and moving the front renumbers them.
LEMMA SlotsDistinct ==
    ASSUME NEW f \in Slots, NEW i \in 1 .. MAX_ELEMENT
    PROVE  /\ SlotAt(f, i) \in Slots
           /\ \A j \in 1 .. MAX_ELEMENT : SlotAt(f, i) = SlotAt(f, j) => i = j
           /\ i < MAX_ELEMENT => SlotAt(After(f), i) = SlotAt(f, i + 1)
  BY TrapQueueAssumption DEF Slots, After, SlotAt

\* The tests of the queue and the traps in it, with % written out, before and
\* after a step.
LEMMA QueueView ==
    ASSUME TypeOK, TypeOK'
    PROVE  /\ IsQueueEmpty <=> After(iQRear) = iQFront
           /\ IsQueue_Full <=> After(After(iQRear)) = iQFront
           /\ Occupied = Between(iQFront, After(iQRear))
           /\ Occupied' = Between(iQFront', After(iQRear'))
           /\ Occupied \in 0 .. MAX_ELEMENT - 1
           /\ Occupied' \in 0 .. MAX_ELEMENT - 1
           /\ \A i \in 1 .. MAX_ELEMENT :
                  /\ (iQFront + i - 1) % MAX_ELEMENT = SlotAt(iQFront, i)
                  /\ (iQFront' + i - 1) % MAX_ELEMENT = SlotAt(iQFront', i)
<1>1. /\ iQFront \in Slots /\ iQRear \in Slots \cup {-1}
      /\ iQFront' \in Slots /\ iQRear' \in Slots \cup {-1}
  BY DEF TypeOK
<1>2. /\ Occupied = Between(iQFront, After(iQRear))
      /\ Occupied' = Between(iQFront', After(iQRear'))
      /\ After(iQRear) \in Slots /\ After(iQRear') \in Slots
  BY <1>1, IndexArithmetic DEF Occupied
<1>3. Occupied \in 0 .. MAX_ELEMENT - 1 /\ Occupied' \in 0 .. MAX_ELEMENT - 1
  BY <1>1, <1>2, Moving
<1> QED
  BY <1>1, <1>2, <1>3, IndexArithmetic DEF IsQueueEmpty, IsQueue_Full

-----------------------------------------------------------------------------
\* The types hold at the start, and every step of a thread keeps them.
LEMMA TypeInductive ==
    /\ Init => TypeOK
    /\ TypeOK /\ [Next]_vars => TypeOK'
<1> USE TrapQueueAssumption
<1>1. ASSUME Init PROVE TypeOK
  <2>1. 0 \in Slots /\ queueEntry \in [Slots -> Traps \cup {NULL}]
    BY <1>1 DEF Init, Slots
  <2>2. spoiled \in BOOLEAN
    BY <1>1 DEF Init
  <2> QED
    BY <1>1, <2>1, <2>2 DEF Init, TypeOK
<1>2. ASSUME TypeOK, [Next]_vars PROVE TypeOK'
  <2> USE <1>2 DEF TypeOK, queueVars, listenerVars, processorVars
  <2>1. CASE InitCBuffer
    BY <2>1 DEF InitCBuffer, Slots
  <2>2. CASE \E t \in Traps : ReceiveTrap(t)
    BY <2>2 DEF ReceiveTrap
  <2>3. CASE ListenerLocks \/ QueueFull \/ QueueNotFull
    BY <2>3 DEF ListenerLocks, QueueFull, QueueNotFull
  <2>4. CASE AdvanceRear
    <3>1. iQRear' \in Slots
      BY <2>4, IndexArithmetic DEF AdvanceRear
    <3> QED
      BY <2>4, <3>1 DEF AdvanceRear
  <2>5. CASE StoreTrap
    BY <2>5 DEF StoreTrap
  <2>6. CASE SignalNotEmpty \/ ListenerUnlocks
    BY <2>6 DEF SignalNotEmpty, ListenerUnlocks
  <2>7. CASE ProcessorLocks \/ WaitNotEmpty \/ QueueNotEmpty
    BY <2>7 DEF ProcessorLocks, WaitNotEmpty, QueueNotEmpty
  <2>8. CASE WaitReturns \/ LocksAgain \/ ParseTrap
    BY <2>8 DEF WaitReturns, LocksAgain, ParseTrap
  <2>9. CASE TakeTrap
    <3>1. iQFront' \in Slots
      BY <2>9, IndexArithmetic DEF TakeTrap
    <3> QED
      BY <2>9, <3>1 DEF TakeTrap
  <2>10. CASE UNCHANGED vars
    BY <2>10 DEF vars
  <2> QED
    BY <2>1, <2>2, <2>3, <2>4, <2>5, <2>6, <2>7, <2>8, <2>9, <2>10
       DEF Next, ListenTrap, ProcessTrapMsg
<1> QED
  BY <1>1, <1>2

\* A thread only forgets its trap when it is done with it, and the mutex is only
\* locked and unlocked by the thread that is inside, until it is spoiled.
LEMMA MutexInductive ==
    /\ Init => HandsInv /\ MutexInv
    /\ TypeOK /\ HandsInv /\ MutexInv /\ [Next]_vars => HandsInv' /\ MutexInv'
<1> USE TrapQueueAssumption
<1>1. Init => HandsInv /\ MutexInv
  BY DEF Init, HandsInv, MutexInv, Covered
<1>2. ASSUME TypeOK, HandsInv, MutexInv, [Next]_vars
      PROVE  HandsInv' /\ MutexInv'
  <2> USE <1>2 DEF TypeOK, HandsInv, MutexInv, Covered, InListenTrap,
                   queueVars, listenerVars, processorVars
  <2>1. CASE InitCBuffer
    BY <2>1 DEF InitCBuffer
  <2>2. CASE \E t \in Traps : ReceiveTrap(t)
    BY <2>2 DEF ReceiveTrap
  <2>3. CASE ListenerLocks
    BY <2>3 DEF ListenerLocks
  <2>4. CASE QueueFull \/ QueueNotFull
    BY <2>4 DEF QueueFull, QueueNotFull
  <2>5. CASE AdvanceRear \/ StoreTrap \/ SignalNotEmpty \/ ListenerUnlocks
    BY <2>5 DEF AdvanceRear, StoreTrap, SignalNotEmpty, ListenerUnlocks
  <2>6. CASE ProcessorLocks \/ WaitNotEmpty \/ QueueNotEmpty
    BY <2>6 DEF ProcessorLocks, WaitNotEmpty, QueueNotEmpty
  <2>7. CASE WaitReturns \/ LocksAgain \/ ParseTrap
    BY <2>7 DEF WaitReturns, LocksAgain, ParseTrap
  <2>8. CASE TakeTrap
    BY <2>8 DEF TakeTrap
  <2>9. CASE UNCHANGED vars
    BY <2>9 DEF vars
  <2> QED
    BY <2>1, <2>2, <2>3, <2>4, <2>5, <2>6, <2>7, <2>8, <2>9
       DEF Next, ListenTrap, ProcessTrapMsg
<1> QED
  BY <1>1, <1>2

-----------------------------------------------------------------------------
(* What the three steps that touch the queue do to the traps in it.        *)

\* Advancing the rear reserves a slot and changes no trap.
LEMMA RearAdvances ==
    ASSUME QueueInv, TypeOK', Covered, AdvanceRear
    PROVE  /\ Occupied' = Occupied + 1 /\ Stored' = Stored
           /\ \A i \in 1 .. Stored : SlotContent(i)' = SlotContent(i)
           /\ iQRear' \in Slots
<1>1. /\ iQRear' = After(iQRear) /\ iQRear' \in Slots
      /\ iQFront' = iQFront /\ iQFront \in Slots
      /\ After(After(iQRear)) # iQFront
  BY QueueView, IndexArithmetic DEF QueueInv, TypeOK, SlotInv, AdvanceRear
<1>2. Occupied' = Occupied + 1
  BY <1>1, QueueView, Moving DEF QueueInv
<1>3. Stored' = Stored
  BY <1>2, QueueView DEF QueueInv, Stored, AdvanceRear
<1> QED
  BY <1>1, <1>2, <1>3 DEF AdvanceRear, SlotContent

\* Storing a trap puts it behind the others.
LEMMA TrapStored ==
    ASSUME QueueInv, TypeOK', Covered, StoreTrap
    PROVE  /\ Occupied' = Occupied /\ Stored' = Stored + 1
           /\ Stored \in Nat /\ Stored < MAX_ELEMENT - 1
           /\ SlotContent(Stored)' = trap
           /\ \A i \in 1 .. Stored : SlotContent(i)' = SlotContent(i)
<1> USE TrapQueueAssumption
<1>1. /\ iQRear' = iQRear /\ iQFront' = iQFront
      /\ iQRear \in Slots /\ iQFront \in Slots
      /\ lpc = "entry" /\ lpc' = "signal"
  BY DEF QueueInv, TypeOK, SlotInv, StoreTrap
<1>2. /\ Occupied \in 1 .. MAX_ELEMENT - 1
      /\ SlotAt(iQFront, Occupied) = iQRear
  BY <1>1, QueueView, Moving DEF QueueInv, SlotInv
<1>3. Occupied' = Occupied
  BY <1>1 DEF Occupied
<1>4. Stored = Occupied - 1 /\ Stored' = Occupied
  BY <1>1, <1>3 DEF Stored
<1>5. SlotContent(Stored)' = trap
  <2>1. SlotContent(Occupied)' = queueEntry'[iQRear]
    BY <1>1, <1>2, QueueView DEF SlotContent, QueueInv
  <2> QED
    BY <1>1, <1>2, <1>3, <1>4, <2>1 DEF StoreTrap
<1>6. ASSUME NEW i \in 1 .. Stored
      PROVE  SlotContent(i)' = SlotContent(i)
  <2>1. i \in 1 .. MAX_ELEMENT /\ Occupied \in 1 .. MAX_ELEMENT /\ i # Occupied
    BY <1>2, <1>4
  <2>2. SlotAt(iQFront, i) # iQRear /\ SlotAt(iQFront, i) \in Slots
    BY <1>1, <1>2, <2>1, SlotsDistinct
  <2>3. /\ SlotContent(i) = queueEntry[SlotAt(iQFront, i)]
        /\ SlotContent(i)' = queueEntry'[SlotAt(iQFront, i)]
    BY <1>1, <2>1, QueueView DEF SlotContent, QueueInv
  <2> QED
    BY <2>2, <2>3 DEF StoreTrap
<1> QED
  BY <1>2, <1>3, <1>4, <1>5, <1>6

\* Taking a trap takes the first one and moves the others up.
LEMMA TrapTaken ==
    ASSUME QueueInv, TypeOK', Covered, TakeTrap
    PROVE  /\ Stored > 0 /\ Stored \in Nat /\ Stored' = Stored - 1
           /\ clone' = SlotContent(1)
           /\ \A i \in 1 .. Stored - 1 : SlotContent(i)' = SlotContent(i + 1)
           /\ ~InListenTrap
<1> USE TrapQueueAssumption
<1>1. ppc = "take" /\ ~InListenTrap /\ lpc' = lpc
  BY DEF QueueInv, MutexInv, TakeTrap, listenerVars
<1>2. Stored = Occupied /\ Stored' = Occupied'
  BY <1>1 DEF Stored, InListenTrap
<1>3. Occupied \in 1 .. MAX_ELEMENT - 1
  BY <1>1, <1>2, QueueView DEF QueueInv, SlotInv
<1>4. /\ iQFront \in Slots /\ After(iQRear) \in Slots
      /\ iQFront' = After(iQFront) /\ iQRear' = iQRear
  BY IndexArithmetic DEF QueueInv, TypeOK, TakeTrap
<1>5. Occupied' = Occupied - 1
  BY <1>3, <1>4, QueueView, Moving DEF QueueInv
<1>6. clone' = SlotContent(1)
  <2>1. SlotContent(1) = queueEntry[iQFront]
    BY <1>4, QueueView, Moving DEF SlotContent, QueueInv
  <2> QED
    BY <2>1 DEF TakeTrap
<1>7. ASSUME NEW i \in 1 .. Stored - 1
      PROVE  SlotContent(i)' = SlotContent(i + 1)
  <2>1. /\ i \in 1 .. MAX_ELEMENT /\ i + 1 \in 1 .. MAX_ELEMENT
        /\ i < MAX_ELEMENT /\ 1 \in 1 .. MAX_ELEMENT /\ i + 1 # 1
    BY <1>2, <1>3
  <2>2. SlotAt(iQFront', i) = SlotAt(iQFront, i + 1)
    BY <1>4, <2>1, SlotsDistinct
  <2>3. /\ SlotAt(iQFront, i + 1) \in Slots
        /\ SlotAt(iQFront, i + 1) # iQFront
    BY <1>4, <2>1, SlotsDistinct, Moving
  <2>4. /\ SlotContent(i)' = queueEntry'[SlotAt(iQFront, i + 1)]
        /\ SlotContent(i + 1) = queueEntry[SlotAt(iQFront, i + 1)]
    BY <2>1, <2>2, QueueView DEF SlotContent, QueueInv
  <2> QED
    BY <2>3, <2>4 DEF TakeTrap, QueueInv, TypeOK
<1> QED
  BY <1>1, <1>2, <1>3, <1>5, <1>6, <1>7

-----------------------------------------------------------------------------
\* As long as the mutex protects the queue, the listener only stores where there
\* is room, a woken processor finds the trap it was woken for, and the slots
\* between the indices stay filled.
LEMMA SlotsInductive ==
    /\ Init => SlotInv /\ NeverTakesEmptySlot
    /\ QueueInv /\ TypeOK' /\ [Next]_vars => SlotInv' /\ NeverTakesEmptySlot'
<1> USE TrapQueueAssumption
<1>1. Init => SlotInv /\ NeverTakesEmptySlot
  BY DEF Init, SlotInv, Covered, NeverTakesEmptySlot
<1>2. ASSUME QueueInv, TypeOK', [Next]_vars
      PROVE  SlotInv' /\ NeverTakesEmptySlot'
  <2> USE <1>2 DEF QueueInv
  <2> DEFINE Full == \A i \in 1 .. Stored : SlotContent(i) \in Traps
  <2>1. /\ Occupied \in Nat /\ Stored = IF lpc = "entry" THEN Occupied - 1
                                        ELSE Occupied
        /\ TypeOK /\ iQFront \in Slots /\ After(iQRear) \in Slots
    BY QueueView, IndexArithmetic DEF TypeOK, Stored
  <2>2. ASSUME UNCHANGED queueVars, lpc = "entry" <=> lpc' = "entry"
        PROVE  /\ Occupied' = Occupied /\ Stored' = Stored
               /\ IsQueue_Full' <=> IsQueue_Full
               /\ Full' <=> Full
    BY <2>2 DEF queueVars, Occupied, Stored, IsQueue_Full, SlotContent
  <2>3. CASE InitCBuffer
    <3>1. iQRear' = -1 /\ iQFront' = 0 /\ ppc' = "lock"
      BY <2>3 DEF InitCBuffer
    <3>2. Occupied' = 0
      BY <3>1, QueueView DEF After, Between
    <3>3. Covered' => lpc' \notin {"rear", "entry", "signal"}
      BY <2>3 DEF InitCBuffer, InListenTrap, Covered, TypeOK, listenerVars
    <3>4. Covered' => Stored' = 0
      BY <3>2, <3>3 DEF Stored
    <3> QED
      BY <3>1, <3>2, <3>3, <3>4 DEF SlotInv, NeverTakesEmptySlot
  <2>4. CASE \/ \E t \in Traps : ReceiveTrap(t)
             \/ ListenerLocks \/ QueueFull \/ QueueNotFull \/ ListenerUnlocks
    <3>1. /\ UNCHANGED <<queueVars, ppc>>
          /\ lpc = "entry" <=> lpc' = "entry"
          /\ lpc' \notin {"entry", "signal"}
      BY <2>4 DEF ReceiveTrap, ListenerLocks, QueueFull, QueueNotFull,
                  ListenerUnlocks, processorVars
    <3>2. Covered' => Covered
      BY <2>4 DEF ReceiveTrap, ListenerLocks, QueueFull, QueueNotFull,
                  ListenerUnlocks, processorVars, Covered, TypeOK
    <3>3. Covered' /\ lpc' = "rear" => ~IsQueue_Full'
      BY <2>2, <2>4, <3>1 DEF ReceiveTrap, ListenerLocks, QueueFull,
                  QueueNotFull, ListenerUnlocks, processorVars, Covered, TypeOK
    <3>4. NeverTakesEmptySlot'
      BY <2>4 DEF ReceiveTrap, ListenerLocks, QueueFull, QueueNotFull,
             ListenerUnlocks, processorVars, NeverTakesEmptySlot, TypeOK
    <3> QED
      BY <2>2, <3>1, <3>2, <3>3, <3>4 DEF SlotInv
  <2>5. CASE AdvanceRear
    <3>1. /\ UNCHANGED <<ppc, spoiled>> /\ lpc' = "entry"
      BY <2>5 DEF AdvanceRear, processorVars
    <3>2. Covered' => Covered
      BY <3>1 DEF Covered
    <3> QED
      BY <2>1, <2>5, <3>1, <3>2, RearAdvances
         DEF SlotInv, NeverTakesEmptySlot
  <2>6. CASE StoreTrap
    <3>1. /\ UNCHANGED <<ppc, spoiled>> /\ lpc = "entry" /\ lpc' = "signal"
      BY <2>6 DEF StoreTrap, processorVars
    <3>2. Covered' => Covered
      BY <3>1 DEF Covered
    <3>3. trap \in Traps
      BY <3>1 DEF HandsInv
    <3>4. ASSUME Covered, NEW i \in 1 .. Stored'
          PROVE  SlotContent(i)' \in Traps
      <4>1. i \in 1 .. Stored \/ i = Stored'
        BY <2>6, <3>4, TrapStored
      <4> QED
        BY <2>6, <3>3, <3>4, <4>1, TrapStored DEF SlotInv
    <3> QED
      BY <2>1, <2>6, <3>1, <3>2, <3>4, TrapStored
         DEF SlotInv, NeverTakesEmptySlot
  <2>7. CASE SignalNotEmpty
    <3>1. /\ UNCHANGED <<queueVars, spoiled>>
          /\ lpc = "signal" /\ lpc' = "unlock"
          /\ ppc' = IF ppc = "wait" THEN "woken" ELSE ppc
      BY <2>7 DEF SignalNotEmpty
    <3> QED
      BY <2>1, <2>2, <3>1 DEF SlotInv, Covered, NeverTakesEmptySlot
  <2>8. CASE \/ ProcessorLocks \/ WaitNotEmpty \/ QueueNotEmpty \/ WaitReturns
             \/ LocksAgain \/ ParseTrap
    <3>1. UNCHANGED <<queueVars, lpc, spoiled>> /\ ppc \notin {"off", "crashed"}
      BY <2>8 DEF ProcessorLocks, WaitNotEmpty, QueueNotEmpty, WaitReturns,
                  LocksAgain, ParseTrap, listenerVars
    <3>2. Covered /\ ppc' \in {"woken", "relock", "take"} => Stored > 0
      <4>1. CASE QueueNotEmpty
        <5>1. Covered => lpc # "entry"
          BY <4>1 DEF QueueNotEmpty, MutexInv, InListenTrap
        <5> QED
          BY <2>1, <4>1, <5>1, QueueView, Moving DEF QueueNotEmpty
      <4>2. CASE ProcessorLocks \/ WaitNotEmpty \/ ParseTrap
        BY <4>2 DEF ProcessorLocks, WaitNotEmpty, ParseTrap
      <4>3. CASE WaitReturns \/ LocksAgain
        BY <4>3 DEF WaitReturns, LocksAgain, SlotInv
      <4> QED
        BY <2>8, <4>1, <4>2, <4>3
    <3>3. ppc' # "crashed"
      BY <2>8 DEF ProcessorLocks, WaitNotEmpty, QueueNotEmpty, WaitReturns,
                  LocksAgain, ParseTrap
    <3> QED
      BY <2>2, <3>1, <3>2, <3>3
         DEF SlotInv, Covered, NeverTakesEmptySlot, queueVars
  <2>9. CASE TakeTrap
    <3>1. /\ UNCHANGED <<lpc, spoiled>> /\ ppc = "take"
          /\ ppc' = IF clone' = NULL THEN "crashed" ELSE "parse"
      BY <2>9 DEF TakeTrap, listenerVars
    <3>2. CASE Covered
      <4>1. ppc' = "parse"
        BY <2>9, <3>1, <3>2, TrapTaken DEF SlotInv
      <4>2. Full'
        BY <2>9, <3>2, TrapTaken DEF SlotInv
      <4> QED
        BY <2>9, <3>1, <3>2, <4>1, <4>2, TrapTaken
           DEF SlotInv, NeverTakesEmptySlot, InListenTrap
    <3>3. CASE ~Covered
      BY <3>1, <3>3 DEF Covered, SlotInv, NeverTakesEmptySlot
    <3> QED
      BY <3>2, <3>3
  <2>10. CASE UNCHANGED vars
    BY <2>2, <2>10 DEF vars, queueVars, listenerVars, processorVars, SlotInv,
       Covered,
                       NeverTakesEmptySlot
  <2> QED
    BY <2>3, <2>4, <2>5, <2>6, <2>7, <2>8, <2>9, <2>10
       DEF Next, ListenTrap, ProcessTrapMsg
<1> QED
  BY <1>1, <1>2

-----------------------------------------------------------------------------
\* The initial states satisfy the invariant of the queue, and steps keep it.
LEMMA QueueInductive ==
    /\ Init => QueueInv
    /\ QueueInv /\ [Next]_vars => QueueInv'
  BY TypeInductive, MutexInductive, SlotsInductive DEF QueueInv

\* The indices stay inside the slots, whichever of the threads is at work and
\* whether or not the mutex protects the queue.
THEOREM TypeCorrect == Spec => []TypeOK
<1>1. Init => TypeOK
  BY TypeInductive
<1>2. TypeOK /\ [Next]_vars => TypeOK'
  BY TypeInductive
<1> QED
  BY <1>1, <1>2, PTL DEF Spec

\* The invariant holds in every state of the threads.
THEOREM QueueInvariant == Spec => []QueueInv
<1>1. Init => QueueInv
  BY QueueInductive
<1>2. QueueInv /\ [Next]_vars => QueueInv'
  BY QueueInductive
<1> QED
  BY <1>1, <1>2, PTL DEF Spec

\* XX_ProcessTrapMsg tests the queue only once before it takes a trap, but as
\* long as the mutex protects the queue it never finds an empty slot.
THEOREM TakesOnlyTraps == Spec => []NeverTakesEmptySlot
<1>1. QueueInv => NeverTakesEmptySlot
  BY DEF QueueInv
<1> QED
  BY <1>1, QueueInvariant, PTL

-----------------------------------------------------------------------------
(* The queue implements TrapFifo.                                          *)

\* The traps that wait are a sequence: the contents of the slots, in order.
LEMMA WaitingTraps ==
    ASSUME QueueInv, QueueInv'
    PROVE  /\ Covered => /\ waiting = [i \in 1 .. Stored |-> SlotContent(i)]
                         /\ waiting \in Seq(Traps)
                         /\ Stored \in Nat /\ Len(waiting) = Stored
           /\ Covered' => /\ waiting' = [i \in 1 .. Stored' |-> SlotContent(i)']
                          /\ waiting' \in Seq(Traps)
                          /\ Stored' \in Nat /\ Len(waiting') = Stored'
           /\ ~Covered => waiting = << >>
           /\ ~Covered' => waiting' = << >>
<1>1. ~Covered => waiting = << >>
  BY DEF Covered, waiting
<1>2. ~Covered' => waiting' = << >>
  BY DEF Covered, waiting
<1>3. ASSUME Covered
      PROVE  /\ waiting = [i \in 1 .. Stored |-> SlotContent(i)]
             /\ waiting \in Seq(Traps)
             /\ Stored \in Nat /\ Len(waiting) = Stored
  <2>1. waiting = [i \in 1 .. Stored |-> SlotContent(i)]
    BY <1>3 DEF Covered, waiting, SlotContent
  <2>2. Stored \in Nat
    BY <1>3, QueueView DEF QueueInv, Stored, SlotInv
  <2>3. \A i \in 1 .. Stored : SlotContent(i) \in Traps
    BY <1>3 DEF QueueInv, SlotInv
  <2> QED
    BY <2>1, <2>2, <2>3
<1>4. ASSUME Covered'
      PROVE  /\ waiting' = [i \in 1 .. Stored' |-> SlotContent(i)']
             /\ waiting' \in Seq(Traps)
             /\ Stored' \in Nat /\ Len(waiting') = Stored'
  <2>1. waiting' = [i \in 1 .. Stored' |-> SlotContent(i)']
    BY <1>4 DEF Covered, waiting, SlotContent
  <2>2. Stored' \in Nat
    BY <1>4, QueueView DEF QueueInv, Stored, SlotInv
  <2>3. \A i \in 1 .. Stored' : SlotContent(i)' \in Traps
    BY <1>4 DEF QueueInv, SlotInv
  <2> QED
    BY <2>1, <2>2, <2>3
<1> QED
  BY <1>1, <1>2, <1>3, <1>4

\* Every step of the threads is a step of TrapFifo or leaves it alone.
LEMMA StepRefines ==
    QueueInv /\ QueueInv' /\ [Next]_vars => [Fifo!Next]_(Fifo!vars)
<1> SUFFICES ASSUME QueueInv, QueueInv', [Next]_vars
             PROVE  [Fifo!Next]_(Fifo!vars)
  OBVIOUS
<1> USE TrapQueueAssumption
<1>1. CASE spoiled
  <2>1. spoiled'
    BY <1>1 DEF Next, vars, queueVars, listenerVars, processorVars,
         ListenTrap, ProcessTrapMsg, InitCBuffer, ReceiveTrap, ListenerLocks,
         QueueFull, QueueNotFull, AdvanceRear, StoreTrap, SignalNotEmpty,
         ListenerUnlocks, ProcessorLocks, WaitNotEmpty, QueueNotEmpty,
         WaitReturns, LocksAgain, TakeTrap, ParseTrap
  <2> QED
    BY <1>1, <2>1 DEF Fifo!Next, Fifo!Broken
<1>2. CASE ~spoiled /\ InitCBuffer
  <2>1. /\ daemon' = daemon /\ clone' = clone
        /\ ppc = "off" /\ ppc' = "lock" /\ clone = NULL
    BY <1>2 DEF InitCBuffer, QueueInv, HandsInv
  <2>2. waiting = << >>
    BY <2>1 DEF waiting
  <2>3. Covered' => Stored' = 0
    <3>1. iQRear' = -1 /\ iQFront' = 0
      BY <1>2 DEF InitCBuffer
    <3>2. Occupied' = 0
      BY <3>1, QueueView DEF After, Between, QueueInv
    <3> QED
      BY <1>2, <3>2 DEF InitCBuffer, InListenTrap, Covered, QueueInv, TypeOK,
                        Stored, listenerVars
  <2>4. waiting' = << >>
    BY <2>3, WaitingTraps
  <2> QED
    BY <1>2, <2>1, <2>2, <2>4 DEF Fifo!Next, Fifo!Start
<1>3. ASSUME UNCHANGED daemon, ppc = "off" <=> ppc' = "off"
      PROVE  /\ (daemon' = "AM") = (daemon = "AM")
             /\ (ppc' # "off") = (ppc # "off")
  BY <1>3
<1>4. ASSUME UNCHANGED <<daemon, spoiled, clone, waiting>>,
             ppc = "off" <=> ppc' = "off"
      PROVE  UNCHANGED Fifo!vars
  <2>1. (IF spoiled' THEN NULL ELSE clone') = IF spoiled THEN NULL ELSE clone
    BY <1>4
  <2> QED
    BY <1>3, <1>4, <2>1, Zenon DEF Fifo!vars
<1>5. ASSUME ~spoiled, ppc # "off", AdvanceRear
      PROVE  UNCHANGED Fifo!vars
  <2>1. UNCHANGED <<daemon, clone, ppc, spoiled>> /\ Covered /\ Covered'
    BY <1>5 DEF AdvanceRear, processorVars, Covered
  <2>2. waiting' = waiting
    BY <1>5, <2>1, RearAdvances, WaitingTraps DEF QueueInv
  <2> QED
    BY <1>5, <1>4, <2>1, <2>2
<1>6. ASSUME ~spoiled, ppc # "off", StoreTrap
      PROVE  Fifo!Put
  <2>1. UNCHANGED <<daemon, clone, ppc, spoiled>> /\ Covered /\ Covered'
    BY <1>6 DEF StoreTrap, processorVars, Covered
  <2>2. trap \in Traps
    BY <1>6 DEF StoreTrap, QueueInv, HandsInv
  <2>3. Len(waiting) < MAX_ELEMENT - 1
    BY <1>6, <2>1, TrapStored, WaitingTraps DEF QueueInv
  <2>4. waiting' = Append(waiting, trap)
    <3>1. \A i \in 1 .. Stored + 1 : SlotContent(i)' =
              IF i <= Stored THEN SlotContent(i) ELSE trap
      BY <1>6, <2>1, TrapStored DEF QueueInv
    <3>2. /\ Len(waiting') = Len(waiting) + 1
          /\ \A i \in 1 .. Len(waiting) + 1 :
                 waiting'[i] = IF i <= Len(waiting) THEN waiting[i] ELSE trap
      BY <1>6, <2>1, <3>1, TrapStored, WaitingTraps DEF QueueInv
    <3> QED
      BY <2>1, <2>2, <3>2, WaitingTraps
  <2> QED
    BY <1>3, <1>6, <2>1, <2>2, <2>3, <2>4 DEF Fifo!Put
<1>7. ASSUME ~spoiled, ppc # "off", TakeTrap
      PROVE  Fifo!Get
  <2>1. /\ UNCHANGED <<daemon, spoiled>> /\ ppc = "take" /\ ppc' # "off"
        /\ Covered /\ Covered' /\ clone = NULL
    BY <1>7 DEF TakeTrap, Covered, QueueInv, HandsInv
  <2>2. waiting # << >> /\ clone' = Head(waiting)
    BY <1>7, <2>1, TrapTaken, WaitingTraps DEF QueueInv
  <2>3. waiting' = Tail(waiting)
    <3>1. /\ Len(waiting') = Len(waiting) - 1
          /\ \A i \in 1 .. Len(waiting) - 1 : waiting'[i] = waiting[i + 1]
      BY <1>7, <2>1, TrapTaken, WaitingTraps DEF QueueInv
    <3> QED
      BY <2>1, <2>2, <3>1, WaitingTraps
  <2> QED
    BY <1>3, <1>7, <2>1, <2>2, <2>3 DEF Fifo!Get
<1>8. ASSUME UNCHANGED <<queueVars, spoiled>>,
             lpc = "entry" <=> lpc' = "entry", ppc = "off" <=> ppc' = "off"
      PROVE  waiting' = waiting
  BY <1>8 DEF queueVars, waiting, Stored, Occupied
<1>9. ASSUME ~spoiled, ppc # "off", ParseTrap
      PROVE  Fifo!Parsed
  <2>1. /\ UNCHANGED <<daemon, spoiled>> /\ ppc' # "off" /\ clone' = NULL
        /\ waiting' = waiting
    BY <1>8, <1>9 DEF ParseTrap, listenerVars
  <2> QED
    BY <1>3, <1>9, <2>1 DEF Fifo!Parsed
<1>10. ASSUME ~spoiled, ppc # "off", QueueFull, daemon # "AM"
      PROVE  Fifo!Overrun
  <2>1. spoiled' /\ UNCHANGED <<daemon, ppc>> /\ lpc = "test" /\ Covered
    BY <1>10 DEF QueueFull, processorVars, Covered
  <2>2. Len(waiting) = MAX_ELEMENT - 1
    <3>1. /\ After(After(iQRear)) = iQFront
          /\ After(iQRear) \in Slots /\ iQFront \in Slots
      BY <1>10, QueueView, IndexArithmetic DEF QueueFull, QueueInv, TypeOK
    <3>2. Occupied = MAX_ELEMENT - 1
      BY <3>1, QueueView, Moving DEF QueueInv
    <3> QED
      BY <2>1, <3>2, WaitingTraps DEF Stored
  <2> QED
    BY <1>10, <2>1, <2>2 DEF Fifo!Overrun
<1>11. ASSUME ~spoiled,
              \/ \E t \in Traps : ReceiveTrap(t)
              \/ ListenerLocks \/ QueueNotFull \/ SignalNotEmpty
              \/ ListenerUnlocks
              \/ (QueueFull /\ (daemon = "AM" \/ ppc = "off"))
       PROVE  UNCHANGED Fifo!vars
  <2>1. UNCHANGED <<daemon, clone, queueVars>>
    BY <1>11 DEF ReceiveTrap, ListenerLocks, QueueNotFull, SignalNotEmpty,
         ListenerUnlocks, QueueFull, processorVars
  <2>2. /\ lpc = "entry" <=> lpc' = "entry"
        /\ ppc = "off" <=> ppc' = "off"
    BY <1>11 DEF ReceiveTrap, ListenerLocks, QueueNotFull, SignalNotEmpty,
         ListenerUnlocks, QueueFull, processorVars
  <2>3. spoiled' = spoiled
    BY <1>11 DEF ReceiveTrap, ListenerLocks, QueueNotFull, SignalNotEmpty,
         ListenerUnlocks, QueueFull, processorVars, QueueInv, TypeOK
  <2> QED
    BY <1>8, <1>4, <2>1, <2>2, <2>3
<1>12. ASSUME ~spoiled,
              \/ ProcessorLocks \/ WaitNotEmpty \/ QueueNotEmpty \/ WaitReturns
              \/ LocksAgain \/ UNCHANGED vars
       PROVE  UNCHANGED Fifo!vars
  <2>1. /\ UNCHANGED <<daemon, clone, queueVars, spoiled, lpc>>
        /\ ppc = "off" <=> ppc' = "off"
    BY <1>12 DEF ProcessorLocks, WaitNotEmpty, QueueNotEmpty, WaitReturns,
         LocksAgain, listenerVars, vars, processorVars
  <2> QED
    BY <1>8, <1>4, <2>1
<1>13. ASSUME ~spoiled, ppc = "off", AdvanceRear \/ StoreTrap
       PROVE  UNCHANGED Fifo!vars
  <2>1. UNCHANGED <<daemon, clone, ppc, spoiled>>
    BY <1>13 DEF AdvanceRear, StoreTrap, processorVars
  <2>2. waiting' = waiting
    BY <1>13, <2>1 DEF waiting
  <2> QED
    BY <1>4, <2>1, <2>2
<1>14. ASSUME ~spoiled, ParseTrap \/ TakeTrap
       PROVE  ppc # "off"
  BY <1>14 DEF ParseTrap, TakeTrap
<1>15. ~spoiled =>
          \/ UNCHANGED Fifo!vars \/ InitCBuffer \/ Fifo!Put \/ Fifo!Get
          \/ Fifo!Parsed \/ Fifo!Overrun
  <2>1. CASE ListenTrap
    BY <1>5, <1>6, <1>10, <1>11, <1>13, <2>1 DEF ListenTrap
  <2>2. CASE ProcessTrapMsg
    BY <1>7, <1>9, <1>12, <1>14, <2>2 DEF ProcessTrapMsg
  <2>3. CASE \E t \in Traps : ReceiveTrap(t)
    BY <1>11, <2>3
  <2>4. CASE UNCHANGED vars
    BY <1>12, <2>4
  <2> QED
    BY <2>1, <2>2, <2>3, <2>4 DEF Next
<1> QED
  BY <1>1, <1>2, <1>15 DEF Fifo!Next

\* The initial states of the queue are initial states of TrapFifo.
LEMMA InitRefines == Init => Fifo!Init
<1> SUFFICES ASSUME Init PROVE Fifo!Init
  OBVIOUS
<1>1. /\ waiting = << >> /\ ~(ppc # "off") /\ ~spoiled
      /\ (IF spoiled THEN NULL ELSE clone) = NULL
  BY DEF Init, waiting
<1>2. (daemon = "AM") \in BOOLEAN
  OBVIOUS
<1> QED
  BY <1>1, <1>2 DEF Fifo!Init

\* The circular queue, its two threads and its mutex implement the queue of
\* TrapFifo: while the mutex protects it no trap is lost, repeated or overtaken.
THEOREM ImplementsFifo == Spec => TrapsInOrder
  BY InitRefines, StepRefines, QueueInvariant, PTL
     DEF Spec, TrapsInOrder, Fifo!Spec
=============================================================================
