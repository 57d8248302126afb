------------------------------ MODULE TrapQueue ------------------------------
(***************************************************************************)
(* The circular queue between the two trap threads of a Group2 daemon:     *)
(* XX_ListenTrap, called by the thread that reads the trap port, writes,   *)
(* and the thread XX_ProcessTrapMsg reads and parses.  JobSched, BM, AM    *)
(* and the three UM daemons have a copy each.  The copies differ at a full *)
(* queue (AM returns, the others unlock the mutex and go on), after a wait *)
(* (AM unlocks and locks again) and in XX_InitCBuffer (AM empties the      *)
(* slots).                                                                 *)
(*                                                                         *)
(* The listener takes a step per access to the queue.  The queue is        *)
(* initialised by the main thread while the listener is already running.   *)
(***************************************************************************)
EXTENDS Integers, Sequences

CONSTANTS MAX_ELEMENT,    \* slots: JS 14, BM 10, AM 5
          Traps,          \* the traps that may arrive
          Daemons,        \* the copies: a subset of {"JS", "AM"}
          NULL

ASSUME TrapQueueAssumption ==
    /\ MAX_ELEMENT \in Nat /\ MAX_ELEMENT > 1
    /\ NULL \notin Traps
    /\ Daemons \subseteq {"JS", "AM"}

VARIABLES
    daemon,        \* whose copy it is
    iQRear,
    iQFront,
    queueEntry,
    queue_lock,    \* who holds the mutex: "none", "listener" or "processor"
    lpc,           \* where XX_ListenTrap is
    trap,          \* its argument
    ppc,           \* where XX_ProcessTrapMsg is
    clone,         \* the trap it took out of the queue
    spoiled        \* history: the mutex no longer protects the queue

queueVars == <<iQRear, iQFront, queueEntry>>
listenerVars == <<lpc, trap>>
processorVars == <<ppc, clone>>
vars == <<daemon, queueVars, queue_lock, listenerVars, processorVars, spoiled>>

Slots == 0 .. MAX_ELEMENT - 1

\* Static storage is zero until XX_InitCBuffer runs.
Init == /\ daemon \in Daemons
        /\ iQRear = 0
        /\ iQFront = 0
        /\ queueEntry = [s \in Slots |-> NULL]
        /\ queue_lock = "none"
        /\ lpc = "idle"
        /\ trap = NULL
        /\ ppc = "off"
        /\ clone = NULL
        /\ spoiled = FALSE

\* Mistake: the queue is empty when the indices meet.
IsQueueEmpty_IndicesMeet == iQRear = iQFront

\* A slot stays free: with all of them used the queue would look empty.
IsQueueEmpty == (iQRear + 1) % MAX_ELEMENT = iQFront

\* Mistake: every slot is used before the queue counts as full.
IsQueue_Full_EverySlot == /\ (iQRear + 1) % MAX_ELEMENT = iQFront
                          /\ queueEntry[iQFront] # NULL

IsQueue_Full == (iQRear + 2) % MAX_ELEMENT = iQFront

Running == ppc # "crashed"

-----------------------------------------------------------------------------
(* The main thread: XX_InitCBuffer, then the thread XX_ProcessTrapMsg.     *)

InListenTrap == lpc \in {"test", "rear", "entry", "signal", "unlock"}

InitCBuffer ==
    /\ ppc = "off"
    /\ iQRear' = -1
    /\ iQFront' = 0
    /\ queueEntry' = IF daemon = "AM" THEN [s \in Slots |-> NULL]
                     ELSE queueEntry
    /\ queue_lock' = "none"
    /\ ppc' = "lock"
    /\ spoiled' = (spoiled \/ InListenTrap)
    /\ UNCHANGED <<daemon, listenerVars, clone>>

-----------------------------------------------------------------------------
(* The listener: XX_ListenTrap.                                            *)

ReceiveTrap(t) ==
    /\ lpc = "idle"
    /\ lpc' = "lock"
    /\ trap' = t
    /\ UNCHANGED <<daemon, queueVars, queue_lock, processorVars, spoiled>>

ListenerLocks ==
    /\ lpc = "lock"
    /\ queue_lock = "none"
    /\ queue_lock' = "listener"
    /\ lpc' = "test"
    /\ UNCHANGED <<daemon, queueVars, trap, processorVars, spoiled>>

\* Unlocking clears the mutex, whoever holds it.
QueueFull ==
    /\ lpc = "test"
    /\ IsQueue_Full
    /\ queue_lock' = "none"
    /\ IF daemon = "AM"
       THEN lpc' = "idle" /\ trap' = NULL /\ UNCHANGED spoiled
       ELSE /\ lpc' = "rear"
            /\ spoiled' = (spoiled \/ ppc # "off")
            /\ UNCHANGED trap
    /\ UNCHANGED <<daemon, queueVars, processorVars>>

QueueNotFull ==
    /\ lpc = "test"
    /\ ~IsQueue_Full
    /\ lpc' = "rear"
    /\ UNCHANGED <<daemon, queueVars, queue_lock, trap, processorVars, spoiled>>

\* Mistake: the index is not wrapped.
AdvanceRear_NoWrap ==
    /\ lpc = "rear"
    /\ iQRear' = iQRear + 1
    /\ lpc' = "entry"
    /\ UNCHANGED <<daemon, iQFront, queueEntry, queue_lock, trap,
                   processorVars, spoiled>>

AdvanceRear ==
    /\ lpc = "rear"
    /\ iQRear' = (iQRear + 1) % MAX_ELEMENT
    /\ lpc' = "entry"
    /\ UNCHANGED <<daemon, iQFront, queueEntry, queue_lock, trap,
                   processorVars, spoiled>>

\* A subscript of -1, after InitCBuffer ran in between, is outside the slots.
StoreTrap ==
    /\ lpc = "entry"
    /\ queueEntry' = [s \in Slots |-> IF s = iQRear THEN trap
                                      ELSE queueEntry[s]]
    /\ lpc' = "signal"
    /\ UNCHANGED <<daemon, iQRear, iQFront, queue_lock, trap, processorVars,
                   spoiled>>

\* Mistake: the condition is not signalled.
SignalNotEmpty_Missing ==
    /\ lpc = "signal"
    /\ lpc' = "unlock"
    /\ UNCHANGED <<daemon, queueVars, queue_lock, trap, processorVars, spoiled>>

SignalNotEmpty ==
    /\ lpc = "signal"
    /\ ppc' = IF ppc = "wait" THEN "woken" ELSE ppc
    /\ lpc' = "unlock"
    /\ UNCHANGED <<daemon, queueVars, queue_lock, trap, clone, spoiled>>

ListenerUnlocks ==
    /\ lpc = "unlock"
    /\ queue_lock' = "none"
    /\ lpc' = "idle"
    /\ trap' = NULL
    /\ UNCHANGED <<daemon, queueVars, processorVars, spoiled>>

-----------------------------------------------------------------------------
(* The processor: XX_ProcessTrapMsg.                                       *)

ProcessorLocks ==
    /\ ppc = "lock"
    /\ queue_lock = "none"
    /\ queue_lock' = "processor"
    /\ ppc' = "test"
    /\ UNCHANGED <<daemon, queueVars, listenerVars, clone, spoiled>>

\* pthread_cond_wait unlocks the mutex.
WaitNotEmpty ==
    /\ ppc = "test"
    /\ IsQueueEmpty
    /\ queue_lock' = "none"
    /\ ppc' = "wait"
    /\ UNCHANGED <<daemon, queueVars, listenerVars, clone, spoiled>>

QueueNotEmpty ==
    /\ ppc = "test"
    /\ ~IsQueueEmpty
    /\ ppc' = "take"
    /\ UNCHANGED <<daemon, queueVars, queue_lock, listenerVars, clone, spoiled>>

\* The wait returns with the mutex held; AM unlocks it and locks it again.
WaitReturns ==
    /\ ppc = "woken"
    /\ queue_lock = "none"
    /\ IF daemon = "AM"
       THEN ppc' = "relock" /\ UNCHANGED queue_lock
       ELSE ppc' = "take" /\ queue_lock' = "processor"
    /\ UNCHANGED <<daemon, queueVars, listenerVars, clone, spoiled>>

LocksAgain ==
    /\ ppc = "relock"
    /\ queue_lock = "none"
    /\ queue_lock' = "processor"
    /\ ppc' = "take"
    /\ UNCHANGED <<daemon, queueVars, listenerVars, clone, spoiled>>

\* The entry is cloned and freed.  An empty slot gives a null pointer, which
\* XX_ParseTrap dereferences.
TakeTrap ==
    /\ ppc = "take"
    /\ clone' = queueEntry[iQFront]
    /\ queueEntry' = [queueEntry EXCEPT ![iQFront] = NULL]
    /\ iQFront' = (iQFront + 1) % MAX_ELEMENT
    /\ queue_lock' = "none"
    /\ ppc' = IF clone' = NULL THEN "crashed" ELSE "parse"
    /\ UNCHANGED <<daemon, iQRear, listenerVars, spoiled>>

\* XX_ParseTrap; module JobSched says what JobSched does here.
ParseTrap ==
    /\ ppc = "parse"
    /\ clone' = NULL
    /\ ppc' = "lock"
    /\ UNCHANGED <<daemon, queueVars, queue_lock, listenerVars, spoiled>>

-----------------------------------------------------------------------------
ListenTrap == \/ ListenerLocks \/ QueueFull \/ QueueNotFull \/ AdvanceRear
              \/ StoreTrap \/ SignalNotEmpty \/ ListenerUnlocks

ProcessTrapMsg == \/ ProcessorLocks \/ WaitNotEmpty \/ QueueNotEmpty
                  \/ WaitReturns \/ LocksAgain \/ TakeTrap \/ ParseTrap

Next == /\ Running
        /\ \/ InitCBuffer
           \/ \E t \in Traps : ReceiveTrap(t)
           \/ ListenTrap
           \/ ProcessTrapMsg

\* Each thread is scheduled.  A thread that wants the mutex gets it some time:
\* the listener leaves it free while it waits for the next trap.
Fairness == /\ WF_vars(Running /\ InitCBuffer)
            /\ SF_vars(Running /\ ListenTrap)
            /\ SF_vars(Running /\ ProcessTrapMsg)

Spec == Init /\ [][Next]_vars

FairSpec == Spec /\ Fairness

-----------------------------------------------------------------------------
(* Properties.                                                             *)

\* The types of the state; the indices stay inside the slots.
TypeOK ==
    /\ daemon \in Daemons
    /\ iQRear \in Slots \cup {-1}
    /\ iQFront \in Slots
    /\ queueEntry \in [Slots -> Traps \cup {NULL}]
    /\ queue_lock \in {"none", "listener", "processor"}
    /\ lpc \in {"idle", "lock", "test", "rear", "entry", "signal", "unlock"}
    /\ trap \in Traps \cup {NULL}
    /\ ppc \in {"off", "lock", "test", "wait", "woken", "relock", "take",
                "parse", "crashed"}
    /\ clone \in Traps \cup {NULL}
    /\ spoiled \in BOOLEAN

\* The slots between the indices, and the traps in them; the slot of a trap
\* that is just being stored does not count yet.
Occupied == ((iQRear + 1 - iQFront) + MAX_ELEMENT) % MAX_ELEMENT

Stored == IF lpc = "entry" THEN Occupied - 1 ELSE Occupied

waiting == IF ppc = "off" \/ spoiled THEN << >>
           ELSE [i \in 1 .. Stored |->
                    queueEntry[(iQFront + i - 1) % MAX_ELEMENT]]

\* As long as the mutex protects the queue, the processor never takes an empty
\* slot: it tests the queue once, before the wait, and relies on the signal.
NeverTakesEmptySlot == ppc = "crashed" => spoiled

\* The queue implements TrapFifo: no trap is lost, repeated or overtaken.
Fifo == INSTANCE TrapFifo WITH
            Capacity <- MAX_ELEMENT - 1,
            dropsWhenFull <- (daemon = "AM"),
            started <- (ppc # "off"),
            broken <- spoiled,
            items <- waiting,
            parsing <- (IF spoiled THEN NULL ELSE clone)

TrapsInOrder == Fifo!Spec

\* A trap that waits is parsed: the processor does not sleep through the signal.
TrapsParsed == waiting # << >> ~> (ppc = "parse" \/ spoiled)

\* NASCenter_JS.c:1964, "Dropping the Trap Msg": at a full queue it is the new
\* trap that is lost; only the processor makes the queue shorter.  TLC refutes
\* it; the README describes the counterexample.
FullQueueKeepsTraps == [][Occupied' < Occupied => ppc \in {"off", "take"}]_vars
=============================================================================
