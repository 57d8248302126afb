---------------------------- MODULE ProcMonProofs ----------------------------
(***************************************************************************)
(* For any number of contexts, threads, processes, SETs and restarts: the  *)
(* state of the process monitor has its types, an active row has its       *)
(* thread unless a race was lost, the traps of a thread alternate, and a   *)
(* thread that reports its process down leaves no alert of its own.        *)
(***************************************************************************)
EXTENDS ProcMon, TLAPS

\* What a thread that remembers iStatus has told the manager.
Told(iStatus) == IF iStatus = -1 THEN "unknown"
                 ELSE IF iStatus = 0 THEN "down"
                 ELSE IF iStatus = 1 THEN "up" ELSE "over"

\* What the thread of the row has told: an earlier one does not count.
Known(v) == IF v.oldStatus THEN "unknown" ELSE v.status

\* It has told an alert, and not yet its end.
Alert(v) == v.cpu /\ ~v.oldCpu

\* A trap of an earlier thread does not count for a new one.
LEMMA BeforeFields ==
    ASSUME NEW v \in Views
    PROVE  /\ ToldBefore(v) \in Views
           /\ Known(ToldBefore(v)) = "unknown" /\ ~Alert(ToldBefore(v))
BY DEF ToldBefore, Views, Known, Alert

\* The flag of the row of the table is set, or will be.
Flagged == /\ container # NULL
           /\ mpc = "flag" \/ ctx[container].iThreadActiveFlag

\* A row that is to be watched.
Wanted(c) == ctx[c].status = "active" /\ ctx[c].valid

\* A row that would be, if the SET under way is undone.
Undoing == mpc = "set" /\ undo.status = "active" /\ undo.valid

\* Before ProcMon_MasterThread has gone through the rows there is no thread, and
\* until it has set the flag each is one of this row.  Later a flag that is set
\* stands for a thread that knows the row, and between SETs an active row has
\* its flag, as long as no race was lost.
WatchInv ==
    /\ mpc = "start" => Live = {}
    /\ mpc = "flag" => /\ container # NULL
                       /\ \A t \in Live : thread[t].my = container
    /\ mpc = "set" => container # NULL /\ undo \in Rows
    /\ mpc \in {"serve", "set"} /\ container # NULL /\ ~raced =>
           /\ ctx[container].iThreadActiveFlag =>
                  \E t \in Live : thread[t].my = container
           /\ mpc = "serve" /\ Wanted(container) =>
                  ctx[container].iThreadActiveFlag

\* There is at most one thread.
OneThread == \A t, u \in Live : t = u

\* What thread t remembers is what the manager was told.
TrapOf(t) ==
    /\ thread[t].pc = "begin" => thread[t].iStatus = -1
    /\ thread[t].pc # "begin" => Known(seen) = Told(thread[t].iStatus)

\* As long as traps are sent by one thread, nothing was told twice.
TrapInv ==
    ~mixed => /\ OneThread
              /\ ~repeated
              /\ ~sendTrapLock => \A t \in Live : TrapOf(t)

\* The thread there is belongs to the row whose flag is set; an active row
\* without the flag has none, since the SET that made it active would have
\* started a second one.
FlagInv ==
    ~mixed =>
        /\ Flagged => \A t \in Live : thread[t].my = container
        /\ /\ mpc \in {"serve", "set"} /\ container # NULL
           /\ Wanted(container) \/ Undoing
           /\ ~ctx[container].iThreadActiveFlag
           => Live = {}

\* An alert that the thread of the row has told is in the row of thread t.
AlertKnown(t) == Alert(seen) => Mine(t).thrcpu

\* It is while t checks the row, or will check it; and when t has reported the
\* process as down there is none, until t has counted a process again.
AlertOf(t) ==
    /\ Flagged /\ thread[t].pc # "begin" => AlertKnown(t)
    /\ thread[t].pc = "status" /\ Wanted(thread[t].my) => AlertKnown(t)
    /\ thread[t].pc \in {"check", "count", "react"} => AlertKnown(t)
    /\ thread[t].pc \in {"find", "status", "check"} /\ Known(seen) = "down"
           => ~Alert(seen)
    /\ thread[t].pc \in {"count", "react"} /\ thread[t].iProcCount = 0
         /\ Known(seen) = "down" => ~Alert(seen)

\* The alert while traps are sent by one thread.
AlertInv == ~mixed /\ ~sendTrapLock => \A t \in Live : AlertOf(t)

\* The inductive invariant.
ProcMonInv == TypeOK /\ WatchInv /\ TrapInv /\ FlagInv /\ AlertInv

-----------------------------------------------------------------------------
(* Types.                                                                  *)

\* What Send works on.
Sendings == [told : Views, again : BOOLEAN, thrcpu : BOOLEAN, lock : BOOLEAN,
             waits : BOOLEAN]

Traps == {"Up", "Down", "Threshold", "Recovery", "CpuAlert", "CpuRecovery"}

\* What is told after a trap that is sent.
LEMMA AfterTrap ==
    /\ DOMAIN After = {"Up", "Down", "Threshold", "Recovery"}
    /\ After["Up"] = "up" /\ After["Down"] = "down"
    /\ After["Threshold"] = "over" /\ After["Recovery"] = "up"
BY DEF After

\* The flag of the row after a trap.
Flag(flag, trap) == trap = "CpuAlert" \/ (flag /\ trap # "CpuRecovery")

\* What Send makes of a Sending, field by field.
LEMMA SendFields ==
    ASSUME NEW s \in Sendings, NEW trap \in Traps, port \in BOOLEAN
    PROVE  /\ Send(s, trap) \in Sendings
           /\ Send(s, trap).waits <=> s.waits \/ s.lock
           /\ Send(s, trap).lock <=> s.lock \/ (~s.waits /\ ~port)
           /\ ~Send(s, trap).waits =>
                  (Send(s, trap).thrcpu <=> Flag(s.thrcpu, trap))
           /\ IF s.waits \/ s.lock \/ ~port
              THEN Send(s, trap).told = s.told /\ Send(s, trap).again = s.again
              ELSE IF trap \in DOMAIN After
              THEN /\ Known(Send(s, trap).told) = After[trap]
                   /\ Alert(Send(s, trap).told) = Alert(s.told)
                   /\ Send(s, trap).again <=>
                          s.again \/ After[trap] = Known(s.told)
              ELSE /\ Known(Send(s, trap).told) = Known(s.told)
                   /\ Alert(Send(s, trap).told) <=> Flag(s.thrcpu, trap)
                   /\ Send(s, trap).again = s.again
<1>1. PICK told \in Views, again \in BOOLEAN, thrcpu \in BOOLEAN,
           lock \in BOOLEAN, waits \in BOOLEAN :
           s = [told |-> told, again |-> again, thrcpu |-> thrcpu,
                lock |-> lock, waits |-> waits]
  BY DEF Sendings
<1>2. PICK status \in {"unknown", "up", "down", "over"}, cpu \in BOOLEAN,
           oldStatus \in BOOLEAN, oldCpu \in BOOLEAN :
           told = [status |-> status, oldStatus |-> oldStatus, cpu |-> cpu,
                   oldCpu |-> oldCpu]
  BY DEF Views
<1> DEFINE flag == Flag(thrcpu, trap)
           r == [s EXCEPT !.thrcpu = flag]
<1>3. flag \in BOOLEAN
  BY DEF Flag
<1>4. r = [told |-> told, again |-> again, thrcpu |-> flag, lock |-> lock,
           waits |-> waits]
  BY <1>1
<1>5. [s EXCEPT !.thrcpu = \/ trap = "CpuAlert"
                           \/ s.thrcpu /\ trap # "CpuRecovery"] = r
  BY <1>1 DEF Flag
<1>6. Send(s, trap) =
          IF waits THEN s
          ELSE IF lock THEN [r EXCEPT !.waits = TRUE]
          ELSE IF ~port THEN [r EXCEPT !.lock = TRUE]
          ELSE IF trap \in DOMAIN After
          THEN [r EXCEPT !.told.status = After[trap],
                         !.told.oldStatus = FALSE,
                         !.again = \/ @
                                   \/ /\ After[trap] = s.told.status
                                      /\ ~s.told.oldStatus]
          ELSE [r EXCEPT !.told.cpu = r.thrcpu, !.told.oldCpu = FALSE]
  BY <1>1, <1>5 DEF Send
<1> HIDE DEF flag, r
<1>7. CASE waits
  <2>1. Send(s, trap) = s /\ s.waits = TRUE
    BY <1>1, <1>6, <1>7
  <2> QED
    BY <2>1
<1>8. CASE ~waits /\ lock
  <2>1. Send(s, trap) = [told |-> told, again |-> again, thrcpu |-> flag,
                         lock |-> lock, waits |-> TRUE]
    BY <1>4, <1>6, <1>8
  <2> QED
    BY <2>1, <1>1, <1>3, <1>8 DEF Sendings, flag
<1>9. CASE ~waits /\ ~lock /\ ~port
  <2>1. Send(s, trap) = [told |-> told, again |-> again, thrcpu |-> flag,
                         lock |-> TRUE, waits |-> waits]
    BY <1>4, <1>6, <1>9
  <2> QED
    BY <2>1, <1>1, <1>3, <1>9 DEF Sendings, flag
<1>10. CASE ~waits /\ ~lock /\ port /\ trap \in DOMAIN After
  <2> DEFINE more == again \/ (After[trap] = status /\ ~oldStatus)
             new == [status |-> After[trap], oldStatus |-> FALSE, cpu |-> cpu,
                     oldCpu |-> oldCpu]
  <2>1. Send(s, trap) = [told |-> new, again |-> more,
                         thrcpu |-> flag, lock |-> lock, waits |-> waits]
    BY <1>1, <1>2, <1>4, <1>6, <1>10
  <2>2. After[trap] \in {"up", "down", "over"}
    BY <1>10, AfterTrap
  <2>3. more \in BOOLEAN /\ (more <=> s.again \/ After[trap] = Known(s.told))
    BY <1>1, <1>2, <2>2 DEF Known
  <2>4. /\ new \in Views /\ Known(new) = After[trap]
        /\ Alert(new) = Alert(s.told)
    BY <1>1, <1>2, <2>2 DEF Views, Known, Alert
  <2> HIDE DEF more, new
  <2>5. /\ Send(s, trap) \in Sendings
        /\ Send(s, trap).again <=> s.again \/ After[trap] = Known(s.told)
    BY <2>1, <2>3, <2>4, <1>3 DEF Sendings
  <2> QED
    BY <2>1, <2>4, <2>5, <1>1, <1>10 DEF flag
<1>11. CASE ~waits /\ ~lock /\ port /\ trap \notin DOMAIN After
  <2> DEFINE new == [status |-> status, oldStatus |-> oldStatus, cpu |-> flag,
                     oldCpu |-> FALSE]
  <2>1. Send(s, trap) = [told |-> new, again |-> again, thrcpu |-> flag,
                         lock |-> lock, waits |-> waits]
    BY <1>1, <1>2, <1>4, <1>6, <1>11
  <2>2. /\ new \in Views /\ Known(new) = Known(s.told)
        /\ Alert(new) <=> flag
    BY <1>1, <1>2, <1>3 DEF Views, Known, Alert
  <2> HIDE DEF new
  <2> QED
    BY <2>1, <2>2, <1>1, <1>3, <1>11 DEF Sendings, flag
<1> QED
  BY <1>7, <1>8, <1>9, <1>10, <1>11

\* A live thread has locals and a row.
LEMMA SenderType ==
    ASSUME TypeOK, NEW t \in Live
    PROVE  /\ thread[t] \in Locals /\ Mine(t) \in Rows
           /\ Sender(t) \in Sendings
BY DEF TypeOK, Live, Locals, Rows, Mine, Sender, Sendings, Views

\* A thread that is at a place of its program is alive.
LEMMA AtLive ==
    ASSUME NEW t \in Threads, NEW pc, At(t, pc)
    PROVE  t \in Live /\ thread[t].pc = pc
BY DEF At, Live

\* A row with other values in some columns is a row.
LEMMA RowType ==
    ASSUME NEW col \in Columns, NEW status \in {"active", "notInService"},
           NEW flag \in BOOLEAN
    PROVE  /\ Row(col, status, flag) \in Rows
           /\ Row(col, status, flag).status = status
           /\ Row(col, status, flag).valid = col.valid
           /\ Row(col, status, flag).thrcpu = FALSE
           /\ Row(col, status, flag).iThreadActiveFlag = flag
BY ProcMonAssumption DEF Row, Rows

\* A row with another flag is a row.
LEMMA FlagType ==
    ASSUME NEW row \in Rows, NEW flag \in BOOLEAN
    PROVE  /\ [row EXCEPT !.iThreadActiveFlag = flag] \in Rows
           /\ [row EXCEPT !.thrcpu = flag] \in Rows
BY DEF Rows

\* A trap changes one flag of one row.
LEMMA SentRows ==
    ASSUME TypeOK, NEW t \in Live, NEW s \in Sendings, Sent(t, s)
    PROVE  /\ ctx' \in [Contexts -> Rows] /\ seen' \in Views
           /\ repeated' \in BOOLEAN /\ sendTrapLock' \in BOOLEAN
           /\ \A c \in Contexts :
                  /\ ctx'[c].status = ctx[c].status
                  /\ ctx'[c].valid = ctx[c].valid
                  /\ ctx'[c].iThreadActiveFlag = ctx[c].iThreadActiveFlag
                  /\ ctx'[c].thrcpu = IF c = thread[t].my THEN s.thrcpu
                                      ELSE ctx[c].thrcpu
<1>1. thread[t].my \in Contexts
  BY SenderType DEF Locals
<1>2. s.thrcpu \in BOOLEAN /\ s.told \in Views /\ s.again \in BOOLEAN
      /\ s.lock \in BOOLEAN
  BY DEF Sendings
<1>3. ctx' = [ctx EXCEPT ![thread[t].my].thrcpu = s.thrcpu]
  BY DEF Sent
<1>4. ctx \in [Contexts -> Rows]
  BY DEF TypeOK
<1>5. ctx' \in [Contexts -> Rows]
  BY <1>1, <1>2, <1>3, <1>4 DEF Rows
<1> QED
  BY <1>1, <1>2, <1>3, <1>4, <1>5 DEF Sent, Rows

\* Threads that start.
LEMMA ThreadStarts ==
    ASSUME TypeOK, NEW c \in Contexts, StartThread(c)
    PROVE  \E t \in Threads :
               /\ t \notin Live /\ Live' = Live \cup {t}
               /\ thread'[t] \in Locals
               /\ thread'[t].pc = "begin" /\ thread'[t].my = c
               /\ thread'[t].iStatus = -1
               /\ \A u \in Threads : u # t => thread'[u] = thread[u]
               /\ thread' \in [Threads -> Locals \cup {NULL}]
<1>1. PICK t \in Threads \ Live : t = Some(Threads \ Live)
  <2>1. \E x \in Threads \ Live : TRUE
    BY DEF StartThread, Live
  <2> QED
    BY <2>1 DEF Some
<1> DEFINE new == [pc |-> "begin", my |-> c, iStatus |-> -1, iProcCount |-> 0,
                   left |-> {}]
<1>2. new \in Locals
  BY DEF Locals
<1>3. thread' = [thread EXCEPT ![t] = new]
  BY <1>1 DEF StartThread
<1> HIDE DEF new
<1>4. thread \in [Threads -> Locals \cup {NULL}]
  BY DEF TypeOK
<1>5. new # NULL
  BY <1>2, ProcMonAssumption
<1>6. Live' = Live \cup {t}
  BY <1>1, <1>3, <1>4, <1>5 DEF Live
<1> QED
  BY <1>1, <1>2, <1>3, <1>4, <1>6 DEF new

\* A thread that goes on.
LEMMA ThreadMoves ==
    ASSUME TypeOK, NEW t \in Live, NEW r \in Locals,
           thread' = [thread EXCEPT ![t] = r]
    PROVE  /\ thread' \in [Threads -> Locals \cup {NULL}]
           /\ Live' = Live
           /\ thread'[t] = r
           /\ \A u \in Threads : u # t => thread'[u] = thread[u]
<1>1. thread \in [Threads -> Locals \cup {NULL}] /\ t \in Threads
  BY DEF TypeOK, Live
<1>2. r # NULL
  BY ProcMonAssumption
<1> QED
  BY <1>1, <1>2 DEF Live

\* Goto changes the place only.
LEMMA ThreadGoes ==
    ASSUME TypeOK, NEW t \in Live,
           NEW pc \in {"begin", "find", "status", "exit", "check", "count",
                       "react", "hung", "blocked"},
           Goto(t, pc)
    PROVE  /\ thread' \in [Threads -> Locals \cup {NULL}]
           /\ Live' = Live
           /\ thread'[t].pc = pc
           /\ thread'[t].my = thread[t].my
           /\ thread'[t].iStatus = thread[t].iStatus
           /\ thread'[t].iProcCount = thread[t].iProcCount
           /\ \A u \in Threads : u # t => thread'[u] = thread[u]
<1>1. PICK l \in Locals : l = thread[t]
  BY SenderType
<1>2. PICK r \in Locals : r = [l EXCEPT !.pc = pc]
  BY DEF Locals
<1>3. thread' = [thread EXCEPT ![t] = r]
  BY <1>1, <1>2 DEF Goto
<1>4. /\ thread' \in [Threads -> Locals \cup {NULL}]
      /\ Live' = Live
      /\ thread'[t] = r
      /\ \A u \in Threads : u # t => thread'[u] = thread[u]
  BY <1>3, ThreadMoves
<1> QED
  BY <1>1, <1>2, <1>4 DEF Locals

\* Sleep ends a cycle.
LEMMA ThreadSleeps ==
    ASSUME TypeOK, NEW t \in Live, NEW i \in -1 .. 2, Sleep(t, i)
    PROVE  /\ thread' \in [Threads -> Locals \cup {NULL}]
           /\ Live' = Live
           /\ thread'[t].pc = "find"
           /\ thread'[t].my = thread[t].my
           /\ thread'[t].iStatus = i
           /\ \A u \in Threads : u # t => thread'[u] = thread[u]
<1>1. PICK l \in Locals : l = thread[t]
  BY SenderType
<1>2. PICK r \in Locals :
          r = [l EXCEPT !.pc = "find", !.iProcCount = 0, !.iStatus = i]
  BY DEF Locals
<1>3. thread' = [thread EXCEPT ![t] = r]
  BY <1>1, <1>2 DEF Sleep
<1>4. /\ thread' \in [Threads -> Locals \cup {NULL}]
      /\ Live' = Live
      /\ thread'[t] = r
      /\ \A u \in Threads : u # t => thread'[u] = thread[u]
  BY <1>3, ThreadMoves
<1> QED
  BY <1>1, <1>2, <1>4 DEF Locals

\* A thread that ends leaves the others alone.
LEMMA ThreadEnds ==
    ASSUME TypeOK, NEW t \in Live, thread' = [thread EXCEPT ![t] = NULL]
    PROVE  /\ thread' \in [Threads -> Locals \cup {NULL}]
           /\ Live' = Live \ {t}
           /\ \A u \in Threads : u # t => thread'[u] = thread[u]
BY DEF TypeOK, Live

\* CONTAINER_FIND gives the thread the row of the table.
LEMMA ThreadFinds ==
    ASSUME TypeOK, NEW t \in Live, container # NULL,
           thread' = [thread EXCEPT ![t].pc = "status", ![t].my = container]
    PROVE  /\ thread' \in [Threads -> Locals \cup {NULL}]
           /\ Live' = Live
           /\ thread'[t].pc = "status"
           /\ thread'[t].my = container
           /\ thread'[t].iStatus = thread[t].iStatus
           /\ \A u \in Threads : u # t => thread'[u] = thread[u]
<1>1. PICK l \in Locals : l = thread[t]
  BY SenderType
<1>2. PICK c \in Contexts : c = container
  BY DEF TypeOK
<1>3. PICK r \in Locals : r = [l EXCEPT !.pc = "status", !.my = c]
  BY DEF Locals
<1>4. thread' = [thread EXCEPT ![t] = r]
  BY <1>1, <1>2, <1>3
<1>5. /\ thread' \in [Threads -> Locals \cup {NULL}]
      /\ Live' = Live
      /\ thread'[t] = r
      /\ \A u \in Threads : u # t => thread'[u] = thread[u]
  BY <1>4, ThreadMoves
<1> QED
  BY <1>1, <1>2, <1>3, <1>5 DEF Locals

\* ProcMon_CheckProc begins.
LEMMA CheckBegins ==
    ASSUME TypeOK, NEW t \in Threads, CheckProc(t)
    PROVE  /\ t \in Live /\ thread[t].pc = "check"
           /\ thread' \in [Threads -> Locals \cup {NULL}]
           /\ Live' = Live
           /\ thread'[t].pc \in {"count", "react"}
           /\ thread'[t].my = thread[t].my
           /\ thread'[t].iStatus = thread[t].iStatus
           /\ thread'[t].iProcCount = 0
           /\ \A u \in Threads : u # t => thread'[u] = thread[u]
<1>1. t \in Live /\ thread[t].pc = "check"
  BY AtLive DEF CheckProc
<1>2. PICK l \in Locals : l = thread[t]
  BY <1>1, SenderType
<1>3. PICK pc \in {"react", "count"}, left \in SUBSET Pids :
          thread' = [thread EXCEPT ![t].pc = pc, ![t].iProcCount = 0,
                                   ![t].left = left]
  <2>1. gpstPsInfo.pids \in SUBSET Pids
    BY DEF TypeOK, CheckProc
  <2> QED
    BY <2>1 DEF CheckProc
<1>4. PICK r \in Locals :
          r = [l EXCEPT !.pc = pc, !.iProcCount = 0, !.left = left]
  BY DEF Locals
<1>5. thread' = [thread EXCEPT ![t] = r]
  BY <1>2, <1>3, <1>4
<1>6. /\ thread' \in [Threads -> Locals \cup {NULL}]
      /\ Live' = Live
      /\ thread'[t] = r
      /\ \A u \in Threads : u # t => thread'[u] = thread[u]
  BY <1>1, <1>5, ThreadMoves
<1> QED
  BY <1>1, <1>2, <1>4, <1>6 DEF Locals

-----------------------------------------------------------------------------
(* The traps of a cycle.                                                   *)

\* Nothing was told twice; while the lock is free, the last thing the thread told
\* is status, and an alert it told is in the row.
Fits(s, status) ==
    /\ s.waits => s.lock
    /\ ~s.again
    /\ ~s.lock => Known(s.told) = status /\ (Alert(s.told) => s.thrcpu)

\* A trap that says something new.
LEMMA SendFits ==
    ASSUME NEW s \in Sendings, NEW status, NEW trap \in Traps, port \in BOOLEAN
    PROVE  /\ Send(s, trap) \in Sendings
           /\ trap \in DOMAIN After /\ Fits(s, status) /\ status # After[trap]
                  => Fits(Send(s, trap), After[trap])
           /\ trap \notin DOMAIN After /\ Fits(s, status)
                  => Fits(Send(s, trap), status)
           /\ (s.waits => s.lock) => (Send(s, trap).waits => Send(s, trap).lock)
           /\ ~Send(s, trap).lock /\ (s.waits => s.lock) =>
                  /\ ~s.lock
                  /\ trap = "CpuRecovery" => ~Alert(Send(s, trap).told)
                  /\ trap \in DOMAIN After =>
                         Alert(Send(s, trap).told) = Alert(s.told)
<1>1. PICK r : r = Send(s, trap)
  OBVIOUS
<1>2. PICK new : new = After[trap]
  OBVIOUS
<1>3. /\ r \in Sendings
      /\ r.waits <=> s.waits \/ s.lock
      /\ r.lock <=> s.lock \/ (~s.waits /\ ~port)
      /\ ~r.waits => (r.thrcpu <=> Flag(s.thrcpu, trap))
      /\ IF s.waits \/ s.lock \/ ~port
         THEN r.told = s.told /\ r.again = s.again
         ELSE IF trap \in DOMAIN After
         THEN /\ Known(r.told) = new
              /\ Alert(r.told) = Alert(s.told)
              /\ r.again <=> s.again \/ new = Known(s.told)
         ELSE /\ Known(r.told) = Known(s.told)
              /\ Alert(r.told) <=> Flag(s.thrcpu, trap)
              /\ r.again = s.again
  BY <1>1, <1>2, SendFields
<1>4. DOMAIN After = {"Up", "Down", "Threshold", "Recovery"}
  BY AfterTrap
<1>5. \A x \in {s, r} : /\ x.waits \in BOOLEAN /\ x.lock \in BOOLEAN
                        /\ x.again \in BOOLEAN /\ x.thrcpu \in BOOLEAN
                        /\ Alert(x.told) \in BOOLEAN
  BY <1>3 DEF Sendings, Alert
<1>6. /\ trap \in DOMAIN After /\ Fits(s, status) /\ status # new
             => Fits(r, new)
      /\ trap \notin DOMAIN After /\ Fits(s, status) => Fits(r, status)
      /\ (s.waits => s.lock) => (r.waits => r.lock)
      /\ ~r.lock /\ (s.waits => s.lock) =>
             /\ ~s.lock
             /\ trap = "CpuRecovery" => ~Alert(r.told)
             /\ trap \in DOMAIN After => Alert(r.told) = Alert(s.told)
  BY <1>3, <1>4, <1>5 DEF Fits, Flag
<1> QED
  BY <1>1, <1>2, <1>3, <1>6

\* ProcMon_CheckProc has come to one more process.
LEMMA OneProcess ==
    ASSUME TypeOK, NEW t \in Threads, CheckProcess(t)
    PROVE  /\ t \in Live /\ thread[t].pc = "count"
           /\ \E s \in Sendings :
                  /\ Sent(t, s)
                  /\ \A status : Fits(Sender(t), status) => Fits(s, status)
                  /\ s.waits => s.lock
           /\ thread' \in [Threads -> Locals \cup {NULL}]
           /\ Live' = Live
           /\ thread'[t].pc \in {"count", "react", "hung"}
           /\ thread'[t].my = thread[t].my
           /\ thread'[t].iStatus = thread[t].iStatus
           /\ thread'[t].iProcCount \in Nat \ {0}
           /\ \A u \in Threads : u # t => thread'[u] = thread[u]
<1>1. t \in Live /\ thread[t].pc = "count"
  BY AtLive DEF CheckProcess
<1>2. PICK l \in Locals : l = thread[t]
  BY <1>1, SenderType
<1>3. PICK p \in l.left :
          LET s == checkThreshold(t, p)
          IN  /\ Sent(t, s)
              /\ thread' = [thread EXCEPT
                               ![t].pc = IF s.waits THEN "hung"
                                         ELSE IF l.left = {p} THEN "react"
                                         ELSE "count",
                               ![t].iProcCount = @ + 1,
                               ![t].left = @ \ {p}]
  BY <1>2 DEF CheckProcess
<1>4. PICK s : s = checkThreshold(t, p)
  OBVIOUS
<1>5. PICK pc \in {"hung", "react", "count"} :
          thread' = [thread EXCEPT ![t].pc = pc, ![t].iProcCount = @ + 1,
                                   ![t].left = @ \ {p}]
  BY <1>3
<1>6. PICK r \in Locals : r = [l EXCEPT !.pc = pc, !.iProcCount = @ + 1,
                                        !.left = @ \ {p}]
  <2>1. PICK n \in Nat : n = l.iProcCount + 1
    BY DEF Locals
  <2>2. PICK left \in SUBSET Pids : left = l.left \ {p}
    BY DEF Locals
  <2>3. [l EXCEPT !.pc = pc, !.iProcCount = n, !.left = left] \in Locals
    BY DEF Locals
  <2> QED
    BY <2>1, <2>2, <2>3
<1>7. thread' = [thread EXCEPT ![t] = r]
  BY <1>2, <1>5, <1>6
<1>8. /\ thread' \in [Threads -> Locals \cup {NULL}]
      /\ Live' = Live
      /\ thread'[t] = r
      /\ \A u \in Threads : u # t => thread'[u] = thread[u]
  BY <1>1, <1>7, ThreadMoves
<1>9. PICK s0 \in Sendings : s0 = Sender(t)
  BY <1>1, SenderType
<1>10. s0.waits = FALSE
  BY <1>9 DEF Sender
<1>11. s \in {s0, Send(s0, "CpuAlert"), Send(s0, "CpuRecovery")}
  BY <1>4, <1>9 DEF checkThreshold
<1>12. /\ s \in Sendings /\ (s.waits => s.lock)
       /\ \A status : Fits(s0, status) => Fits(s, status)
  <2>1. port \in BOOLEAN
    BY DEF TypeOK
  <2>2. {"CpuAlert", "CpuRecovery"} \subseteq Traps \ DOMAIN After
    BY AfterTrap DEF Traps
  <2> QED
    BY <1>10, <1>11, <2>1, <2>2, SendFits
<1>13. /\ thread'[t].pc \in {"count", "react", "hung"}
       /\ thread'[t].my = thread[t].my
       /\ thread'[t].iStatus = thread[t].iStatus
       /\ thread'[t].iProcCount \in Nat \ {0}
  BY <1>2, <1>6, <1>8 DEF Locals
<1>14. \E x \in Sendings :
           /\ Sent(t, x)
           /\ \A status : Fits(Sender(t), status) => Fits(x, status)
           /\ x.waits => x.lock
  BY <1>3, <1>4, <1>9, <1>12
<1> QED
  BY <1>1, <1>8, <1>13, <1>14

\* Tell is the end of a cycle, unless the thread waits for the lock.
LEMMA TellStep ==
    ASSUME TypeOK, NEW t \in Live, NEW s \in Sendings, NEW i \in -1 .. 2,
           Tell(t, s, i)
    PROVE  /\ Sent(t, s)
           /\ UNCHANGED <<container, file, mpc, undo, lists, raced, events>>
           /\ thread' \in [Threads -> Locals \cup {NULL}]
           /\ Live' = Live
           /\ thread'[t].pc = IF s.waits THEN "blocked" ELSE "find"
           /\ ~s.waits => thread'[t].iStatus = i
           /\ thread'[t].my = thread[t].my
           /\ \A u \in Threads : u # t => thread'[u] = thread[u]
<1>1. /\ Sent(t, s)
      /\ UNCHANGED <<container, file, mpc, undo, lists, raced, events>>
      /\ IF s.waits THEN Goto(t, "blocked") ELSE Sleep(t, i)
  BY DEF Tell
<1>2. CASE s.waits
  BY <1>1, <1>2, ThreadGoes
<1>3. CASE ~s.waits
  BY <1>1, <1>3, ThreadSleeps
<1> QED
  BY <1>2, <1>3

\* The names of the statuses differ.
LEMMA ToldNames ==
    ASSUME NEW i \in -1 .. 2
    PROVE  /\ Told(i) \in {"unknown", "down", "up", "over"}
           /\ Told(i) = "unknown" <=> i = -1
           /\ Told(i) = "down" <=> i = 0
           /\ Told(i) = "up" <=> i = 1
           /\ Told(i) = "over" <=> i = 2
BY DEF Told

\* The traps for a process that is gone: down is new, and no alert is left.
LEMMA DownFits ==
    ASSUME TypeOK, NEW t \in Live
    PROVE  /\ DownTraps(t) \in Sendings
           /\ DownTraps(t).waits => DownTraps(t).lock
           /\ Fits(Sender(t), Told(Status(t))) /\ Status(t) # 0 =>
                  /\ Fits(DownTraps(t), "down")
                  /\ ~DownTraps(t).lock => ~Alert(DownTraps(t).told)
<1>1. PICK s0 \in Sendings : s0 = Sender(t)
  BY SenderType
<1>2. PICK cond \in BOOLEAN : cond <=> Reacts(t, 1) /\ Recovers(t)
  OBVIOUS
<1>3. PICK flag \in BOOLEAN : flag = Mine(t).thrcpu
  BY SenderType DEF Rows
<1>4. PICK s1 : s1 = IF cond THEN Send(s0, "Recovery") ELSE s0
  OBVIOUS
<1>5. PICK s2 : s2 = IF flag THEN Send(s1, "CpuRecovery") ELSE s1
  OBVIOUS
<1>6. DownTraps(t) = Send(s2, "Down")
  BY <1>1, <1>2, <1>3, <1>4, <1>5 DEF DownTraps, SendIf
<1>7. /\ port \in BOOLEAN
      /\ {"Recovery", "CpuRecovery", "Down"} \subseteq Traps
      /\ After["Recovery"] = "up" /\ After["Down"] = "down"
      /\ "Recovery" \in DOMAIN After /\ "Down" \in DOMAIN After
      /\ "CpuRecovery" \notin DOMAIN After
  BY AfterTrap DEF TypeOK, Traps
<1>8. s0.waits = FALSE /\ s0.thrcpu = flag
  BY <1>1, <1>3 DEF Sender
<1>9. PICK st : st = Told(Status(t))
  OBVIOUS
<1>10. PICK st1 : st1 = IF cond THEN "up" ELSE st
  OBVIOUS
<1>11. cond => st = "over"
  BY <1>2, <1>9, ToldNames, SenderType DEF Recovers, Status, Locals
<1>12. /\ s1 \in Sendings /\ (s1.waits => s1.lock)
       /\ Fits(s0, st) => Fits(s1, st1)
       /\ ~s1.lock => ~s0.lock /\ Alert(s1.told) = Alert(s0.told)
  <2>1. CASE cond
    <3>1. PICK r : r = Send(s0, "Recovery")
      OBVIOUS
    <3>2. /\ r \in Sendings /\ (r.waits => r.lock)
          /\ Fits(s0, st) => Fits(r, "up")
          /\ ~r.lock => ~s0.lock /\ Alert(r.told) = Alert(s0.told)
      BY <3>1, <2>1, <1>7, <1>8, <1>11, SendFits
    <3> QED
      BY <3>1, <3>2, <2>1, <1>4, <1>10
  <2>2. CASE ~cond
    BY <2>2, <1>4, <1>8, <1>10
  <2> QED
    BY <2>1, <2>2
<1>13. /\ s2 \in Sendings /\ (s2.waits => s2.lock)
       /\ Fits(s1, st1) => Fits(s2, st1)
       /\ ~s2.lock /\ Fits(s0, st) => ~Alert(s2.told)
  <2>1. CASE flag
    <3>1. PICK r : r = Send(s1, "CpuRecovery")
      OBVIOUS
    <3>2. /\ r \in Sendings /\ (r.waits => r.lock)
          /\ Fits(s1, st1) => Fits(r, st1)
          /\ ~r.lock => ~Alert(r.told)
      BY <3>1, <1>7, <1>12, SendFits
    <3> QED
      BY <3>1, <3>2, <2>1, <1>5
  <2>2. CASE ~flag
    BY <2>2, <1>5, <1>8, <1>12 DEF Fits
  <2> QED
    BY <2>1, <2>2
<1>14. PICK r : r = Send(s2, "Down")
  OBVIOUS
<1>15. /\ r \in Sendings /\ (r.waits => r.lock)
       /\ st1 # "down" /\ Fits(s2, st1) => Fits(r, "down")
       /\ ~r.lock => ~s2.lock /\ Alert(r.told) = Alert(s2.told)
  BY <1>7, <1>13, <1>14, SendFits
<1>16. Status(t) # 0 => st1 # "down"
  BY <1>9, <1>10, ToldNames, SenderType DEF Status, Locals
<1> QED
  BY <1>1, <1>6, <1>9, <1>12, <1>13, <1>14, <1>15, <1>16

-----------------------------------------------------------------------------
(* The types of the state, step by step.                                   *)

\* The agent starts with a row of its file, and without threads.
LEMMA InitType == Init => TypeOK
<1> SUFFICES ASSUME Init PROVE TypeOK
  OBVIOUS
<1>1. PICK col \in Columns, status \in {"active", "notInService"} :
          file = Row(col, status, FALSE) /\ ctx = [c \in Contexts |-> file]
  BY DEF Init
<1>2. file \in Rows
  BY <1>1, RowType
<1>3. container \in Contexts
  BY ProcMonAssumption DEF Init, Some
<1>4. seen \in Views
  BY DEF Init, Views
<1>5. pids \subseteq Pids /\ hot \subseteq pids
  BY DEF Init
<1>6. /\ container \in Contexts \cup {NULL} /\ file \in Rows \cup {NULL}
      /\ ctx \in [Contexts -> Rows]
      /\ seen \in Views
  BY <1>1, <1>2, <1>3, <1>4 DEF Init
<1>7. /\ mpc = "start" /\ undo = NULL /\ thread = [t \in Threads |-> NULL]
      /\ gpstPsInfo = NULL /\ gpstPrePsInfo = {} /\ events = 0
      /\ full_process_list = FALSE /\ ready = TRUE /\ port \in BOOLEAN
      /\ sendTrapLock = FALSE /\ repeated = FALSE /\ mixed = FALSE
      /\ raced = FALSE
  BY DEF Init
<1>8. /\ full_process_list \in BOOLEAN /\ ready \in BOOLEAN
      /\ sendTrapLock \in BOOLEAN /\ repeated \in BOOLEAN
      /\ mixed \in BOOLEAN /\ raced \in BOOLEAN
  BY <1>7
<1>9. /\ thread \in [Threads -> Locals \cup {NULL}]
      /\ gpstPsInfo \in [pids : SUBSET Pids, hot : SUBSET Pids] \cup {NULL}
      /\ gpstPrePsInfo \subseteq Pids
      /\ events \in 0 .. MaxEvents
  BY <1>7, ProcMonAssumption
<1> QED
  BY <1>5, <1>6, <1>7, <1>8, <1>9 DEF TypeOK, Views

\* A committed row.
LEMMA CommitType ==
    ASSUME TypeOK, NEW c \in Contexts, NEW row \in Rows, Commit(c, row)
    PROVE  /\ ctx' \in [Contexts -> Rows] /\ file' \in Rows
           /\ thread' \in [Threads -> Locals \cup {NULL}]
           /\ mixed' \in BOOLEAN /\ raced' \in BOOLEAN
<1>1. file' \in Rows
  BY DEF Commit, UpdateDataFile
<1>2. PICK row2 \in Rows : row2 = [row EXCEPT !.iThreadActiveFlag = TRUE]
  BY DEF Rows
<1>3. ctx' \in [Contexts -> Rows]
  BY <1>2 DEF Commit, TypeOK
<1>4. CASE StartThread(c)
  BY <1>1, <1>3, <1>4, ThreadStarts DEF Commit, StartThread, TypeOK
<1>5. CASE ~StartThread(c)
  BY <1>1, <1>3, <1>5 DEF Commit, TypeOK
<1> QED
  BY <1>4, <1>5

\* ProcMon_RestartProcess starts one process or none.
LEMMA RestartProcessType ==
    ASSUME TypeOK, RestartProcess
    PROVE  /\ pids' \subseteq Pids /\ hot' \subseteq pids'
           /\ ready' \in BOOLEAN /\ port' \in BOOLEAN
BY DEF RestartProcess, TypeOK

\* What a SET writes into a row leaves its flags alone.
LEMMA ChangedRow ==
    ASSUME NEW col \in Columns, NEW status \in {"active", "notInService"},
           NEW old \in Rows
    PROVE  \E row \in Rows :
               /\ row = [Row(col, status, old.iThreadActiveFlag)
                            EXCEPT !.thrcpu = old.thrcpu]
               /\ row.iThreadActiveFlag = old.iThreadActiveFlag
               /\ row.thrcpu = old.thrcpu
<1>1. PICK flag \in BOOLEAN, cpu \in BOOLEAN :
          flag = old.iThreadActiveFlag /\ cpu = old.thrcpu
  BY DEF Rows
<1>2. PICK new \in Rows :
          new = Row(col, status, flag) /\ new.iThreadActiveFlag = flag
  BY RowType
<1>3. PICK row \in Rows :
          /\ row = [new EXCEPT !.thrcpu = cpu]
          /\ row.thrcpu = cpu /\ row.iThreadActiveFlag = new.iThreadActiveFlag
  <2>1. [new EXCEPT !.thrcpu = cpu] \in Rows
    BY FlagType
  <2>2. /\ [new EXCEPT !.thrcpu = cpu].thrcpu = cpu
        /\ [new EXCEPT !.thrcpu = cpu].iThreadActiveFlag
               = new.iThreadActiveFlag
    BY DEF Rows
  <2> QED
    BY <2>1, <2>2
<1> QED
  BY <1>1, <1>2, <1>3

\* What is left of a SET that is undone: the flags.
LEMMA UndoneRow ==
    ASSUME TypeOK, WatchInv, NEW lost \in BOOLEAN, Undone(lost)
    PROVE  /\ container \in Contexts
           /\ \E row \in Rows :
                  /\ ctx' = [ctx EXCEPT ![container] = row]
                  /\ row.status = undo.status /\ row.valid = undo.valid
                  /\ row.iThreadActiveFlag = ctx[container].iThreadActiveFlag
                  /\ row.thrcpu = ctx[container].thrcpu
<1>1. PICK c \in Contexts : c = container
  BY DEF Undone, WatchInv, TypeOK
<1>2. PICK old \in Rows : old = undo
  BY DEF Undone, WatchInv
<1>3. PICK flag \in BOOLEAN, cpu \in BOOLEAN :
          flag = ctx[c].iThreadActiveFlag /\ cpu = ctx[c].thrcpu
  BY DEF TypeOK, Rows
<1>4. PICK row \in Rows :
          /\ row = [old EXCEPT !.iThreadActiveFlag = flag, !.thrcpu = cpu]
          /\ row.status = old.status /\ row.valid = old.valid
          /\ row.iThreadActiveFlag = flag /\ row.thrcpu = cpu
  <2> DEFINE r == [old EXCEPT !.iThreadActiveFlag = flag, !.thrcpu = cpu]
  <2>1. r \in Rows
    BY DEF Rows
  <2>2. /\ r.status = old.status /\ r.valid = old.valid
        /\ r.iThreadActiveFlag = flag /\ r.thrcpu = cpu
    BY DEF Rows
  <2> QED
    BY <2>1, <2>2
<1>5. ctx' = [ctx EXCEPT ![c] = row]
  BY <1>1, <1>2, <1>3, <1>4 DEF Undone
<1> QED
  BY <1>1, <1>2, <1>3, <1>4, <1>5

\* Main thread and manager.
LEMMA TableType ==
    ASSUME TypeOK, WatchInv, Main \/ Manager
    PROVE  TypeOK'
<1>1. CASE MasterStarts
  <2>1. CASE container # NULL /\ ctx[container].valid
    <3>1. StartThread(container) /\ mpc' = "flag" /\ UNCHANGED ctx
      BY <1>1, <2>1 DEF MasterStarts
    <3>2. PICK c \in Contexts : c = container
      BY <2>1 DEF TypeOK
    <3>3. thread' \in [Threads -> Locals \cup {NULL}]
      BY <3>1, <3>2, ThreadStarts
    <3> QED
      BY <1>1, <3>1, <3>3
      DEF MasterStarts, StartThread, TypeOK, lists, outside
  <2>2. CASE ~(container # NULL /\ ctx[container].valid)
    <3>1. /\ mpc' = "serve" /\ UNCHANGED <<thread, mixed>>
          /\ ctx' = [c \in Contexts |->
                       IF c = container
                       THEN [ctx[c] EXCEPT !.iThreadActiveFlag = FALSE]
                       ELSE ctx[c]]
      BY <1>1, <2>2 DEF MasterStarts
    <3>2. ctx' \in [Contexts -> Rows]
      BY <3>1, FlagType DEF TypeOK
    <3> QED
      BY <1>1, <3>1, <3>2 DEF MasterStarts, TypeOK, lists, outside
  <2> QED
    BY <2>1, <2>2
<1>2. CASE MasterFlags
  <2>1. ctx' \in [Contexts -> Rows]
    <3>1. \A c \in Contexts :
              [ctx[c] EXCEPT !.iThreadActiveFlag = TRUE] \in Rows
      BY FlagType DEF TypeOK
    <3> QED
      BY <1>2, <3>1 DEF MasterFlags, TypeOK
  <2>2. raced' \in BOOLEAN
    BY <1>2 DEF MasterFlags
  <2> QED
    BY <1>2, <2>1, <2>2 DEF MasterFlags, TypeOK, lists, outside, view
<1>3. ASSUME NEW col \in Columns, NEW status \in {"active", "notInService"},
             Create(col, status)
      PROVE  TypeOK'
  <2>1. PICK c \in Contexts, row \in Rows : container' = c /\ Commit(c, row)
    BY <1>3, RowType DEF Create
  <2>2. [seen EXCEPT !.oldCpu = TRUE] \in Views
    BY DEF TypeOK, Views
  <2> QED
    BY <1>3, <2>1, <2>2, CommitType, ProcMonAssumption
    DEF Create, Event, TypeOK, lists, outside, Views
<1>4. ASSUME NEW col \in Columns, NEW status \in {"active", "notInService"},
             Change(col, status)
      PROVE  TypeOK'
  <2>1. PICK c \in Contexts : c = container
    BY <1>4 DEF Change, TypeOK
  <2>2. PICK old \in Rows : old = ctx[c]
    BY DEF TypeOK
  <2>3. PICK row \in Rows :
            row = [Row(col, status, old.iThreadActiveFlag)
                      EXCEPT !.thrcpu = old.thrcpu]
    <3>1. \E row \in Rows :
              /\ row = [Row(col, status, old.iThreadActiveFlag)
                           EXCEPT !.thrcpu = old.thrcpu]
              /\ row.iThreadActiveFlag = old.iThreadActiveFlag
              /\ row.thrcpu = old.thrcpu
      BY ChangedRow
    <3> QED
      BY <3>1
  <2>4. ctx' = [ctx EXCEPT ![c] = row] /\ undo' = old /\ mixed' \in BOOLEAN
    BY <1>4, <2>1, <2>2, <2>3 DEF Change
  <2> QED
    BY <1>4, <2>1, <2>2, <2>3, <2>4, ProcMonAssumption
    DEF Change, Event, TypeOK, lists, outside
<1>5. CASE Destroy
  <2>1. PICK c \in Contexts : c = container
    BY <1>5 DEF Destroy, TypeOK
  <2>2. PICK row \in Rows : row = [ctx[c] EXCEPT !.status = "destroy",
                                               !.iThreadActiveFlag = FALSE]
    BY DEF TypeOK, Rows
  <2>3. ctx' = [ctx EXCEPT ![c] = row] /\ file' = row
    BY <1>5, <2>1, <2>2 DEF Destroy, UpdateDataFile
  <2> QED
    BY <1>5, <2>3, ProcMonAssumption
    DEF Destroy, Event, TypeOK, lists, outside, view
<1>6. CASE ChangeCommitted
  <2>1. PICK c \in Contexts : c = container
    BY <1>6 DEF ChangeCommitted, WatchInv, TypeOK
  <2>2. PICK row \in Rows : row = ctx[c]
    BY DEF TypeOK
  <2>3. Commit(c, row)
    BY <1>6, <2>1, <2>2 DEF ChangeCommitted
  <2> QED
    BY <1>6, <2>3, CommitType DEF ChangeCommitted, TypeOK, lists, outside
<1>7. ASSUME NEW lost \in BOOLEAN, Undone(lost)
      PROVE  ctx' \in [Contexts -> Rows] /\ raced' \in BOOLEAN
  <2>1. \E c \in Contexts, row \in Rows :
            ctx' = [ctx EXCEPT ![c] = row]
    BY <1>7, UndoneRow
  <2> QED
    BY <1>7, <2>1 DEF Undone, TypeOK
<1>8. CASE ChangeUndone
  BY <1>7, <1>8 DEF ChangeUndone, Undone, TypeOK, lists, outside, view
<1>9. CASE ChangeUndoneHidden
  <2>1. PICK t \in Threads :
            /\ thread[t] # NULL /\ thread' = [thread EXCEPT ![t] = NULL]
            /\ Undone(TRUE)
    BY <1>9 DEF ChangeUndoneHidden
  <2>2. thread' \in [Threads -> Locals \cup {NULL}]
    BY <2>1, ThreadEnds DEF Live
  <2> QED
    BY <1>7, <2>1, <2>2 DEF Undone, TypeOK, lists, outside, view
<1> QED
  BY <1>1, <1>2, <1>3, <1>4, <1>5, <1>6, <1>8, <1>9 DEF Main, Manager

\* Where a cycle ends with a trap, the trap tells something new, and a process
\* that is reported down leaves no alert.
LEMMA ReactionTells ==
    ASSUME TypeOK, NEW t \in Threads,
           TooMany(t) \/ FewerAgain(t) \/ GoesDown(t) \/ ComesUp(t)
    PROVE  /\ t \in Live /\ thread[t].pc = "react" /\ mixed' = mixed
           /\ pids' \subseteq Pids /\ hot' \subseteq pids'
           /\ ready' \in BOOLEAN /\ port' \in BOOLEAN
           /\ \E s \in Sendings, i \in -1 .. 2 :
                  /\ Tell(t, s, i)
                  /\ s.waits => s.lock
                  /\ Fits(Sender(t), Told(Status(t))) =>
                         /\ Fits(s, Told(i))
                         /\ i = 0 /\ ~s.lock => ~Alert(s.told)
<1>1. t \in Live /\ thread[t].pc = "react"
  BY AtLive DEF TooMany, FewerAgain, GoesDown, ComesUp, Reacts
<1>2. Status(t) \in -1 .. 2 /\ port \in BOOLEAN
  BY <1>1, SenderType DEF Status, Locals, TypeOK
<1>3. PICK s0 \in Sendings : s0 = Sender(t)
  BY <1>1, SenderType
<1>4. PICK st : st = Told(Status(t))
  OBVIOUS
<1>5. s0.waits = FALSE
  BY <1>3 DEF Sender
<1>6. /\ {"Up", "Down", "Threshold", "Recovery"} \subseteq Traps
      /\ DOMAIN After = {"Up", "Down", "Threshold", "Recovery"}
      /\ After["Up"] = "up" /\ After["Recovery"] = "up"
      /\ After["Threshold"] = "over"
  BY AfterTrap DEF Traps
<1>7. Told(2) = "over" /\ Told(1) = "up" /\ Told(0) = "down"
  BY ToldNames
<1>8. CASE TooMany(t)
  <2>1. PICK s1 : s1 = SendIf(s0, Status(t) = 0, "Up")
    OBVIOUS
  <2>2. PICK st1 : st1 = IF Status(t) = 0 THEN "up" ELSE st
    OBVIOUS
  <2>3. /\ s1 \in Sendings /\ (s1.waits => s1.lock)
        /\ Fits(s0, st) => Fits(s1, st1)
    <3>1. CASE Status(t) = 0
      <4>1. st = "down"
        BY <3>1, <1>4, <1>7
      <4>2. PICK r : r = Send(s0, "Up")
        OBVIOUS
      <4>3. /\ r \in Sendings /\ (r.waits => r.lock)
            /\ Fits(s0, st) => Fits(r, "up")
        BY <4>1, <4>2, <1>2, <1>5, <1>6, SendFits
      <4> QED
        BY <4>2, <4>3, <3>1, <2>1, <2>2 DEF SendIf
    <3>2. CASE Status(t) # 0
      BY <3>2, <2>1, <2>2, <1>5 DEF SendIf
    <3> QED
      BY <3>1, <3>2
  <2>4. st1 # "over"
    BY <1>2, <1>4, <1>8, <2>2, ToldNames DEF TooMany
  <2>5. PICK s : s = Send(s1, "Threshold")
    OBVIOUS
  <2>6. /\ s \in Sendings /\ (s.waits => s.lock)
        /\ Fits(s1, st1) => Fits(s, "over")
    BY <2>3, <2>4, <2>5, <1>2, <1>6, SendFits
  <2>7. Tell(t, s, 2) /\ UNCHANGED <<outside, mixed>>
    BY <1>3, <1>8, <2>1, <2>5 DEF TooMany
  <2> QED
    BY <1>1, <1>3, <1>4, <1>7, <2>3, <2>6, <2>7 DEF outside, TypeOK
<1>9. ASSUME NEW trap \in {"Up", "Recovery"}, st # "up",
             Tell(t, Send(Sender(t), trap), 1), UNCHANGED <<outside, mixed>>
      PROVE  /\ pids' \subseteq Pids /\ hot' \subseteq pids'
             /\ ready' \in BOOLEAN /\ port' \in BOOLEAN
             /\ \E s \in Sendings, i \in -1 .. 2 :
                    /\ Tell(t, s, i)
                    /\ s.waits => s.lock
                    /\ Fits(s0, st) =>
                           /\ Fits(s, Told(i))
                           /\ i = 0 /\ ~s.lock => ~Alert(s.told)
  <2>1. PICK s : s = Send(s0, trap)
    OBVIOUS
  <2>2. /\ s \in Sendings /\ (s.waits => s.lock)
        /\ Fits(s0, st) => Fits(s, "up")
    BY <2>1, <1>2, <1>5, <1>6, <1>9, SendFits
  <2> QED
    BY <1>3, <1>7, <1>9, <2>1, <2>2 DEF outside, TypeOK
<1>10. CASE FewerAgain(t)
  <2>1. st # "up" /\ Tell(t, Send(Sender(t), "Recovery"), 1)
        /\ UNCHANGED <<outside, mixed>>
    BY <1>4, <1>7, <1>10 DEF FewerAgain, Recovers
  <2> QED
    BY <1>1, <1>3, <1>4, <1>9, <2>1
<1>11. CASE ComesUp(t)
  <2>1. st # "up" /\ Tell(t, Send(Sender(t), "Up"), 1)
        /\ UNCHANGED <<outside, mixed>>
    BY <1>2, <1>4, <1>11, ToldNames DEF ComesUp
  <2> QED
    BY <1>1, <1>3, <1>4, <1>9, <2>1
<1>12. CASE GoesDown(t)
  <2>1. PICK s : s = DownTraps(t)
    OBVIOUS
  <2>2. /\ s \in Sendings /\ (s.waits => s.lock)
        /\ Fits(s0, st) => Fits(s, "down") /\ (~s.lock => ~Alert(s.told))
    BY <1>1, <1>3, <1>4, <1>12, <2>1, DownFits DEF GoesDown
  <2>3. Tell(t, s, 0) /\ AfterDown(t) /\ UNCHANGED mixed
    BY <1>12, <2>1 DEF GoesDown
  <2>4. /\ pids' \subseteq Pids /\ hot' \subseteq pids'
        /\ ready' \in BOOLEAN /\ port' \in BOOLEAN
    <3>1. CASE UNCHANGED outside
      BY <3>1 DEF outside, TypeOK
    <3>2. CASE RestartProcess
      BY <3>2, RestartProcessType
    <3> QED
      BY <2>3, <3>1, <3>2 DEF AfterDown
  <2> QED
    BY <1>1, <1>3, <1>4, <1>7, <2>2, <2>3, <2>4
<1> QED
  BY <1>8, <1>10, <1>11, <1>12

\* Reaction 2 tells that the process is up, whatever was told before.
LEMMA RestartsTells ==
    ASSUME TypeOK, NEW t \in Threads, Restarts(t)
    PROVE  /\ t \in Live /\ mixed' = TRUE
           /\ pids' \subseteq Pids /\ hot' \subseteq pids'
           /\ ready' \in BOOLEAN /\ port' \in BOOLEAN
           /\ \E s \in Sendings, i \in -1 .. 2 : Tell(t, s, i)
<1>1. t \in Live
  BY AtLive DEF Restarts, Reacts
<1>2. PICK s0 \in Sendings : s0 = Sender(t)
  BY <1>1, SenderType
<1>3. PICK s : s = Send(s0, "Up")
  OBVIOUS
<1>4. s \in Sendings
  BY <1>3, SendFits DEF TypeOK, Traps
<1>5. PICK i \in -1 .. 2 : i = Status(t)
  BY <1>1, SenderType DEF Status, Locals
<1>6. Tell(t, s, i)
  BY <1>2, <1>3, <1>5 DEF Restarts
<1> QED
  BY <1>1, <1>4, <1>6, RestartProcessType DEF Restarts

\* The threads.
LEMMA ThreadType ==
    ASSUME TypeOK, NEW t \in Threads, ProcMonThread(t)
    PROVE  TypeOK'
<1>1. CASE Begin(t)
  <2>1. t \in Live
    BY <1>1, AtLive DEF Begin
  <2>2. thread' \in [Threads -> Locals \cup {NULL}]
    BY <1>1, <2>1, ThreadGoes DEF Begin
  <2>3. thread[t].my \in Contexts
    BY <2>1, SenderType DEF Locals
  <2>4. ctx' \in [Contexts -> Rows]
    <3>1. \A c \in Contexts : [ctx[c] EXCEPT !.thrcpu = FALSE] \in Rows
      BY FlagType DEF TypeOK
    <3> QED
      BY <1>1, <2>3, <3>1 DEF Begin, TypeOK
  <2>5. seen' \in Views
    BY <1>1, BeforeFields DEF Begin, TypeOK
  <2> QED
    BY <1>1, <2>2, <2>4, <2>5 DEF Begin, TypeOK, lists, outside, Views
<1>2. CASE FindRow(t)
  <2>1. thread' \in [Threads -> Locals \cup {NULL}]
    BY <1>2, AtLive, ThreadFinds DEF FindRow
  <2> QED
    BY <1>2, <2>1 DEF FindRow, TypeOK, table, lists, outside, view
<1>3. CASE RowGone(t)
  <2>1. thread' \in [Threads -> Locals \cup {NULL}]
    BY <1>3, AtLive, ThreadEnds DEF RowGone
  <2> QED
    BY <1>3, <2>1 DEF RowGone, TypeOK, table, lists, outside, view
<1>4. CASE ReadStatus(t)
  <2>1. PICK pc \in {"exit", "check", "find"} : Goto(t, pc)
    BY <1>4 DEF ReadStatus
  <2>2. thread' \in [Threads -> Locals \cup {NULL}]
    BY <1>4, <2>1, AtLive, ThreadGoes DEF ReadStatus
  <2> QED
    BY <1>4, <2>2 DEF ReadStatus, TypeOK, table, lists, outside, view
<1>5. CASE EndThread(t)
  <2>1. t \in Live
    BY <1>5, AtLive DEF EndThread
  <2>2. thread' \in [Threads -> Locals \cup {NULL}]
    BY <1>5, <2>1, ThreadEnds DEF EndThread
  <2>3. ctx' \in [Contexts -> Rows]
    <3>1. \A c \in Contexts :
              [ctx[c] EXCEPT !.iThreadActiveFlag = FALSE] \in Rows
      BY FlagType DEF TypeOK
    <3> QED
      BY <1>5, <3>1 DEF EndThread, TypeOK
  <2>4. raced' \in BOOLEAN
    BY <1>5 DEF EndThread
  <2> QED
    BY <1>5, <2>2, <2>3, <2>4 DEF EndThread, TypeOK, lists, outside, view
<1>6. CASE NoList(t)
  <2>1. thread' \in [Threads -> Locals \cup {NULL}]
    BY <1>6, AtLive, ThreadGoes DEF NoList
  <2> QED
    BY <1>6, <2>1 DEF NoList, TypeOK, table, lists, outside, view
<1>7. CASE CheckProc(t)
  <2>1. thread' \in [Threads -> Locals \cup {NULL}]
    BY <1>7, CheckBegins
  <2>2. UNCHANGED <<table, lists, outside, view, raced, events>>
    BY <1>7 DEF CheckProc
  <2> QED
    BY <2>1, <2>2 DEF TypeOK, table, lists, outside, view
<1>8. CASE CheckProcess(t)
  <2>1. thread' \in [Threads -> Locals \cup {NULL}] /\ t \in Live
    BY <1>8, OneProcess
  <2>2. PICK s \in Sendings : Sent(t, s)
    BY <1>8, OneProcess
  <2>3. /\ ctx' \in [Contexts -> Rows] /\ seen' \in Views
        /\ repeated' \in BOOLEAN /\ sendTrapLock' \in BOOLEAN
    BY <2>1, <2>2, SentRows
  <2>4. UNCHANGED <<container, file, mpc, undo, lists, outside, mixed, raced,
                    events>>
    BY <1>8 DEF CheckProcess
  <2> QED
    BY <2>1, <2>3, <2>4 DEF TypeOK, lists, outside, Views
<1>9. ASSUME t \in Live, NEW s \in Sendings, NEW i \in -1 .. 2, Tell(t, s, i),
             pids' \subseteq Pids, hot' \subseteq pids', ready' \in BOOLEAN,
             port' \in BOOLEAN, mixed' \in BOOLEAN
      PROVE  TypeOK'
  <2>1. /\ thread' \in [Threads -> Locals \cup {NULL}] /\ Sent(t, s)
        /\ UNCHANGED <<container, file, mpc, undo, lists, raced, events>>
    BY <1>9, TellStep
  <2>2. /\ ctx' \in [Contexts -> Rows] /\ seen' \in Views
        /\ repeated' \in BOOLEAN /\ sendTrapLock' \in BOOLEAN
    BY <1>9, <2>1, SentRows
  <2> QED
    BY <1>9, <2>1, <2>2 DEF TypeOK, lists, Views
<1>10. CASE TooMany(t) \/ FewerAgain(t) \/ GoesDown(t) \/ ComesUp(t)
  <2>1. mixed' \in BOOLEAN
    BY <1>10, ReactionTells DEF TypeOK
  <2> QED
    BY <1>9, <1>10, <2>1, ReactionTells
<1>11. CASE Restarts(t)
  BY <1>9, <1>11, RestartsTells
<1>12. ASSUME At(t, "react"), Sleep(t, Status(t))
       PROVE  thread' \in [Threads -> Locals \cup {NULL}]
  <2>1. t \in Live
    BY <1>12, AtLive
  <2>2. PICK i \in -1 .. 2 : i = Status(t)
    BY <2>1, SenderType DEF Status, Locals
  <2> QED
    BY <1>12, <2>1, <2>2, ThreadSleeps
<1>13. CASE RestartsAgain(t)
  <2>1. thread' \in [Threads -> Locals \cup {NULL}]
    BY <1>12, <1>13 DEF RestartsAgain, Reacts
  <2> QED
    BY <1>13, <2>1, RestartProcessType
    DEF RestartsAgain, TypeOK, table, lists, view
<1>14. CASE UpUntold(t)
  <2>1. thread' \in [Threads -> Locals \cup {NULL}]
    BY <1>12, <1>14 DEF UpUntold, Reacts
  <2> QED
    BY <1>14, <2>1 DEF UpUntold, TypeOK, table, lists, outside
<1>15. CASE NothingNew(t)
  <2>1. thread' \in [Threads -> Locals \cup {NULL}]
    BY <1>12, <1>15 DEF NothingNew, Reacts
  <2> QED
    BY <1>15, <2>1 DEF NothingNew, TypeOK, table, lists, outside, view
<1> QED
  BY <1>1, <1>2, <1>3, <1>4, <1>5, <1>6, <1>7, <1>8, <1>10, <1>11, <1>13, <1>14,
     <1>15 DEF ProcMonThread

\* What happens outside, and the list reader.
OutsideStep == \/ ReadList \/ ReadFails
               \/ ProcessesChange \/ ReadyChanges \/ PortChanges

\* The world outside and the list reader leave rows and threads alone.
LEMMA OutsideType ==
    ASSUME TypeOK, OutsideStep
    PROVE  TypeOK' /\ UNCHANGED <<table, thread, view, raced>>
<1>1. CASE ReadList
  <2>1. [pids |-> pids, hot |-> hot] \in [pids : SUBSET Pids, hot : SUBSET Pids]
    BY DEF TypeOK
  <2>2. (IF gpstPsInfo = NULL THEN {} ELSE gpstPsInfo.pids) \subseteq Pids
    BY DEF TypeOK
  <2> QED
    BY <1>1, <2>1, <2>2 DEF ReadList, TypeOK, table, outside, view
<1>2. CASE ReadFails
  <2>1. full_process_list' \in BOOLEAN
    BY <1>2 DEF ReadFails
  <2>2. events' \in 0 .. MaxEvents
    BY <1>2, ProcMonAssumption DEF ReadFails, Event, TypeOK
  <2>3. UNCHANGED <<table, thread, gpstPsInfo, gpstPrePsInfo, outside, view,
                    raced>>
    BY <1>2 DEF ReadFails
  <2> QED
    BY <2>1, <2>2, <2>3 DEF TypeOK, table, outside, view
<1>3. CASE ProcessesChange
  <2>1. pids' \subseteq Pids /\ hot' \subseteq pids'
    BY <1>3 DEF ProcessesChange
  <2>2. events' \in 0 .. MaxEvents
    BY <1>3, ProcMonAssumption DEF ProcessesChange, Event, TypeOK
  <2>3. UNCHANGED <<table, thread, lists, ready, port, view, raced>>
    BY <1>3 DEF ProcessesChange
  <2> QED
    BY <2>1, <2>2, <2>3 DEF TypeOK, table, lists, view
<1>4. CASE ReadyChanges
  BY <1>4, ProcMonAssumption
  DEF ReadyChanges, Event, TypeOK, table, lists, view
<1>5. CASE PortChanges
  BY <1>5, ProcMonAssumption
  DEF PortChanges, Event, TypeOK, table, lists, view
<1> QED
  BY <1>1, <1>2, <1>3, <1>4, <1>5 DEF OutsideStep

\* A new agent loads the row of the file, or none.
LEMMA RestartType ==
    ASSUME TypeOK, Restart
    PROVE  TypeOK'
<1>1. /\ file' \in Rows \cup {NULL} /\ container' \in Contexts \cup {NULL}
      /\ ctx' \in [Contexts -> Rows]
  BY ProcMonAssumption DEF Restart, Load, Some, TypeOK
<1>2. /\ full_process_list' \in BOOLEAN /\ repeated' \in BOOLEAN
      /\ mixed' \in BOOLEAN /\ raced' \in BOOLEAN /\ sendTrapLock' \in BOOLEAN
  BY DEF Restart
<1>3. seen' \in Views
  BY BeforeFields DEF Restart, TypeOK
<1>4. /\ mpc' = "start" /\ undo' = NULL /\ thread' = [t \in Threads |-> NULL]
      /\ gpstPsInfo' = NULL /\ gpstPrePsInfo' = {} /\ UNCHANGED outside
      /\ events' \in 0 .. MaxEvents
  BY ProcMonAssumption DEF Restart, Event, TypeOK
<1> QED
  BY <1>1, <1>2, <1>3, <1>4 DEF TypeOK, outside, Views

\* Every step keeps the types.
LEMMA TypeStep == TypeOK /\ WatchInv /\ [Next]_vars => TypeOK'
<1> SUFFICES ASSUME TypeOK, WatchInv, [Next]_vars PROVE TypeOK'
  OBVIOUS
<1>1. CASE Next
  BY <1>1, TableType, ThreadType, OutsideType, RestartType
  DEF Next, OutsideStep
<1>2. CASE UNCHANGED vars
  BY <1>2 DEF TypeOK, vars, table, lists, outside, view
<1> QED
  BY <1>1, <1>2

-----------------------------------------------------------------------------
(* The invariant, step by step.                                            *)

\* A step that changes no thread's row and no flag.
RowsKept ==
    /\ UNCHANGED <<container, mpc, undo, raced>>
    /\ Live' = Live
    /\ \A t \in Live : thread'[t].my = thread[t].my
    /\ \A c \in Contexts :
           /\ ctx'[c].status = ctx[c].status /\ ctx'[c].valid = ctx[c].valid
           /\ ctx'[c].iThreadActiveFlag = ctx[c].iThreadActiveFlag

\* Then the flags stand for the same threads.
LEMMA WatchKept ==
    ASSUME ProcMonInv, RowsKept
    PROVE  /\ WatchInv'
           /\ (mixed' = mixed \/ mixed') => FlagInv'
           /\ Flagged' <=> Flagged
           /\ \A c \in Contexts : Wanted(c)' <=> Wanted(c)
<1>1. container \in Contexts \cup {NULL}
  BY DEF ProcMonInv, TypeOK
<1>2. \A c \in Contexts : Wanted(c)' <=> Wanted(c)
  BY DEF RowsKept, Wanted
<1>3. Flagged' <=> Flagged
  BY <1>1 DEF RowsKept, Flagged
<1>4. /\ container # NULL => (Wanted(container)' <=> Wanted(container))
      /\ Undoing' <=> Undoing
  BY <1>1, <1>2 DEF RowsKept, Undoing
<1>5. WatchInv'
  BY <1>1, <1>4 DEF RowsKept, WatchInv, ProcMonInv
<1>6. (mixed' = mixed \/ mixed') => FlagInv'
  BY <1>1, <1>3, <1>4 DEF RowsKept, FlagInv, ProcMonInv
<1> QED
  BY <1>2, <1>3, <1>5, <1>6

\* The only thread decides.
LEMMA Alone ==
    ASSUME ProcMonInv, NEW t \in Live, ~mixed', mixed' = mixed, Live' = Live,
           sendTrapLock' \in BOOLEAN, ~repeated',
           ~sendTrapLock' => TrapOf(t)' /\ AlertOf(t)'
    PROVE  TrapInv' /\ AlertInv'
<1>1. OneThread /\ \A u \in Live : u = t
  BY DEF ProcMonInv, TrapInv, OneThread
<1>2. OneThread'
  BY <1>1 DEF OneThread
<1> QED
  BY <1>1, <1>2 DEF TrapInv, AlertInv

\* The invariant does not speak of the lists and the processes.
LEMMA OutsideInv ==
    ASSUME ProcMonInv, OutsideStep
    PROVE  ProcMonInv'
<1>1. TypeOK' /\ UNCHANGED <<table, thread, view, raced>>
  BY OutsideType DEF ProcMonInv
<1>2. WatchInv' /\ TrapInv' /\ FlagInv' /\ AlertInv'
  BY <1>1 DEF ProcMonInv, table, view, WatchInv, TrapInv, FlagInv, AlertInv,
              Live, OneThread, TrapOf, Flagged, Wanted, Undoing, AlertOf,
              AlertKnown, Mine
<1> QED
  BY <1>1, <1>2 DEF ProcMonInv

\* A new agent has no threads.
LEMMA RestartInv ==
    ASSUME ProcMonInv, Restart
    PROVE  ProcMonInv'
<1>1. Live' = {} /\ mpc' = "start" /\ ~repeated'
  BY DEF Restart, Live
<1> QED
  BY <1>1, RestartType
  DEF ProcMonInv, WatchInv, TrapInv, FlagInv, AlertInv, OneThread, Flagged

\* Nor has the first one.
LEMMA InitInv == Init => ProcMonInv
<1> SUFFICES ASSUME Init PROVE ProcMonInv
  OBVIOUS
<1>1. Live = {} /\ mpc = "start" /\ ~repeated
  BY DEF Init, Live
<1> QED
  BY <1>1, InitType
  DEF ProcMonInv, WatchInv, TrapInv, FlagInv, AlertInv, OneThread, Flagged

\* A new thread knows of no alert, and has told of none.
LEMMA BeginInv ==
    ASSUME ProcMonInv, NEW t \in Threads, Begin(t)
    PROVE  WatchInv' /\ TrapInv' /\ FlagInv' /\ AlertInv'
<1> USE DEF ProcMonInv
<1>1. t \in Live /\ thread[t].pc = "begin" /\ TypeOK
  BY AtLive DEF Begin
<1>2. /\ Live' = Live /\ thread'[t].pc = "find"
      /\ thread'[t].iStatus = thread[t].iStatus
      /\ \A u \in Live : thread'[u].my = thread[u].my
  BY <1>1, ThreadGoes DEF Begin, Live
<1>3. thread[t].my \in Contexts
  BY <1>1, SenderType DEF Locals
<1>4. RowsKept
  BY <1>2, <1>3 DEF Begin, RowsKept, TypeOK, Rows
<1>5. /\ Known(seen') = "unknown" /\ ~Alert(seen')
      /\ UNCHANGED <<repeated, mixed, sendTrapLock>>
  BY BeforeFields DEF Begin, TypeOK
<1>6. ~mixed /\ ~sendTrapLock => TrapOf(t)' /\ AlertOf(t)'
  BY <1>1, <1>2, <1>5 DEF TrapInv, TrapOf, AlertOf, AlertKnown, Told
<1> QED
  BY <1>1, <1>2, <1>4, <1>5, <1>6, WatchKept, Alone
  DEF TrapInv, AlertInv, TypeOK

\* A thread that looks its row up sees the alert it has told of, if the row is to
\* be watched.
LEMMA FindRowInv ==
    ASSUME ProcMonInv, NEW t \in Threads, FindRow(t)
    PROVE  WatchInv' /\ TrapInv' /\ FlagInv' /\ AlertInv'
<1> USE DEF ProcMonInv
<1>1. t \in Live /\ thread[t].pc = "find" /\ TypeOK
  BY AtLive DEF FindRow
<1>2. /\ UNCHANGED <<table, view, raced>> /\ container # NULL
      /\ Live' = Live /\ thread'[t].pc = "status"
      /\ thread'[t].my = container
      /\ thread'[t].iStatus = thread[t].iStatus
      /\ \A u \in Live : u # t => thread'[u] = thread[u]
  BY <1>1, ThreadFinds DEF FindRow, Live
<1>3. WatchInv'
  BY <1>1, <1>2 DEF WatchInv, table, Wanted
<1>4. /\ (Flagged' <=> Flagged) /\ (Wanted(container)' <=> Wanted(container))
      /\ Undoing' <=> Undoing
  BY <1>2 DEF Flagged, Wanted, Undoing, table
<1>5. FlagInv'
  BY <1>2, <1>4 DEF FlagInv, table, view
<1>6. ~mixed /\ ~sendTrapLock => TrapOf(t)' /\ AlertOf(t)'
  <2> SUFFICES ASSUME ~mixed, ~sendTrapLock PROVE TrapOf(t)' /\ AlertOf(t)'
    OBVIOUS
  <2>1. TrapOf(t) /\ AlertOf(t)
    BY <1>1 DEF TrapInv, AlertInv
  <2>2. TrapOf(t)'
    BY <1>1, <1>2, <2>1 DEF TrapOf, view
  <2>3. Known(seen) = "down" => ~Alert(seen)
    BY <1>1, <2>1 DEF AlertOf
  <2>4. Flagged => AlertKnown(t)'
    <3>1. Flagged => thread[t].my = container /\ AlertKnown(t)
      BY <1>1, <2>1 DEF FlagInv, AlertOf
    <3> QED
      BY <1>2, <3>1 DEF AlertKnown, Mine, table, view
  <2>5. Wanted(container) => Flagged
    BY <1>1, <1>2 DEF FlagInv, WatchInv, Flagged, TypeOK
  <2> QED
    BY <1>2, <1>4, <2>2, <2>3, <2>4, <2>5 DEF AlertOf, table, view, Wanted
<1> QED
  BY <1>1, <1>2, <1>3, <1>5, <1>6, Alone DEF TrapInv, AlertInv, TypeOK, view

\* A thread that ends was the only one.
LEMMA RowGoneInv ==
    ASSUME ProcMonInv, NEW t \in Threads, RowGone(t)
    PROVE  WatchInv' /\ TrapInv' /\ FlagInv' /\ AlertInv'
<1> USE DEF ProcMonInv
<1>1. t \in Live /\ TypeOK /\ thread[t].my # container
  BY AtLive DEF RowGone
<1>2. /\ UNCHANGED <<table, view, raced>>
      /\ Live' = Live \ {t}
      /\ \A u \in Live' : thread'[u] = thread[u]
  BY <1>1, ThreadEnds DEF RowGone, Live
<1>3. ~mixed => Live' = {}
  BY <1>1, <1>2 DEF TrapInv, OneThread
<1>4. WatchInv'
  BY <1>1, <1>2 DEF WatchInv, table, Wanted
<1> QED
  BY <1>2, <1>3, <1>4 DEF TrapInv, FlagInv, AlertInv, OneThread, view

\* The flag ends with the thread; a row that is active again is a lost race.
LEMMA EndThreadInv ==
    ASSUME ProcMonInv, NEW t \in Threads, EndThread(t)
    PROVE  WatchInv' /\ TrapInv' /\ FlagInv' /\ AlertInv'
<1> USE DEF ProcMonInv
<1>1. t \in Live /\ TypeOK /\ thread[t].my \in Contexts
  BY AtLive, SenderType DEF EndThread, Locals
<1>2. /\ UNCHANGED <<container, mpc, undo, view>>
      /\ Live' = Live \ {t}
      /\ \A u \in Live' : thread'[u] = thread[u]
  BY <1>1, ThreadEnds DEF EndThread, Live
<1>3. ~mixed => Live' = {}
  BY <1>1, <1>2 DEF TrapInv, OneThread
<1>4. \A c \in Contexts :
          /\ ctx'[c].status = ctx[c].status /\ ctx'[c].valid = ctx[c].valid
          /\ c # thread[t].my => ctx'[c] = ctx[c]
          /\ c = thread[t].my => ctx'[c].iThreadActiveFlag = FALSE
  BY <1>1 DEF EndThread, TypeOK, Rows
<1>5. raced' <=> \/ raced
                 \/ /\ thread[t].my = container
                    /\ ctx[container].status = "active" /\ mpc # "set"
  BY DEF EndThread, Mine
<1>6. WatchInv'
  BY <1>1, <1>2, <1>4, <1>5 DEF WatchInv, Wanted, TypeOK
<1> QED
  BY <1>2, <1>3, <1>6 DEF TrapInv, FlagInv, AlertInv, OneThread, view

\* A thread that moves on without a trap.
LEMMA MoveInv ==
    ASSUME ProcMonInv, NEW t \in Live, UNCHANGED <<table, view, raced>>,
           Live' = Live, \A u \in Live : u # t => thread'[u] = thread[u],
           thread'[t].my = thread[t].my, thread[t].pc # "begin",
           thread'[t].pc # "begin", thread'[t].iStatus = thread[t].iStatus,
           ~mixed /\ ~sendTrapLock =>
               /\ thread'[t].pc \in {"status", "check", "count", "react"} =>
                      AlertKnown(t)
               /\ thread'[t].pc \in {"find", "status", "check"}
                    \/ thread'[t].iProcCount = 0 =>
                      (Known(seen) = "down" => ~Alert(seen))
    PROVE  WatchInv' /\ TrapInv' /\ FlagInv' /\ AlertInv'
<1> USE DEF ProcMonInv
<1>1. RowsKept
  BY DEF RowsKept, table
<1>2. Flagged' <=> Flagged
  BY <1>1, WatchKept
<1>3. AlertKnown(t)' <=> AlertKnown(t)
  BY DEF AlertKnown, Mine, table, view
<1>4. ~mixed /\ ~sendTrapLock => TrapOf(t)' /\ AlertOf(t)'
  <2> SUFFICES ASSUME ~mixed, ~sendTrapLock PROVE TrapOf(t)' /\ AlertOf(t)'
    OBVIOUS
  <2>1. TrapOf(t) /\ AlertOf(t)
    BY DEF TrapInv, AlertInv
  <2>2. TrapOf(t)'
    BY <2>1 DEF TrapOf, view
  <2>3. AlertOf(t)'
    BY <1>2, <1>3, <2>1 DEF AlertOf, view
  <2> QED
    BY <2>2, <2>3
<1>5. UNCHANGED <<mixed, repeated, sendTrapLock>>
  BY DEF view
<1> QED
  BY <1>1, <1>4, <1>5, WatchKept, Alone DEF TrapInv, AlertInv, TypeOK

\* The steps between the traps.
LEMMA MovesInv ==
    ASSUME ProcMonInv, NEW t \in Threads,
           \/ ReadStatus(t) \/ NoList(t) \/ CheckProc(t)
           \/ RestartsAgain(t) \/ NothingNew(t)
    PROVE  WatchInv' /\ TrapInv' /\ FlagInv' /\ AlertInv'
<1> USE DEF ProcMonInv
<1>1. TypeOK /\ UNCHANGED <<table, view, raced>>
  BY DEF ReadStatus, NoList, CheckProc, RestartsAgain, NothingNew
<1>2. \A u \in Live : ~mixed /\ ~sendTrapLock => TrapOf(u) /\ AlertOf(u)
  BY DEF TrapInv, AlertInv
<1>3. CASE ReadStatus(t)
  <2>1. t \in Live /\ thread[t].pc = "status"
    BY <1>3, AtLive DEF ReadStatus
  <2>2. PICK pc \in {"exit", "check", "find"} :
            Goto(t, pc) /\ (pc = "check" => Wanted(thread[t].my))
    BY <1>3 DEF ReadStatus, Mine, Wanted
  <2>3. /\ Live' = Live /\ thread'[t].pc = pc /\ thread'[t].my = thread[t].my
        /\ thread'[t].iStatus = thread[t].iStatus
        /\ \A u \in Live : u # t => thread'[u] = thread[u]
    BY <1>1, <2>1, <2>2, ThreadGoes DEF Live
  <2>4. ~mixed /\ ~sendTrapLock =>
            /\ pc = "check" => AlertKnown(t)
            /\ Known(seen) = "down" => ~Alert(seen)
    BY <1>2, <2>1, <2>2 DEF AlertOf
  <2> QED
    BY <1>1, <2>1, <2>3, <2>4, MoveInv
<1>4. CASE NoList(t)
  <2>1. t \in Live /\ thread[t].pc = "check"
    BY <1>4, AtLive DEF NoList
  <2>2. /\ Live' = Live /\ thread'[t].pc = "find"
        /\ thread'[t].my = thread[t].my
        /\ thread'[t].iStatus = thread[t].iStatus
        /\ \A u \in Live : u # t => thread'[u] = thread[u]
    BY <1>1, <1>4, <2>1, ThreadGoes DEF NoList, Live
  <2>3. ~mixed /\ ~sendTrapLock => (Known(seen) = "down" => ~Alert(seen))
    BY <1>2, <2>1 DEF AlertOf
  <2> QED
    BY <1>1, <2>1, <2>2, <2>3, MoveInv
<1>5. CASE CheckProc(t)
  <2>1. /\ t \in Live /\ thread[t].pc = "check"
        /\ Live' = Live /\ thread'[t].pc \in {"count", "react"}
        /\ thread'[t].my = thread[t].my
        /\ thread'[t].iStatus = thread[t].iStatus
        /\ \A u \in Live : u # t => thread'[u] = thread[u]
    BY <1>1, <1>5, CheckBegins DEF Live
  <2>2. ~mixed /\ ~sendTrapLock =>
            AlertKnown(t) /\ (Known(seen) = "down" => ~Alert(seen))
    BY <1>2, <2>1 DEF AlertOf
  <2> QED
    BY <1>1, <2>1, <2>2, MoveInv
<1>6. ASSUME At(t, "react"), Sleep(t, Status(t)),
             Status(t) = 0 => Count(t) = 0
      PROVE  WatchInv' /\ TrapInv' /\ FlagInv' /\ AlertInv'
  <2>1. t \in Live /\ thread[t].pc = "react"
    BY <1>6, AtLive
  <2>2. PICK i \in -1 .. 2 : i = Status(t) /\ i = thread[t].iStatus
    BY <1>1, <2>1, SenderType DEF Status, Locals
  <2>3. /\ Live' = Live /\ thread'[t].pc = "find"
        /\ thread'[t].my = thread[t].my
        /\ thread'[t].iStatus = thread[t].iStatus
        /\ \A u \in Live : u # t => thread'[u] = thread[u]
    BY <1>1, <1>6, <2>1, <2>2, ThreadSleeps DEF Live
  <2>4. ~mixed /\ ~sendTrapLock => (Known(seen) = "down" => ~Alert(seen))
    <3> SUFFICES ASSUME ~mixed, ~sendTrapLock, Known(seen) = "down"
                 PROVE  ~Alert(seen)
      OBVIOUS
    <3>1. i = 0
      BY <1>2, <2>1, <2>2, ToldNames DEF TrapOf
    <3> QED
      BY <1>2, <1>6, <2>1, <2>2, <3>1 DEF AlertOf, Count
  <2> QED
    BY <1>1, <2>1, <2>3, <2>4, MoveInv
<1>7. CASE RestartsAgain(t)
  BY <1>6, <1>7 DEF RestartsAgain, Reacts
<1>8. CASE NothingNew(t)
  <2>1. At(t, "react") /\ Sleep(t, Status(t))
    BY <1>8 DEF NothingNew, Reacts
  <2>2. Status(t) = 0 => Count(t) = 0
    BY <1>8 DEF NothingNew
  <2> QED
    BY <1>6, <2>1, <2>2
<1> QED
  BY <1>3, <1>4, <1>5, <1>7, <1>8

\* Before its traps, a thread and the manager agree.
LEMMA SenderFits ==
    ASSUME ProcMonInv, NEW t \in Live, thread[t].pc \in {"count", "react"},
           ~mixed
    PROVE  Fits(Sender(t), Told(thread[t].iStatus))
<1>1. ~repeated /\ (~sendTrapLock => TrapOf(t) /\ AlertKnown(t))
  BY DEF ProcMonInv, TrapInv, AlertInv, AlertOf
<1>2. /\ Sender(t).waits = FALSE /\ Sender(t).again = repeated
      /\ Sender(t).lock = sendTrapLock /\ Sender(t).told = seen
      /\ Sender(t).thrcpu = Mine(t).thrcpu
  BY DEF Sender
<1> QED
  BY <1>1, <1>2 DEF Fits, TrapOf, AlertKnown

\* After its traps they still agree.
LEMMA SentInv ==
    ASSUME ProcMonInv, NEW t \in Live, NEW s \in Sendings, Sent(t, s),
           UNCHANGED <<container, mpc, undo, raced>>, mixed' = mixed \/ mixed',
           Live' = Live, \A u \in Live : u # t => thread'[u] = thread[u],
           thread'[t].my = thread[t].my,
           ~mixed' =>
               /\ Fits(s, Told(thread'[t].iStatus)) \/ (~s.again /\ s.lock)
               /\ thread'[t].pc \notin {"begin", "status", "check"}
               /\ thread'[t].pc = "find" \/ thread'[t].iProcCount = 0 =>
                      (~s.lock /\ Known(s.told) = "down" => ~Alert(s.told))
    PROVE  WatchInv' /\ TrapInv' /\ FlagInv' /\ AlertInv'
<1> USE DEF ProcMonInv
<1>1. TypeOK /\ thread[t].my \in Contexts
  BY SenderType DEF Locals
<1>2. /\ seen' = s.told /\ repeated' = s.again /\ sendTrapLock' = s.lock
      /\ sendTrapLock' \in BOOLEAN
      /\ \A c \in Contexts :
             /\ ctx'[c].status = ctx[c].status
             /\ ctx'[c].valid = ctx[c].valid
             /\ ctx'[c].iThreadActiveFlag = ctx[c].iThreadActiveFlag
      /\ ctx'[thread[t].my].thrcpu = s.thrcpu
  <2>1. seen' = s.told /\ repeated' = s.again /\ sendTrapLock' = s.lock
    BY DEF Sent
  <2>2. /\ sendTrapLock' \in BOOLEAN
        /\ \A c \in Contexts :
               /\ ctx'[c].status = ctx[c].status
               /\ ctx'[c].valid = ctx[c].valid
               /\ ctx'[c].iThreadActiveFlag = ctx[c].iThreadActiveFlag
               /\ ctx'[c].thrcpu = IF c = thread[t].my THEN s.thrcpu
                                   ELSE ctx[c].thrcpu
    BY <1>1, SentRows
  <2> QED
    BY <1>1, <2>1, <2>2
<1>3. RowsKept
  BY <1>2 DEF RowsKept
<1>4. WatchInv' /\ FlagInv'
  BY <1>3, WatchKept
<1>5. ~mixed' => ~repeated' /\ (~sendTrapLock' => TrapOf(t)' /\ AlertOf(t)')
  <2>1. Fits(s, Told(thread'[t].iStatus)) /\ ~s.lock =>
            /\ Known(seen') = Told(thread'[t].iStatus)
            /\ AlertKnown(t)'
    BY <1>2 DEF Fits, AlertKnown, Mine
  <2> QED
    BY <1>2, <2>1 DEF Fits, TrapOf, AlertOf
<1> QED
  BY <1>2, <1>4, <1>5, Alone DEF TrapInv, AlertInv

\* The steps with traps.
LEMMA TrapsInv ==
    ASSUME ProcMonInv, NEW t \in Threads,
           \/ CheckProcess(t)
           \/ TooMany(t) \/ FewerAgain(t) \/ GoesDown(t) \/ ComesUp(t)
           \/ Restarts(t)
    PROVE  WatchInv' /\ TrapInv' /\ FlagInv' /\ AlertInv'
<1>1. TypeOK
  BY DEF ProcMonInv
<1>2. CASE CheckProcess(t)
  <2>1. /\ t \in Live /\ thread[t].pc = "count"
        /\ Live' = Live
        /\ thread'[t].pc \in {"count", "react", "hung"}
        /\ thread'[t].my = thread[t].my
        /\ thread'[t].iStatus = thread[t].iStatus
        /\ thread'[t].iProcCount # 0
        /\ \A u \in Live : u # t => thread'[u] = thread[u]
    BY <1>1, <1>2, OneProcess DEF Live
  <2>2. PICK s \in Sendings :
            /\ Sent(t, s)
            /\ \A status : Fits(Sender(t), status) => Fits(s, status)
    BY <1>1, <1>2, OneProcess
  <2>3. UNCHANGED <<container, mpc, undo, raced, mixed>>
    BY <1>2 DEF CheckProcess
  <2>4. ~mixed => Fits(s, Told(thread'[t].iStatus))
    <3>1. PICK st : st = Told(thread[t].iStatus)
      OBVIOUS
    <3>2. ~mixed => Fits(Sender(t), st)
      BY <2>1, <3>1, SenderFits
    <3>3. Told(thread'[t].iStatus) = st
      BY <2>1, <3>1
    <3> QED
      BY <2>2, <3>2, <3>3
  <2> QED
    BY <2>1, <2>2, <2>3, <2>4, SentInv
<1>3. CASE TooMany(t) \/ FewerAgain(t) \/ GoesDown(t) \/ ComesUp(t)
  <2>1. t \in Live /\ thread[t].pc = "react" /\ mixed' = mixed
    BY <1>1, <1>3, ReactionTells
  <2>2. PICK s \in Sendings, i \in -1 .. 2 :
            /\ Tell(t, s, i)
            /\ s.waits => s.lock
            /\ Fits(Sender(t), Told(Status(t))) =>
                   /\ Fits(s, Told(i))
                   /\ i = 0 /\ ~s.lock => ~Alert(s.told)
    BY <1>1, <1>3, ReactionTells
  <2>3. /\ Sent(t, s)
        /\ UNCHANGED <<container, mpc, undo, raced>>
        /\ Live' = Live
        /\ thread'[t].pc = IF s.waits THEN "blocked" ELSE "find"
        /\ ~s.waits => thread'[t].iStatus = i
        /\ thread'[t].my = thread[t].my
        /\ \A u \in Live : u # t => thread'[u] = thread[u]
    BY <1>1, <2>1, <2>2, TellStep DEF Live
  <2>4. ~mixed => Fits(s, Told(i)) /\ (i = 0 /\ ~s.lock => ~Alert(s.told))
    BY <2>1, <2>2, SenderFits DEF Status
  <2>5. ~mixed => (~s.lock /\ Known(s.told) = "down" => ~Alert(s.told))
    BY <2>4, ToldNames DEF Fits
  <2>6. ~mixed => Fits(s, Told(thread'[t].iStatus)) \/ (~s.again /\ s.lock)
    <3>1. CASE s.waits
      BY <2>2, <2>4, <3>1 DEF Fits
    <3>2. CASE ~s.waits
      <4>1. PICK st : st = Told(i)
        OBVIOUS
      <4>2. Told(thread'[t].iStatus) = st
        BY <2>3, <3>2, <4>1
      <4> QED
        BY <2>4, <4>1, <4>2
    <3> QED
      BY <3>1, <3>2
  <2> QED
    BY <2>1, <2>3, <2>5, <2>6, SentInv
<1>4. CASE Restarts(t)
  <2>1. t \in Live /\ mixed'
    BY <1>1, <1>4, RestartsTells
  <2>2. PICK s \in Sendings, i \in -1 .. 2 : Tell(t, s, i)
    BY <1>1, <1>4, RestartsTells
  <2>3. /\ Sent(t, s)
        /\ UNCHANGED <<container, mpc, undo, raced>>
        /\ Live' = Live
        /\ thread'[t].my = thread[t].my
        /\ \A u \in Live : u # t => thread'[u] = thread[u]
    BY <1>1, <2>1, <2>2, TellStep DEF Live
  <2> QED
    BY <2>1, <2>3, SentInv
<1> QED
  BY <1>2, <1>3, <1>4

\* A process that comes up untold.
LEMMA UpUntoldInv ==
    ASSUME ProcMonInv, NEW t \in Threads, UpUntold(t)
    PROVE  WatchInv' /\ TrapInv' /\ FlagInv' /\ AlertInv'
<1>1. t \in Live /\ mixed' /\ TypeOK
  BY AtLive DEF UpUntold, Reacts, ProcMonInv
<1>2. PICK i \in -1 .. 2 : i = Status(t)
  BY <1>1, SenderType DEF Status, Locals
<1>3. Live' = Live /\ \A u \in Live : thread'[u].my = thread[u].my
  BY <1>1, <1>2, ThreadSleeps DEF UpUntold, Live
<1>4. RowsKept
  BY <1>3 DEF UpUntold, RowsKept, table
<1> QED
  BY <1>1, <1>4, WatchKept DEF TrapInv, AlertInv

\* A row that is destroyed is not to be watched any more.
LEMMA DestroyInv ==
    ASSUME ProcMonInv, Destroy
    PROVE  WatchInv' /\ TrapInv' /\ FlagInv' /\ AlertInv'
<1> USE DEF ProcMonInv
<1>1. TypeOK
  OBVIOUS
<1>2. PICK c \in Contexts : c = container
  BY <1>1 DEF Destroy, TypeOK
<1>3. /\ mpc = "serve" /\ container' = NULL /\ Live' = Live
      /\ UNCHANGED <<mpc, thread, view, raced>>
  BY DEF Destroy, Live
<1>4. /\ ctx'[c].status = "destroy"
      /\ \A d \in Contexts : /\ d # c => ctx'[d] = ctx[d]
                             /\ ctx'[d].thrcpu = ctx[d].thrcpu
  BY <1>1, <1>2 DEF Destroy, TypeOK, Rows
<1>5. WatchInv' /\ FlagInv'
  BY <1>3 DEF WatchInv, FlagInv, Flagged
<1>6. TrapInv'
  BY <1>3 DEF TrapInv, OneThread, TrapOf, view
<1>7. AlertInv'
  <2> SUFFICES ASSUME ~mixed, ~sendTrapLock, NEW t \in Live, AlertOf(t)
               PROVE  AlertOf(t)'
    BY <1>3 DEF AlertInv, view
  <2>1. thread[t].my \in Contexts
    BY <1>1, SenderType DEF Locals
  <2>2. AlertKnown(t)' <=> AlertKnown(t)
    BY <1>3, <1>4, <2>1 DEF AlertKnown, Mine, view
  <2>3. Wanted(thread[t].my)' => Wanted(thread[t].my)
    BY <1>3, <1>4, <2>1 DEF Wanted
  <2>4. ~Flagged'
    BY <1>3 DEF Flagged
  <2> QED
    BY <1>3, <2>2, <2>3, <2>4 DEF AlertOf, view
<1> QED
  BY <1>5, <1>6, <1>7

\* A row is created, or an existing one is committed as a SET has changed it.
Committing(c, row) ==
    /\ mpc \in {"serve", "set"} /\ mpc' = "serve"
    /\ container' = c /\ Commit(c, row)
    /\ UNCHANGED <<repeated, sendTrapLock>>
    /\ \/ container = NULL /\ ~row.iThreadActiveFlag
          /\ ~Alert(seen') /\ Known(seen') = Known(seen)
       \/ container = c /\ row = ctx[c] /\ seen' = seen

\* A thread is started where the row has none; else the row keeps its own.
LEMMA CommitInv ==
    ASSUME ProcMonInv, NEW c \in Contexts, NEW row \in Rows, Committing(c, row)
    PROVE  WatchInv' /\ TrapInv' /\ FlagInv' /\ AlertInv'
<1> USE DEF ProcMonInv
<1>1. TypeOK /\ c # NULL
  BY ProcMonAssumption
<1> DEFINE start == row.valid /\ row.status = "active" /\ ~row.iThreadActiveFlag
<1>2. CASE start /\ StartThread(c)
           /\ ctx' = [ctx EXCEPT ![c] = [row EXCEPT !.iThreadActiveFlag = TRUE]]
           /\ UNCHANGED raced
  <2>1. PICK t \in Threads :
            /\ Live' = Live \cup {t}
            /\ thread'[t].pc = "begin" /\ thread'[t].my = c
            /\ thread'[t].iStatus = -1
    BY <1>1, <1>2, ThreadStarts
  <2>2. ctx'[c].iThreadActiveFlag = TRUE
    BY <1>1, <1>2 DEF TypeOK, Rows
  <2>3. mixed' <=> mixed \/ Live # {}
    BY <1>2 DEF StartThread
  <2>4. WatchInv'
    BY <2>1, <2>2 DEF WatchInv, Committing
  <2>5. FlagInv'
    BY <2>1, <2>2, <2>3 DEF FlagInv, Committing
  <2>6. TrapOf(t)' /\ AlertOf(t)'
    BY <2>1 DEF TrapOf, AlertOf
  <2>7. TrapInv' /\ AlertInv'
    BY <2>1, <2>3, <2>6 DEF TrapInv, AlertInv, OneThread, Committing
  <2> QED
    BY <2>4, <2>5, <2>7
<1>3. CASE start /\ Threads = Live /\ raced' /\ UNCHANGED <<thread, mixed>>
  <2>1. Live' = Live
    BY <1>3 DEF Live
  <2>2. ~mixed => Live = {}
    <3> SUFFICES ASSUME ~mixed, NEW t \in Live PROVE FALSE
      OBVIOUS
    <3>1. Threads = {t}
      BY <1>3 DEF TrapInv, OneThread
    <3> QED
      BY <1>3, <3>1, ProcMonAssumption
  <2>3. WatchInv'
    BY <1>3 DEF WatchInv, Committing
  <2> QED
    BY <1>3, <2>1, <2>2, <2>3
    DEF TrapInv, FlagInv, AlertInv, OneThread, Committing
<1>4. CASE ~start /\ ctx' = [ctx EXCEPT ![c] = row]
           /\ UNCHANGED <<thread, mixed, raced>>
  <2>1. Live' = Live /\ ctx'[c] = row
    BY <1>1, <1>4 DEF Live, TypeOK
  <2>2. \A d \in Contexts : d # c => ctx'[d] = ctx[d]
    BY <1>1, <1>4 DEF TypeOK
  <2>3. Wanted(c)' => row.iThreadActiveFlag
    BY <1>4, <2>1 DEF Wanted
  <2>4. Flagged' <=> row.iThreadActiveFlag
    BY <1>1, <2>1 DEF Flagged, Committing
  <2>5. Flagged' => Flagged /\ container = c
    BY <1>1, <2>4 DEF Flagged, Committing
  <2>6. WatchInv'
    BY <1>1, <1>4, <2>1, <2>3 DEF WatchInv, Committing
  <2>7. FlagInv'
    BY <1>4, <2>1, <2>3, <2>5 DEF FlagInv, Undoing, Committing
  <2>8. TrapInv'
    BY <1>4, <2>1 DEF TrapInv, OneThread, TrapOf, Committing
  <2>9. AlertInv'
    <3> SUFFICES ASSUME ~mixed, ~sendTrapLock, NEW t \in Live, AlertOf(t)
                 PROVE  AlertOf(t)'
      BY <1>4, <2>1 DEF AlertInv, Committing
    <3>1. CASE ~Alert(seen')
      BY <3>1 DEF AlertOf, AlertKnown
    <3>2. CASE container = c /\ row = ctx[c] /\ seen' = seen
      <4>1. thread[t].my \in Contexts
        BY <1>1, SenderType DEF Locals
      <4>2. AlertKnown(t)' <=> AlertKnown(t)
        BY <1>4, <2>1, <2>2, <3>2, <4>1 DEF AlertKnown, Mine
      <4>3. Wanted(thread[t].my)' => Wanted(thread[t].my) \/ Flagged
        BY <1>4, <2>2, <2>3, <2>4, <2>5, <4>1 DEF Wanted
      <4> QED
        BY <1>4, <2>5, <3>2, <4>2, <4>3 DEF AlertOf
    <3> QED
      BY <3>1, <3>2 DEF Committing
  <2> QED
    BY <2>6, <2>7, <2>8, <2>9
<1> QED
  BY <1>2, <1>3, <1>4 DEF Committing, Commit

\* The columns of the row are written and its flags are not: by a SET, or when
\* one is undone.  A row that is then to be watched without having the flag has
\* no thread, as long as nothing is mixed.
Writing(c, row) ==
    /\ container = c /\ mpc \in {"serve", "set"} /\ mpc' \in {"serve", "set"}
    /\ ctx' = [ctx EXCEPT ![c] = row]
    /\ row.iThreadActiveFlag = ctx[c].iThreadActiveFlag
    /\ row.thrcpu = ctx[c].thrcpu
    /\ UNCHANGED <<container, thread, seen, repeated, sendTrapLock>>
    /\ mixed => mixed'
    /\ ~mixed' /\ ~row.iThreadActiveFlag
         /\ ((row.status = "active" /\ row.valid) \/ Undoing') => Live = {}

\* The thread of the row sees the new columns and the old flags.
LEMMA WriteInv ==
    ASSUME ProcMonInv, NEW c \in Contexts, NEW row \in Rows, Writing(c, row)
    PROVE  TrapInv' /\ FlagInv' /\ AlertInv'
<1> USE DEF ProcMonInv
<1>1. TypeOK /\ c # NULL
  BY ProcMonAssumption
<1>2. /\ Live' = Live /\ ctx'[c] = row
      /\ \A d \in Contexts : d # c => ctx'[d] = ctx[d]
  BY <1>1 DEF Writing, Live, TypeOK
<1>3. Wanted(c)' <=> row.status = "active" /\ row.valid
  BY <1>2 DEF Wanted
<1>4. Flagged' <=> Flagged
  BY <1>1, <1>2 DEF Flagged, Writing
<1>5. FlagInv'
  BY <1>2, <1>3, <1>4 DEF FlagInv, Writing
<1>6. TrapInv'
  BY <1>2 DEF TrapInv, OneThread, TrapOf, Writing
<1>7. AlertInv'
  <2> SUFFICES ASSUME ~mixed', ~sendTrapLock, NEW t \in Live, AlertOf(t)
               PROVE  AlertOf(t)'
    BY <1>2 DEF AlertInv, Writing
  <2>1. thread[t].my \in Contexts
    BY <1>1, SenderType DEF Locals
  <2>2. AlertKnown(t)' <=> AlertKnown(t)
    BY <1>2, <2>1 DEF AlertKnown, Mine, Writing
  <2>3. Wanted(thread[t].my)' => Wanted(thread[t].my) \/ Flagged
    <3>1. CASE thread[t].my = c
      BY <1>1, <1>2, <1>3, <3>1 DEF Writing, Flagged
    <3>2. CASE thread[t].my # c
      BY <1>2, <2>1, <3>2 DEF Wanted, Writing
    <3> QED
      BY <3>1, <3>2
  <2> QED
    BY <1>4, <2>2, <2>3 DEF AlertOf, Writing
<1> QED
  BY <1>5, <1>6, <1>7

\* A refused SET: a row that was to be watched and has lost its flag is a lost
\* race.
LEMMA UndoneInv ==
    ASSUME ProcMonInv, Undone(FALSE), UNCHANGED thread
    PROVE  WatchInv' /\ TrapInv' /\ FlagInv' /\ AlertInv'
<1> USE DEF ProcMonInv
<1>1. PICK c \in Contexts : c = container
  BY UndoneRow
<1>2. PICK row \in Rows :
          /\ ctx' = [ctx EXCEPT ![c] = row]
          /\ row.status = undo.status /\ row.valid = undo.valid
          /\ row.iThreadActiveFlag = ctx[c].iThreadActiveFlag
          /\ row.thrcpu = ctx[c].thrcpu
  BY <1>1, UndoneRow
<1>3. /\ mpc = "set" /\ mpc' = "serve"
      /\ UNCHANGED <<container, thread, view>>
      /\ raced' <=> \/ raced
                    \/ /\ undo.status = "active" /\ undo.valid
                       /\ ~ctx[c].iThreadActiveFlag
  BY <1>1 DEF Undone
<1>4. ctx'[c] = row /\ Live' = Live /\ c # NULL
  BY <1>2, <1>3, ProcMonAssumption DEF TypeOK, Live
<1>5. WatchInv'
  BY <1>1, <1>2, <1>3, <1>4 DEF WatchInv, Wanted
<1>6. Writing(c, row)
  BY <1>1, <1>2, <1>3, <1>4 DEF Writing, FlagInv, Undoing, view
<1> QED
  BY <1>5, <1>6, WriteInv

\* ProcMon_MasterThread, and the end of a SET.
LEMMA MainInv ==
    ASSUME ProcMonInv, Main
    PROVE  WatchInv' /\ TrapInv' /\ FlagInv' /\ AlertInv'
<1> USE DEF ProcMonInv
<1>1. TypeOK
  OBVIOUS
<1>2. CASE MasterStarts /\ container # NULL /\ ctx[container].valid
  <2>1. PICK c \in Contexts : c = container
    BY <1>1, <1>2 DEF TypeOK
  <2>2. /\ StartThread(c) /\ mpc' = "flag" /\ mpc = "start"
        /\ UNCHANGED <<ctx, container, seen, repeated, sendTrapLock>>
    BY <1>2, <2>1 DEF MasterStarts
  <2>3. Live = {}
    BY <2>2 DEF WatchInv
  <2>4. PICK t \in Threads :
            /\ Live' = Live \cup {t}
            /\ thread'[t].pc = "begin" /\ thread'[t].my = c
            /\ thread'[t].iStatus = -1
    BY <1>1, <2>2, ThreadStarts
  <2>5. mixed' = mixed
    BY <1>1, <2>2, <2>3 DEF StartThread, TypeOK
  <2>6. TrapOf(t)' /\ AlertOf(t)' /\ Live' = {t}
    BY <2>3, <2>4 DEF TrapOf, AlertOf
  <2>7. WatchInv'
    BY <1>2, <2>1, <2>2, <2>4, <2>6 DEF WatchInv
  <2>8. TrapInv' /\ AlertInv'
    BY <2>2, <2>5, <2>6 DEF TrapInv, AlertInv, OneThread
  <2>9. FlagInv'
    BY <2>1, <2>2, <2>4, <2>6 DEF FlagInv, Flagged
  <2> QED
    BY <2>7, <2>8, <2>9
<1>3. CASE MasterStarts /\ ~(container # NULL /\ ctx[container].valid)
  <2>1. /\ mpc = "start" /\ mpc' = "serve"
        /\ UNCHANGED <<thread, container, mixed, repeated>>
        /\ ctx' = [c \in Contexts |->
                     IF c = container
                     THEN [ctx[c] EXCEPT !.iThreadActiveFlag = FALSE]
                     ELSE ctx[c]]
    BY <1>3 DEF MasterStarts
  <2>2. Live = {} /\ Live' = {}
    BY <2>1 DEF WatchInv, Live
  <2>3. container # NULL => /\ ctx'[container].iThreadActiveFlag = FALSE
                            /\ ctx'[container].valid = ctx[container].valid
    BY <1>1, <2>1 DEF TypeOK, Rows
  <2>4. WatchInv'
    BY <1>3, <2>1, <2>2, <2>3 DEF WatchInv, Wanted
  <2> QED
    BY <2>1, <2>2, <2>4 DEF TrapInv, FlagInv, AlertInv, OneThread
<1>4. CASE MasterFlags
  <2>1. /\ mpc = "flag" /\ mpc' = "serve"
        /\ UNCHANGED <<container, thread, view>>
        /\ ctx' = [ctx EXCEPT ![container].iThreadActiveFlag = TRUE]
        /\ raced' <=> raced \/ Live = {}
        /\ Live' = Live
    BY <1>4 DEF MasterFlags, Live
  <2>2. PICK c \in Contexts : c = container
    BY <1>1, <2>1 DEF WatchInv, TypeOK
  <2>3. /\ \A t \in Live : thread[t].my = c
        /\ Flagged
    BY <2>1, <2>2, ProcMonAssumption DEF WatchInv, Flagged
  <2>4. /\ ctx'[c].iThreadActiveFlag = TRUE
        /\ \A d \in Contexts : /\ ctx'[d].status = ctx[d].status
                               /\ ctx'[d].valid = ctx[d].valid
                               /\ ctx'[d].thrcpu = ctx[d].thrcpu
    BY <1>1, <2>1, <2>2 DEF TypeOK, Rows
  <2>5. WatchInv'
    BY <2>1, <2>2, <2>3, <2>4 DEF WatchInv
  <2>6. FlagInv'
    BY <2>1, <2>2, <2>3, <2>4 DEF FlagInv
  <2>7. \A t \in Live : thread[t].my \in Contexts
    BY <2>2, <2>3
  <2>8. AlertInv'
    <3> SUFFICES ASSUME ~mixed, ~sendTrapLock, NEW t \in Live, AlertOf(t)
                 PROVE  AlertOf(t)'
      BY <2>1 DEF AlertInv, view
    <3>1. AlertKnown(t)' <=> AlertKnown(t)
      BY <2>1, <2>4, <2>7 DEF AlertKnown, Mine, view
    <3>2. Wanted(thread[t].my)' <=> Wanted(thread[t].my)
      BY <2>1, <2>4, <2>7 DEF Wanted
    <3> QED
      BY <2>1, <2>3, <3>1, <3>2 DEF AlertOf, view
  <2>9. TrapInv'
    BY <2>1 DEF TrapInv, OneThread, TrapOf, view
  <2> QED
    BY <2>5, <2>6, <2>8, <2>9
<1>5. CASE ChangeCommitted
  <2>1. PICK c \in Contexts : c = container
    BY <1>1, <1>5 DEF ChangeCommitted, WatchInv, TypeOK
  <2>2. PICK row \in Rows : row = ctx[c]
    BY <1>1 DEF TypeOK
  <2>3. Committing(c, row)
    BY <1>5, <2>1, <2>2 DEF ChangeCommitted, Committing
  <2> QED
    BY <2>3, CommitInv
<1>6. CASE ChangeUndone
  BY <1>6, UndoneInv DEF ChangeUndone
<1>7. CASE ChangeUndoneHidden
  <2>1. PICK t \in Threads :
            /\ thread[t] # NULL /\ thread' = [thread EXCEPT ![t] = NULL]
            /\ Undone(TRUE)
    BY <1>7 DEF ChangeUndoneHidden
  <2>2. Live' = Live \ {t} /\ t \in Live
    BY <1>1, <2>1, ThreadEnds DEF Live
  <2>3. mpc' = "serve" /\ raced' /\ UNCHANGED <<container, view>>
    BY <2>1 DEF Undone
  <2>4. ~mixed => Live' = {}
    BY <2>2 DEF TrapInv, OneThread
  <2>5. WatchInv'
    BY <2>3 DEF WatchInv
  <2> QED
    BY <2>3, <2>4, <2>5 DEF TrapInv, FlagInv, AlertInv, OneThread, view
<1> QED
  BY <1>2, <1>3, <1>4, <1>5, <1>6, <1>7 DEF Main

\* psMonitorTable_set_action and psMonitorTable_set_commit.
LEMMA ManagerInv ==
    ASSUME ProcMonInv, Manager
    PROVE  WatchInv' /\ TrapInv' /\ FlagInv' /\ AlertInv'
<1>1. TypeOK
  BY DEF ProcMonInv
<1>2. ASSUME NEW col \in Columns, NEW status \in {"active", "notInService"},
             Create(col, status)
      PROVE  \E c \in Contexts, row \in Rows : Committing(c, row)
  <2>1. PICK row \in Rows : /\ row = Row(col, status, FALSE)
                            /\ ~row.iThreadActiveFlag
    BY RowType
  <2>2. PICK c \in Contexts : container' = c /\ Commit(c, row)
    BY <1>2, <2>1 DEF Create
  <2>3. ~Alert(seen') /\ Known(seen') = Known(seen)
    BY <1>1, <1>2 DEF Create, TypeOK, Views, Known, Alert
  <2>4. Committing(c, row)
    BY <1>2, <2>1, <2>2, <2>3 DEF Create, Committing
  <2> QED
    BY <2>4
<1>3. ASSUME NEW col \in Columns, NEW status \in {"active", "notInService"},
             Change(col, status)
      PROVE  WatchInv' /\ TrapInv' /\ FlagInv' /\ AlertInv'
  <2>1. PICK c \in Contexts : c = container
    BY <1>1, <1>3 DEF Change, TypeOK
  <2>2. PICK old \in Rows : old = ctx[c]
    BY <1>1 DEF TypeOK
  <2>3. PICK row \in Rows :
            /\ row = [Row(col, status, old.iThreadActiveFlag)
                         EXCEPT !.thrcpu = old.thrcpu]
            /\ row.iThreadActiveFlag = old.iThreadActiveFlag
            /\ row.thrcpu = old.thrcpu
    BY ChangedRow
  <2>4. /\ mpc = "serve" /\ mpc' = "set" /\ undo' = old
        /\ ctx' = [ctx EXCEPT ![c] = row]
        /\ mixed' <=> mixed \/ /\ row.status = "active" /\ row.valid
                               /\ ~row.iThreadActiveFlag /\ Live # {}
        /\ UNCHANGED <<container, thread, seen, repeated, sendTrapLock, raced>>
    BY <1>3, <2>1, <2>2, <2>3 DEF Change
  <2>5. Writing(c, row)
    BY <2>1, <2>2, <2>3, <2>4, ProcMonAssumption
    DEF Writing, FlagInv, Wanted, Undoing, ProcMonInv
  <2>6. WatchInv'
    BY <2>1, <2>2, <2>3, <2>4, ProcMonAssumption
    DEF WatchInv, Live, TypeOK, ProcMonInv
  <2> QED
    BY <2>5, <2>6, WriteInv
<1> QED
  BY <1>2, <1>3, CommitInv, DestroyInv DEF Manager

\* ProcMon_ProcMonThreadMain.
LEMMA ThreadInv ==
    ASSUME ProcMonInv, NEW t \in Threads, ProcMonThread(t)
    PROVE  WatchInv' /\ TrapInv' /\ FlagInv' /\ AlertInv'
BY BeginInv, FindRowInv, RowGoneInv, EndThreadInv, MovesInv, TrapsInv,
   UpUntoldInv DEF ProcMonThread

\* Every step keeps the invariant.
LEMMA InvStep == ProcMonInv /\ [Next]_vars => ProcMonInv'
<1> SUFFICES ASSUME ProcMonInv, [Next]_vars PROVE ProcMonInv'
  OBVIOUS
<1>1. TypeOK'
  BY TypeStep DEF ProcMonInv
<1>2. CASE Main \/ Manager
  BY <1>1, <1>2, MainInv, ManagerInv DEF ProcMonInv
<1>3. CASE \E t \in Threads : ProcMonThread(t)
  BY <1>1, <1>3, ThreadInv DEF ProcMonInv
<1>4. CASE OutsideStep \/ Restart
  BY <1>4, OutsideInv, RestartInv
<1>5. CASE UNCHANGED vars
  BY <1>1, <1>5
  DEF ProcMonInv, vars, table, view, WatchInv, TrapInv, FlagInv, AlertInv, Live,
      OneThread, TrapOf, Flagged, Wanted, Undoing, AlertOf, AlertKnown, Mine
<1> QED
  BY <1>2, <1>3, <1>4, <1>5 DEF Next, OutsideStep

-----------------------------------------------------------------------------
(* The theorems.                                                           *)

\* ProcMonInv holds in every state of the process monitor.
THEOREM ProcMonInvariant == Spec => []ProcMonInv
BY InitInv, InvStep, PTL DEF Spec

\* TypeOK: the types of the state.
THEOREM TypeCorrect == Spec => []TypeOK
<1>1. ProcMonInv => TypeOK
  BY DEF ProcMonInv
<1> QED
  BY <1>1, ProcMonInvariant, PTL

\* NoRepeatedTrap: while one thread watches the row and reaction 2 is not used,
\* ProcMon_ProcMonThreadMain never tells the manager what that same thread told
\* last, whatever SETs change in the row meanwhile.
THEOREM TrapsAlternate == Spec => []NoRepeatedTrap
<1>1. ProcMonInv => NoRepeatedTrap
  BY DEF ProcMonInv, TrapInv, NoRepeatedTrap
<1> QED
  BY <1>1, ProcMonInvariant, PTL

\* ActiveRowWatched: an active row has a thread, whatever SETs are committed or
\* undone, unless one of the races on iThreadActiveFlag was lost that
\* FlagStandsForThread, ExitsOnlyIfInactive and UndoRestores show.
THEOREM RowsWatched == Spec => []ActiveRowWatched
<1>1. ProcMonInv => ActiveRowWatched
  BY DEF ProcMonInv, WatchInv, ActiveRowWatched, Wanted
<1> QED
  BY <1>1, ProcMonInvariant, PTL

\* DownEndsAlert: a thread that reports the process down has ended the CPU alert
\* that it sent for this row, while traps are sent by one thread.  An alert that
\* an earlier thread sent stays, which RecoveryBeforeDown shows.
THEOREM AlertsEnd == Spec => []DownEndsAlert
<1>1. ProcMonInv => DownEndsAlert
  BY AtLive DEF ProcMonInv, AlertInv, AlertOf, DownEndsAlert, Known, Alert
<1> QED
  BY <1>1, ProcMonInvariant, PTL
=============================================================================
