--------------------------- MODULE FileTransProofs ---------------------------
(***************************************************************************)
(* For files of any size, any number of attempts and threads, and a        *)
(* network that loses, reorders and duplicates datagrams: both ends of the *)
(* file transfer stay in step, a packet never leads outside the receiver's *)
(* arrays, and FileTrans_SendFile implements FileCopy.                     *)
(***************************************************************************)
EXTENDS FileTrans, FiniteSetTheorems, TLAPS

\* A packet in the network was sent to the thread the sender is connected to,
\* for a window the sender has reached.
DataSent(m) ==
    /\ m.ePktType = "DATA"
    /\ peer # NULL /\ m.to = peer
    /\ m.iMmapNo \in 1 .. iNoOfMappingNeeded /\ m.iMmapNo <= iMmapNo
    /\ \E i \in 1 .. PktsOfMap(m.iMmapNo) : m.iPktNo = PktNo(m.iMmapNo, i)

\* What an answer says of the state r of the thread it came from, now and ever
\* after: the window was acknowledged, or the thread is at a later attempt.
Tells(m, r) ==
    /\ r.state # "none"
    /\ m.ePktType = "DATA_ACK" => m.iMmapNo <= Acked(r)
    /\ m.ePktType = "DATA_NEG_ACK" =>
           \/ m.iMmapNo <= Acked(r)
           \/ m.iMmapNo = r.iMmapNo /\ m.iCorrelater < r.iCorrelater

\* The answers in the network.
AnswerSent(m) ==
    /\ m.ePktType \in {"HND_SHAKE_ACK", "DATA_ACK", "DATA_NEG_ACK"}
    /\ m.from \in Threads /\ m.iMmapNo \in Nat /\ m.iCorrelater \in Nat
    /\ m.got \subseteq Nat
    /\ Tells(m, thread[m.from])

\* The network: the datagrams that have been sent.
NetInv == \A m \in net : m = Shake \/ DataSent(m) \/ AnswerSent(m)

\* FileTransfer_SendData is under way.
Transferring == pc \in {"send", "dataAck"}

\* The sender: the attempts it has left, and the window it is at.
SenderInv ==
    /\ pc \in {"shake", "shakeAck"} =>
           peer = NULL /\ iMmapNo = 0 /\ iCorrelater = 1
    /\ pc \in {"shakeAck", "send"} => iNoOfRetries <= MAX_NO_OF_RETRIES + 1
    /\ pc = "dataAck" => /\ iNoOfRetries <= MAX_NO_OF_RETRIES
                         /\ iMmapNo <= iNoOfMappingNeeded
    /\ Transferring => /\ peer # NULL
                       /\ iCorrelater <= iNoOfRetries + 1
                       /\ iMmapNo = 1 \/ iMmapNo \in 1 .. iNoOfMappingNeeded
    /\ pc # "done" <=> eStatus = "none"

\* A thread is at work: it receives a window, or writes it.
Busy(r) == r.state \in {"recv", "write"}

\* A thread writes a window and goes on to the next one.
FileInv(r) ==
    /\ Busy(r) => /\ Len(r.file) + 1 = r.iMmapNo
                  /\ r.iNoOfTimeOuts <= MAX_NO_OF_RETRIES
    /\ r.iCorrelater <= r.iNoOfTimeOuts + 1

\* The packets a thread in state r asks for when its wait ends.
MissingOf(r) == (1 .. r.iNoOfPktsPerMap) \ r.places

\* The packets a thread holds, misses and waits for: it never waits for none,
\* and as long as it waits some are missing.
CountInv(r) ==
    /\ r.places \subseteq 1 .. PktsOfMap(r.iMmapNo)
    /\ Busy(r) /\ iNoOfMappingNeeded > 0 =>
           /\ r.iNoOfPktsExpected > 0 /\ r.iNoOfPktsPerMap > 0
           /\ r.iMmapNo <= iNoOfMappingNeeded =>
                  /\ r.iNoOfPktsPerMap = PktsOfMap(r.iMmapNo)
                  /\ Cardinality(MissingOf(r)) + r.iLoopCntr
                         >= r.iNoOfPktsExpected

\* Only the thread the sender is connected to receives and acknowledges, and no
\* window that was not sent.
HeldInv(t, r) ==
    /\ r.iLoopCntr > 0 \/ r.places # {} =>
           /\ t = peer
           /\ r.iMmapNo <= iNoOfMappingNeeded /\ r.iMmapNo <= iMmapNo
    /\ iNoOfMappingNeeded > 0 /\ Acked(r) > 0 =>
           /\ t = peer
           /\ Acked(r) <= iMmapNo /\ Acked(r) <= iNoOfMappingNeeded

\* A thread at the destination.
ThreadInv(t) == /\ FileInv(thread[t])
                /\ CountInv(thread[t])
                /\ HeldInv(t, thread[t])

\* The thread the sender is connected to is not behind the sender; while it still
\* writes the window the sender has left, the sender is at its first attempt.
PeerInv ==
    peer # NULL =>
        LET r == thread[peer]
        IN  /\ r.state # "none"
            /\ Transferring =>
                   /\ iMmapNo - 1 <= Acked(r)
                   /\ r.state = "recv" /\ r.iMmapNo = iMmapNo =>
                          iCorrelater <= r.iCorrelater
                   /\ r.state = "write" /\ r.iMmapNo + 1 = iMmapNo =>
                          iCorrelater = 1

\* Success is reported when the last window was acknowledged.
DoneInv ==
    eStatus = "success" =>
        /\ peer # NULL
        /\ iNoOfMappingNeeded > 0 =>
               Acked(thread[peer]) = iNoOfMappingNeeded

\* The inductive invariant.
TransInv == /\ TypeOK /\ NetInv /\ SenderInv
            /\ \A t \in Threads : ThreadInv(t)
            /\ PeerInv /\ DoneInv

-----------------------------------------------------------------------------
(* The numbers of FileTrans_SendFile.                                      *)

\* The last part may be smaller than the others, but there is one.
LEMMA Parts ==
    ASSUME NEW s \in Nat, NEW p \in Nat \ {0}
    PROVE  /\ PartsOf(s, p) \in Nat
           /\ s > 0 => PartsOf(s, p) > 0
           /\ s > p => PartsOf(s, p) > 1
<1>1. s \div p \in Nat /\ s % p \in 0 .. p - 1
  OBVIOUS
<1>2. s > 0 /\ s % p = 0 => s \div p > 0
  OBVIOUS
<1>3. s > p => s \div p > 0 /\ (s \div p = 1 => s % p # 0)
  OBVIOUS
<1> QED
  BY <1>1, <1>2, <1>3 DEF PartsOf

\* Every window of a file that is not empty has packets, and the first window
\* has as many as a thread expects at first.
LEMMA Numbers ==
    ASSUME fileSize \in Nat
    PROVE  /\ iTotNoOfPkts \in Nat /\ iNoOfMappingNeeded \in Nat
           /\ iNoPktsPerMMap \in Nat /\ iExtraPktsPerMap \in Nat
           /\ \A m : PktsOfMap(m) \in Nat
           /\ PktsOfMap(1) = iNoPktsPerMMap
           /\ iNoOfMappingNeeded > 0 =>
                  iNoPktsPerMMap > 0 /\ \A m : PktsOfMap(m) > 0
<1>1. /\ PageSize \in Nat \ {0} /\ MsgSize \in Nat \ {0}
      /\ fileSize % PageSize \in Nat
  BY FileTransAssumption
<1>2. /\ iTotNoOfPkts \in Nat /\ iNoOfMappingNeeded \in Nat
      /\ fileSize > 0 => iTotNoOfPkts > 0
      /\ fileSize > PageSize => iNoOfMappingNeeded > 1
  BY <1>1, Parts DEF iTotNoOfPkts, iNoOfMappingNeeded
<1>3. iNoOfMappingNeeded > 0 => fileSize > 0
  BY <1>1 DEF iNoOfMappingNeeded, PartsOf
<1>4. /\ iNoPktsPerMMap \in Nat /\ iExtraPktsPerMap \in Nat
      /\ fileSize > 0 => iNoPktsPerMMap > 0
  <2>1. PartsOf(PageSize, MsgSize) \in Nat /\ PartsOf(PageSize, MsgSize) > 0
    BY <1>1, Parts
  <2>2. PartsOf(fileSize % PageSize, MsgSize) \in Nat
    BY <1>1, Parts
  <2> QED
    BY <1>1, <1>2, <2>1, <2>2 DEF iNoPktsPerMMap, iExtraPktsPerMap
<1>5. PktsOfMap(1) = iNoPktsPerMMap
  BY <1>1, <1>2 DEF PktsOfMap, iExtraPktsPerMap
<1>6. /\ \A m : PktsOfMap(m) \in Nat
      /\ iNoOfMappingNeeded > 0 => \A m : PktsOfMap(m) > 0
  BY <1>3, <1>4 DEF PktsOfMap
<1> QED
  BY <1>2, <1>3, <1>4, <1>5, <1>6

\* The file does not change while it is sent, nor do the numbers.
LEMMA SameNumbers ==
    ASSUME fileSize' = fileSize
    PROVE  /\ iTotNoOfPkts' = iTotNoOfPkts
           /\ iNoOfMappingNeeded' = iNoOfMappingNeeded
           /\ iNoPktsPerMMap' = iNoPktsPerMMap
           /\ iExtraPktsPerMap' = iExtraPktsPerMap
           /\ \A m : PktsOfMap(m)' = PktsOfMap(m)
           /\ \A m, i : PktNo(m, i)' = PktNo(m, i)
  BY DEF iTotNoOfPkts, iNoOfMappingNeeded, iNoPktsPerMMap, iExtraPktsPerMap,
     PktsOfMap, PktNo, PartsOf

\* What a datagram is follows from its type.
LEMMA Datagrams ==
    ASSUME NetInv
    PROVE  /\ \A m \in Answers : AnswerSent(m)
           /\ \A m \in DataPkts : DataSent(m)
  BY DEF NetInv, Answers, DataPkts, Shake, DataSent, AnswerSent

\* No more packets are missing than the window has, and each one that comes
\* makes it one less, or none.
LEMMA MissingPackets ==
    ASSUME NEW n \in Nat, NEW P, NEW i
    PROVE  /\ IsFiniteSet((1 .. n) \ P) /\ Cardinality((1 .. n) \ P) \in Nat
           /\ Cardinality((1 .. n) \ {}) = n
           /\ Cardinality((1 .. n) \ (P \cup {i})) + 1
                  >= Cardinality((1 .. n) \ P)
<1>1. IsFiniteSet(1 .. n) /\ Cardinality(1 .. n) = n
  BY FS_Interval
<1>2. IsFiniteSet((1 .. n) \ P)
  BY <1>1, FS_Difference
<1>3. Cardinality((1 .. n) \ P) \in Nat
  BY <1>2, FS_CardinalityType
<1>4. (1 .. n) \ {} = 1 .. n
  OBVIOUS
<1>5. (1 .. n) \ (P \cup {i}) = ((1 .. n) \ P) \ {i}
  OBVIOUS
<1>6. Cardinality(((1 .. n) \ P) \ {i}) + 1 >= Cardinality((1 .. n) \ P)
  BY <1>2, <1>3, FS_RemoveElement
<1> QED
  BY <1>1, <1>2, <1>3, <1>4, <1>5, <1>6

\* What a thread counts.
LEMMA ThreadNumbers ==
    ASSUME NEW r \in ThreadType
    PROVE  /\ Len(r.file) \in Nat /\ Acked(r) \in Nat
           /\ r.iMmapNo \in Nat /\ r.iCorrelater \in Nat
           /\ r.iNoOfTimeOuts \in Nat
           /\ r.state # "write" => Acked(r) = Len(r.file)
           /\ r.state = "write" => Acked(r) = Len(r.file) + 1
  BY FileTransAssumption DEF ThreadType, Acked

-----------------------------------------------------------------------------
(* What the steps of the sender and of the threads have in common.         *)

\* The sender goes on or stays where it is, and sends the datagrams D.
SenderMoves(D) ==
    /\ UNCHANGED <<fileSize, thread>>
    /\ TypeOK' /\ SenderInv' /\ PeerInv' /\ DoneInv'
    /\ \/ peer' = peer /\ iMmapNo <= iMmapNo'
       \/ peer = NULL
    /\ net' \subseteq net \cup D
    /\ \A m \in D : m = Shake \/ DataSent(m)'

\* Such a step keeps the invariant.
LEMMA SenderChanges ==
    ASSUME TransInv, NEW D, SenderMoves(D)
    PROVE  TransInv'
<1> USE DEF SenderMoves
<1>1. /\ iNoOfMappingNeeded' = iNoOfMappingNeeded
      /\ \A m : PktsOfMap(m)' = PktsOfMap(m)
      /\ \A m, i : PktNo(m, i)' = PktNo(m, i)
  BY SameNumbers
<1>2. iMmapNo \in Nat /\ iMmapNo' \in Nat /\ NULL \notin Threads
  BY FileTransAssumption DEF TransInv, TypeOK
<1>3. ASSUME NEW t \in Threads PROVE ThreadInv(t)'
  <2>1. PICK r \in ThreadType : r = thread[t] /\ r = thread'[t]
    BY DEF TransInv, TypeOK
  <2>2. FileInv(r) /\ CountInv(r) /\ HeldInv(t, r)
    BY <2>1 DEF TransInv, ThreadInv
  <2>3. FileInv(r)' /\ CountInv(r)'
    BY <1>1, <2>2 DEF FileInv, CountInv, MissingOf, Busy
  <2>4. HeldInv(t, r)'
    <3>1. r.iMmapNo \in Nat /\ Acked(r) \in Nat /\ Acked(r)' = Acked(r)
      BY ThreadNumbers DEF Acked
    <3> QED
      BY <1>1, <1>2, <2>2, <3>1 DEF HeldInv
  <2> QED
    BY <2>1, <2>3, <2>4 DEF ThreadInv
<1>4. ASSUME NEW m, DataSent(m) PROVE DataSent(m)'
  BY <1>1, <1>2, <1>4 DEF DataSent
<1>5. ASSUME NEW m, AnswerSent(m) PROVE AnswerSent(m)'
  BY <1>5 DEF AnswerSent, Tells, Acked
<1>6. NetInv'
  <2>1. Shake' = Shake
    BY DEF Shake
  <2>2. \A m \in net : m = Shake \/ DataSent(m) \/ AnswerSent(m)
    BY DEF TransInv, NetInv
  <2> QED
    BY <1>4, <1>5, <2>1, <2>2 DEF NetInv
<1> QED
  BY <1>3, <1>6 DEF TransInv

\* The next state s of a thread in state r.
Advances(r, s) ==
    /\ Busy(r)
    /\ Acked(r) <= Acked(s)
    /\ \/ s.iMmapNo = r.iMmapNo /\ r.iCorrelater <= s.iCorrelater
       \/ r.iMmapNo <= Acked(s)

\* An answer of thread t that is true of its next state s.
AnswerOf(m, t, s) ==
    /\ m.ePktType \in {"HND_SHAKE_ACK", "DATA_ACK", "DATA_NEG_ACK"}
    /\ m.from = t /\ m.iMmapNo \in Nat /\ m.iCorrelater \in Nat
    /\ m.got \subseteq Nat
    /\ Tells(m, s)

\* Thread t, started or on its way, goes to state s and sends the answers A.
ThreadMoves(t, s, A) ==
    /\ thread' = [thread EXCEPT ![t] = s]
    /\ FileInv(s) /\ CountInv(s) /\ HeldInv(t, s)
    /\ thread[t].state = "none" \/ Advances(thread[t], s)
    /\ s.state # "none"
    /\ net' \subseteq net \cup A
    /\ \A m \in A : AnswerOf(m, t, s)

\* Such a step keeps the invariant.
LEMMA ThreadChanges ==
    ASSUME TransInv, UNCHANGED <<fileSize, senderVars>>,
           NEW t \in Threads, NEW s \in ThreadType, NEW A, ThreadMoves(t, s, A)
    PROVE  TransInv'
<1> USE DEF ThreadMoves
<1>1. /\ iNoOfMappingNeeded' = iNoOfMappingNeeded
      /\ \A m : PktsOfMap(m)' = PktsOfMap(m)
      /\ \A m, i : PktNo(m, i)' = PktNo(m, i)
  BY SameNumbers
<1>2. /\ UNCHANGED <<pc, iMmapNo, iCorrelater, iNoOfRetries, piPktStatus>>
      /\ UNCHANGED <<peer, eStatus>>
  BY DEF senderVars, seqVars
<1>3. /\ thread \in [Threads -> ThreadType]
      /\ thread' \in [Threads -> ThreadType]
      /\ thread'[t] = s /\ \A x \in Threads : x # t => thread'[x] = thread[x]
  BY DEF TransInv, TypeOK
<1>4. TypeOK'
  BY <1>2, <1>3 DEF TransInv, TypeOK
<1>5. SenderInv'
  BY <1>1, <1>2 DEF TransInv, SenderInv, Transferring
<1>6. ASSUME NEW x \in Threads PROVE ThreadInv(x)'
  <2>1. CASE x = t
    <3>1. FileInv(s)' /\ CountInv(s)' /\ HeldInv(t, s)'
      BY <1>1, <1>2 DEF FileInv, CountInv, HeldInv, MissingOf, Busy, Acked
    <3> QED
      BY <1>3, <2>1, <3>1 DEF ThreadInv
  <2>2. CASE x # t
    <3>1. PICK r \in ThreadType : r = thread[x] /\ r = thread'[x]
      BY <1>3, <2>2
    <3>2. FileInv(r) /\ CountInv(r) /\ HeldInv(x, r)
      BY <3>1 DEF TransInv, ThreadInv
    <3>3. FileInv(r)' /\ CountInv(r)' /\ HeldInv(x, r)'
      BY <1>1, <1>2, <3>2 DEF FileInv, CountInv, HeldInv, MissingOf, Busy, Acked
    <3> QED
      BY <3>1, <3>3 DEF ThreadInv
  <2> QED
    BY <2>1, <2>2
<1>7. PICK r \in ThreadType :
        r = thread[t] /\ (r.state = "none" \/ Advances(r, s))
  BY <1>3
<1>8. /\ Len(r.file) \in Nat /\ Acked(r) \in Nat /\ Acked(s) \in Nat
      /\ r.iMmapNo \in Nat /\ s.iMmapNo \in Nat
      /\ r.iCorrelater \in Nat /\ s.iCorrelater \in Nat
      /\ s.state = "recv" => Acked(s) = Len(s.file)
      /\ r.state = "recv" => Acked(r) = Len(r.file)
      /\ r.state = "write" => Acked(r) = Len(r.file) + 1
  BY ThreadNumbers
<1>9. FileInv(r)
  BY <1>7 DEF TransInv, ThreadInv
<1>10. ASSUME NEW m, AnswerSent(m) PROVE AnswerSent(m)'
  <2>1. CASE m.from # t
    BY <1>3, <1>10, <2>1 DEF AnswerSent, Tells, Acked
  <2>2. CASE m.from = t
    <3>1. Tells(m, r) /\ m.iMmapNo \in Nat /\ m.iCorrelater \in Nat
      BY <1>7, <1>10, <2>2 DEF AnswerSent
    <3>2. Advances(r, s)
      BY <1>7, <3>1 DEF Tells
    <3>3. Tells(m, s)
      BY <1>8, <1>9, <3>1, <3>2 DEF Tells, Advances, FileInv
    <3> QED
      BY <1>3, <1>10, <2>2, <3>3 DEF AnswerSent, Tells, Acked
  <2> QED
    BY <2>1, <2>2
<1>11. NetInv'
  <2>1. \A m : DataSent(m) => DataSent(m)'
    BY <1>1, <1>2 DEF DataSent
  <2>2. \A m \in net : m = Shake \/ DataSent(m) \/ AnswerSent(m)
    BY DEF TransInv, NetInv
  <2>3. Shake' = Shake
    BY DEF Shake
  <2>4. \A m \in A : AnswerSent(m)'
    BY <1>3 DEF AnswerSent, AnswerOf, Tells, Acked
  <2> QED
    BY <1>10, <2>1, <2>2, <2>3, <2>4 DEF NetInv
<1>12. ASSUME peer = t PROVE Advances(r, s)
  <2>1. peer # NULL /\ thread[peer].state # "none"
    BY <1>12, FileTransAssumption DEF TransInv, PeerInv
  <2> QED
    BY <1>7, <1>12, <2>1
<1>13. PeerInv'
  <2>1. CASE peer = t
    <3>1. /\ Transferring =>
                 /\ iMmapNo - 1 <= Acked(r)
                 /\ r.state = "recv" /\ r.iMmapNo = iMmapNo =>
                        iCorrelater <= r.iCorrelater
                 /\ r.state = "write" /\ r.iMmapNo + 1 = iMmapNo =>
                        iCorrelater = 1
      BY <1>7, <2>1, FileTransAssumption DEF TransInv, PeerInv
    <3>2. iMmapNo \in Nat /\ iCorrelater \in Nat
      BY FileTransAssumption DEF TransInv, TypeOK
    <3>3. Transferring =>
              /\ iMmapNo - 1 <= Acked(s)
              /\ s.state = "recv" /\ s.iMmapNo = iMmapNo =>
                     iCorrelater <= s.iCorrelater
              /\ s.state = "write" /\ s.iMmapNo + 1 = iMmapNo =>
                     iCorrelater = 1
      <4>1. FileInv(s) /\ Advances(r, s) /\ s \in ThreadType
        BY <1>12, <2>1
      <4>2. Len(s.file) \in Nat /\ s.iCorrelater >= 1
        BY FileTransAssumption DEF ThreadType
      <4>3. s.state = "write" => Acked(s) = Len(s.file) + 1
        BY ThreadNumbers
      <4>4. /\ r.state = "recv" => r.iMmapNo = Acked(r) + 1
            /\ r.state = "write" => r.iMmapNo = Acked(r)
            /\ s.state = "recv" => s.iMmapNo = Acked(s) + 1
            /\ s.state = "write" => s.iMmapNo = Acked(s)
        BY <1>8, <1>9, <4>1, <4>2, <4>3 DEF FileInv, Busy
      <4> QED
        BY <1>8, <3>1, <3>2, <4>1, <4>2, <4>4 DEF Advances, Busy
    <3> QED
      BY <1>2, <1>3, <2>1, <3>3 DEF PeerInv, Transferring, Acked
  <2>2. CASE peer # t
    <3>1. peer # NULL => thread'[peer] = thread[peer]
      BY <1>3, <2>2 DEF TransInv, TypeOK
    <3> QED
      BY <1>2, <3>1 DEF TransInv, PeerInv, Transferring, Acked
  <2> QED
    BY <2>1, <2>2
<1>14. DoneInv'
  <2>1. ASSUME eStatus = "success", iNoOfMappingNeeded > 0, peer = t
        PROVE  Acked(s) = iNoOfMappingNeeded
    <3>1. Acked(r) = iNoOfMappingNeeded /\ Acked(r) <= Acked(s)
      BY <1>7, <1>12, <2>1 DEF TransInv, DoneInv, Advances
    <3>2. iNoOfMappingNeeded \in Nat
      BY <1>8, <3>1
    <3>3. Acked(s) <= iNoOfMappingNeeded
      BY <1>8, <2>1, <3>1, <3>2 DEF HeldInv
    <3> QED
      BY <1>8, <3>1, <3>3
  <2>2. peer # NULL => peer \in Threads
    BY DEF TransInv, TypeOK
  <2> QED
    BY <1>1, <1>2, <1>3, <2>1, <2>2 DEF TransInv, DoneInv, Acked
<1> QED
  BY <1>4, <1>5, <1>6, <1>11, <1>13, <1>14 DEF TransInv

-----------------------------------------------------------------------------
(* The steps of a thread.                                                  *)

\* What a thread starts with.
LEMMA NewThreadType ==
    ASSUME fileSize \in Nat, NEW state \in {"none", "recv", "done"}, NEW s,
           s = [NewThread EXCEPT !.state = state]
    PROVE  /\ s \in ThreadType /\ s.state = state
           /\ FileInv(s) /\ CountInv(s) /\ \A t : HeldInv(t, s)
<1>1. /\ s.state = state /\ s.iMmapNo = 1 /\ s.iCorrelater = 1
      /\ s.iNoOfTimeOuts = 0 /\ s.iNoOfPktsExpected = iNoPktsPerMMap
      /\ s.iNoOfPktsPerMap = iNoPktsPerMMap /\ s.iLoopCntr = 0
      /\ s.places = {} /\ s.iToNoOfPktsRecvd = 0 /\ s.file = << >>
  BY DEF NewThread
<1>2. s \in ThreadType
  <2>1. PICK n \in Nat, z \in Nat : n = iNoPktsPerMMap /\ z = 0
    BY Numbers
  <2>2. PICK k \in 1 .. MAX_NO_OF_RETRIES + 1,
             o \in 0 .. MAX_NO_OF_RETRIES + 1 : k = 1 /\ o = 0
    BY FileTransAssumption
  <2>3. PICK m \in Nat \ {0}, P \in SUBSET Int, f \in Seq(SUBSET Int) :
          m = 1 /\ P = {} /\ f = << >>
    <3>1. << >> \in Seq(SUBSET Int) /\ {} \in SUBSET Int /\ 1 \in Nat \ {0}
      OBVIOUS
    <3> QED
      BY <3>1, Zenon
  <2>4. s = [state |-> state, iMmapNo |-> m, iCorrelater |-> k,
             iNoOfTimeOuts |-> o, iNoOfPktsExpected |-> n,
             iNoOfPktsPerMap |-> n, iLoopCntr |-> z,
             places |-> P, iToNoOfPktsRecvd |-> z, file |-> f]
    BY <2>1, <2>2, <2>3 DEF NewThread
  <2>5. [state |-> state, iMmapNo |-> m, iCorrelater |-> k,
         iNoOfTimeOuts |-> o, iNoOfPktsExpected |-> n,
         iNoOfPktsPerMap |-> n, iLoopCntr |-> z,
         places |-> P, iToNoOfPktsRecvd |-> z, file |-> f] \in ThreadType
    BY DEF ThreadType
  <2> QED
    BY <2>4, <2>5
<1>3. FileInv(s)
  BY <1>1, FileTransAssumption DEF FileInv, Busy
<1>4. CountInv(s)
  <2>1. /\ iNoPktsPerMMap \in Nat /\ PktsOfMap(1) = iNoPktsPerMMap
        /\ iNoOfMappingNeeded > 0 => iNoPktsPerMMap > 0
    BY Numbers
  <2>2. Cardinality(MissingOf(s)) = iNoPktsPerMMap
    BY <1>1, <2>1, MissingPackets DEF MissingOf
  <2> QED
    BY <1>1, <2>1, <2>2 DEF CountInv
<1>5. \A t : HeldInv(t, s)
  <2>1. Acked(s) = 0
    <3>1. Len(s.file) = 0 /\ s.state # "write"
      BY <1>1
    <3> QED
      BY <1>2, <3>1, ThreadNumbers
  <2> QED
    BY <1>1, <2>1 DEF HeldInv
<1> QED
  BY <1>1, <1>2, <1>3, <1>4, <1>5

\* FileTrans_HandleRequest.
LEMMA RequestStep ==
    ASSUME TransInv, NEW t \in Threads, NEW state \in {"recv", "done"},
           HandleRequest(t, state)
    PROVE  TransInv'
<1>1. PICK s : s = [NewThread EXCEPT !.state = state]
  OBVIOUS
<1>2. /\ UNCHANGED <<fileSize, senderVars>> /\ thread[t].state = "none"
      /\ thread' = [thread EXCEPT ![t] = s]
  BY <1>1 DEF HandleRequest
<1>3. fileSize \in Nat
  BY FileTransAssumption DEF TransInv, TypeOK
<1>4. /\ s \in ThreadType /\ s.state = state
      /\ FileInv(s) /\ CountInv(s) /\ HeldInv(t, s)
  BY <1>1, <1>3, NewThreadType
<1>5. PICK m : m = Answer("HND_SHAKE_ACK", t, 0, 1, 0, {})
  OBVIOUS
<1>6. net' \subseteq net \cup {m}
  BY <1>5 DEF HandleRequest, Exchange
<1>7. \A x \in {m} : AnswerOf(x, t, s)
  BY <1>4, <1>5 DEF AnswerOf, Tells, Answer
<1>8. s.state # "none"
  BY <1>4
<1>9. ThreadMoves(t, s, {m})
  BY <1>2, <1>4, <1>6, <1>7, <1>8 DEF ThreadMoves
<1> QED
  BY <1>2, <1>4, <1>9, ThreadChanges

\* FileTrans_RecvDataPkt: a packet of another window or attempt is thrown away,
\* and the place of one that counts is in the window.
LEMMA PacketStep ==
    ASSUME TransInv, NEW t \in Threads, NEW m \in DataPkts, RecvDataPkt(t, m)
    PROVE  TransInv'
<1>1. PICK r \in ThreadType :
        /\ r = thread[t] /\ r.state = "recv"
        /\ FileInv(r) /\ CountInv(r) /\ HeldInv(t, r)
  BY DEF RecvDataPkt, Receiving, TransInv, TypeOK, ThreadInv
<1>2. UNCHANGED <<fileSize, senderVars>> /\ net' \subseteq net \cup {}
  BY DEF RecvDataPkt, Exchange
<1>3. thread \in [Threads -> ThreadType]
  BY DEF TransInv, TypeOK
<1>4. PICK s \in ThreadType :
        /\ thread' = [thread EXCEPT ![t] = s]
        /\ s.state = "recv" /\ s.iMmapNo = r.iMmapNo
        /\ s.iCorrelater = r.iCorrelater /\ s.file = r.file
        /\ s.iNoOfTimeOuts = r.iNoOfTimeOuts
        /\ CountInv(s) /\ HeldInv(t, s)
  <2>1. CASE ~DataMatches(t, m)
    BY <1>1, <1>3, <2>1 DEF RecvDataPkt
  <2>2. CASE DataMatches(t, m)
    <3>1. /\ m.to = t /\ m.iMmapNo = r.iMmapNo /\ DataSent(m)
      BY <1>1, <2>2, Datagrams DEF RecvDataPkt, DataMatches, TransInv
    <3>2. PICK i \in 1 .. PktsOfMap(r.iMmapNo) : m.iPktNo = PktNo(r.iMmapNo, i)
      BY <3>1 DEF DataSent
    <3>3. fileSize \in Nat
      BY FileTransAssumption DEF TransInv, TypeOK
    <3>4. Place(r.iMmapNo, m.iPktNo) = i /\ i \in Int
      <4>1. iNoPktsPerMMap \in Nat /\ PktsOfMap(r.iMmapNo) \in Nat
        BY <3>3, Numbers
      <4>2. PICK n \in Int : n = (r.iMmapNo - 1) * iNoPktsPerMMap
        BY <4>1 DEF ThreadType
      <4>3. (n + i) - n = i
        BY <4>1
      <4> QED
        BY <3>2, <4>1, <4>2, <4>3 DEF Place, PktNo
    <3>5. PICK s : s = [r EXCEPT !.places = @ \cup {i}, !.iLoopCntr = @ + 1,
                                 !.iToNoOfPktsRecvd = @ + 1]
      OBVIOUS
    <3>6. thread' = [thread EXCEPT ![t] = s]
      BY <1>1, <1>3, <2>2, <3>4, <3>5 DEF RecvDataPkt
    <3>7. /\ s.state = "recv" /\ s.iMmapNo = r.iMmapNo
          /\ s.iCorrelater = r.iCorrelater /\ s.file = r.file
          /\ s.iNoOfTimeOuts = r.iNoOfTimeOuts
          /\ s.places = r.places \cup {i} /\ s.iLoopCntr = r.iLoopCntr + 1
          /\ s.iNoOfPktsPerMap = r.iNoOfPktsPerMap
          /\ s.iNoOfPktsExpected = r.iNoOfPktsExpected
      BY <1>1, <3>5 DEF ThreadType
    <3>10. s \in ThreadType
      <4>1. /\ r.places \cup {i} \in SUBSET Int /\ r.iLoopCntr + 1 \in Nat
            /\ r.iToNoOfPktsRecvd + 1 \in Nat
        BY <3>4 DEF ThreadType
      <4> QED
        BY <3>5, <4>1 DEF ThreadType
    <3>8. CountInv(s)
      <4>1. /\ r.iNoOfPktsPerMap \in Nat /\ r.iNoOfPktsExpected \in Nat
            /\ r.iLoopCntr \in Nat
        BY DEF ThreadType
      <4>2. /\ Cardinality(MissingOf(r)) \in Nat
            /\ Cardinality(MissingOf(s)) \in Nat
            /\ Cardinality(MissingOf(s)) + 1 >= Cardinality(MissingOf(r))
        <5>1. /\ MissingOf(r) = (1 .. r.iNoOfPktsPerMap) \ r.places
              /\ MissingOf(s) = (1 .. r.iNoOfPktsPerMap) \ (r.places \cup {i})
          BY <3>7 DEF MissingOf
        <5> QED
          BY <4>1, <5>1, MissingPackets
      <4>3. s.places \subseteq 1 .. PktsOfMap(s.iMmapNo)
        BY <1>1, <3>7 DEF CountInv
      <4> QED
        BY <1>1, <3>7, <4>1, <4>2, <4>3 DEF CountInv, Busy
    <3>9. HeldInv(t, s)
      <4>1. /\ t = peer /\ r.iMmapNo <= iNoOfMappingNeeded
            /\ r.iMmapNo <= iMmapNo
        <5>1. iNoOfMappingNeeded \in Nat
          BY <3>3, Numbers
        <5> QED
          BY <3>1, <5>1 DEF DataSent
      <4> QED
        BY <1>1, <3>7, <4>1 DEF HeldInv, Acked
    <3> QED
      BY <3>6, <3>7, <3>8, <3>9, <3>10
  <2> QED
    BY <2>1, <2>2
<1>5. FileInv(s)
  BY <1>1, <1>4 DEF FileInv, Busy
<1>6. Advances(thread[t], s) /\ s.state # "none"
  <2>1. Acked(r) \in Nat /\ r.iCorrelater \in Nat /\ Acked(s) = Acked(r)
    BY <1>1, <1>4, ThreadNumbers
  <2> QED
    BY <1>1, <1>4, <2>1 DEF Advances, Busy
<1>7. \A x \in {} : AnswerOf(x, t, s)
  OBVIOUS
<1>8. ThreadMoves(t, s, {})
  BY <1>2, <1>4, <1>5, <1>6, <1>7 DEF ThreadMoves
<1> QED
  BY <1>2, <1>8, ThreadChanges

\* A thread ends without writing the window.
LEMMA ThreadEnds ==
    ASSUME TransInv, NEW t \in Threads, NEW r \in ThreadType, r = thread[t],
           r.state = "recv", NEW s \in ThreadType,
           thread' = [thread EXCEPT ![t] = s],
           s.state = "done", s.iMmapNo = r.iMmapNo, s.file = r.file,
           s.iCorrelater = r.iCorrelater, s.iNoOfTimeOuts >= r.iNoOfTimeOuts,
           s.places = r.places, s.iLoopCntr = r.iLoopCntr,
           UNCHANGED <<fileSize, net, senderVars>>
    PROVE  TransInv'
<1>1. FileInv(r) /\ CountInv(r) /\ HeldInv(t, r)
  BY DEF TransInv, ThreadInv
<1>2. /\ Acked(r) \in Nat /\ Acked(s) = Acked(r) /\ r.iCorrelater \in Nat
      /\ r.iNoOfTimeOuts \in Nat /\ s.iNoOfTimeOuts \in Nat
  BY ThreadNumbers
<1>3. FileInv(s) /\ CountInv(s) /\ HeldInv(t, s)
  BY <1>1, <1>2 DEF FileInv, CountInv, HeldInv, Busy
<1>4. Advances(thread[t], s)
  BY <1>2 DEF Advances, Busy
<1>5. net' \subseteq net \cup {} /\ UNCHANGED <<fileSize, senderVars>>
  OBVIOUS
<1>6. (\A x \in {} : AnswerOf(x, t, s)) /\ s.state # "none"
  OBVIOUS
<1>7. ThreadMoves(t, s, {})
  BY <1>3, <1>4, <1>5, <1>6 DEF ThreadMoves
<1> QED
  BY <1>5, <1>7, ThreadChanges

\* A wait ends: some packets are missing, and are asked for.
LEMMA TimeoutStep ==
    ASSUME TransInv, NEW t \in Threads, RecvTimesOut(t)
    PROVE  TransInv'
<1>1. PICK r \in ThreadType :
        /\ r = thread[t] /\ r.state = "recv"
        /\ r.iLoopCntr < r.iNoOfPktsExpected
        /\ FileInv(r) /\ CountInv(r) /\ HeldInv(t, r)
  <2>1. thread[t] \in ThreadType
    BY DEF TransInv, TypeOK
  <2>2. thread[t].iLoopCntr < thread[t].iNoOfPktsExpected
    BY <2>1 DEF RecvTimesOut, WindowReceived, ThreadType
  <2> QED
    BY <2>1, <2>2 DEF RecvTimesOut, Receiving, TransInv, ThreadInv
<1>2. /\ UNCHANGED <<fileSize, senderVars>>
      /\ thread \in [Threads -> ThreadType] /\ fileSize \in Nat
  BY FileTransAssumption DEF RecvTimesOut, TransInv, TypeOK
<1>3. /\ r.iNoOfTimeOuts \in Nat /\ r.iCorrelater \in Nat
      /\ r.iNoOfTimeOuts <= MAX_NO_OF_RETRIES /\ MAX_NO_OF_RETRIES \in Nat
      /\ r.iNoOfPktsPerMap \in Nat /\ r.iLoopCntr \in Nat
      /\ r.iNoOfPktsExpected \in Nat
      /\ Len(r.file) \in Nat /\ r.iMmapNo \in Nat
      /\ r.iCorrelater >= 1 /\ r.iCorrelater <= r.iNoOfTimeOuts + 1
      /\ Len(r.file) + 1 = r.iMmapNo
  <2>1. /\ r.iNoOfTimeOuts \in Nat /\ r.iCorrelater \in Nat
        /\ r.iCorrelater >= 1
        /\ MAX_NO_OF_RETRIES \in Nat
        /\ r.iNoOfPktsPerMap \in Nat /\ r.iLoopCntr \in Nat
        /\ r.iNoOfPktsExpected \in Nat
        /\ Len(r.file) \in Nat /\ r.iMmapNo \in Nat
    BY FileTransAssumption DEF ThreadType
  <2>2. FileInv(r) /\ r.state = "recv"
    BY <1>1
  <2> QED
    BY <2>1, <2>2 DEF FileInv, Busy
<1>4. CASE r.iNoOfTimeOuts >= MAX_NO_OF_RETRIES
  <2>1. PICK s : s = [r EXCEPT !.state = "done", !.iNoOfTimeOuts = @ + 1]
    OBVIOUS
  <2>2. thread' = [thread EXCEPT ![t] = s] /\ net' = net
    BY <1>1, <1>2, <1>4, <2>1 DEF RecvTimesOut
  <2>3. s \in ThreadType
    <3>1. r.iNoOfTimeOuts + 1 \in 0 .. MAX_NO_OF_RETRIES + 1
      BY <1>3
    <3> QED
      BY <2>1, <3>1 DEF ThreadType
  <2>4. /\ s.state = "done" /\ s.iMmapNo = r.iMmapNo /\ s.file = r.file
        /\ s.iCorrelater = r.iCorrelater /\ s.iNoOfTimeOuts >= r.iNoOfTimeOuts
        /\ s.places = r.places /\ s.iLoopCntr = r.iLoopCntr
    BY <1>3, <2>1 DEF ThreadType
  <2> QED
    BY <1>1, <1>2, <2>2, <2>3, <2>4, ThreadEnds
<1>5. CASE ~(r.iNoOfTimeOuts >= MAX_NO_OF_RETRIES)
  <2>1. PICK n \in Nat : n = Cardinality(MissingOf(r))
    BY <1>3, MissingPackets DEF MissingOf
  <2>2. PICK s : s = [r EXCEPT !.iNoOfTimeOuts = @ + 1,
                               !.iNoOfPktsExpected = n,
                               !.iCorrelater = @ + 1, !.iLoopCntr = 0]
    OBVIOUS
  <2>3. thread' = [thread EXCEPT ![t] = s]
    BY <1>1, <1>2, <1>5, <2>1, <2>2 DEF RecvTimesOut, Missing, MissingOf
  <2>4. s \in ThreadType
    <3>1. /\ r.iNoOfTimeOuts + 1 \in 0 .. MAX_NO_OF_RETRIES + 1
          /\ r.iCorrelater + 1 \in 1 .. MAX_NO_OF_RETRIES + 1
      BY <1>3, <1>5
    <3> QED
      BY <2>2, <3>1 DEF ThreadType
  <2>5. /\ s.state = "recv" /\ s.iMmapNo = r.iMmapNo /\ s.file = r.file
        /\ s.iNoOfTimeOuts = r.iNoOfTimeOuts + 1
        /\ s.iCorrelater = r.iCorrelater + 1 /\ s.iLoopCntr = 0
        /\ s.iNoOfPktsExpected = n /\ s.places = r.places
        /\ s.iNoOfPktsPerMap = r.iNoOfPktsPerMap
    BY <1>1, <2>2 DEF ThreadType
  <2>6. FileInv(s)
    BY <1>3, <1>5, <2>5 DEF FileInv, Busy
  <2>7. CountInv(s)
    <3>1. iNoOfMappingNeeded \in Nat
      BY <1>2, Numbers
    <3>2. ASSUME iNoOfMappingNeeded > 0 PROVE n > 0
      <4>1. CASE r.iMmapNo <= iNoOfMappingNeeded
        BY <1>1, <1>3, <2>1, <3>2, <4>1 DEF CountInv, Busy
      <4>2. CASE ~(r.iMmapNo <= iNoOfMappingNeeded)
        <5>1. r.places = {}
          BY <1>1, <4>2 DEF HeldInv
        <5>2. n = r.iNoOfPktsPerMap
          BY <1>3, <2>1, <5>1, MissingPackets DEF MissingOf
        <5> QED
          BY <1>1, <3>2, <5>2 DEF CountInv, Busy
      <4> QED
        BY <4>1, <4>2
    <3>3. Cardinality(MissingOf(s)) = n
      BY <2>1, <2>5 DEF MissingOf
    <3> QED
      BY <1>1, <2>5, <3>2, <3>3 DEF CountInv, Busy
  <2>8. HeldInv(t, s)
    BY <1>1, <2>5 DEF HeldInv, Acked
  <2>10. Advances(thread[t], s) /\ s.state # "none"
    BY <1>1, <1>3, <2>5 DEF Advances, Busy, Acked
  <2>11. PICK m : m = Answer("DATA_NEG_ACK", t, r.iMmapNo, r.iCorrelater,
                             r.iNoOfPktsPerMap,
                             r.places \cap (1 .. r.iNoOfPktsPerMap))
    OBVIOUS
  <2>12. net' \subseteq net \cup {m}
    BY <1>1, <1>5, <2>11 DEF RecvTimesOut, Send
  <2>13. \A x \in {m} : AnswerOf(x, t, s)
    <3>1. /\ m.ePktType = "DATA_NEG_ACK" /\ m.from = t
          /\ m.iMmapNo = r.iMmapNo /\ m.iCorrelater = r.iCorrelater
          /\ m.got = r.places \cap (1 .. r.iNoOfPktsPerMap)
      BY <2>11 DEF Answer
    <3>2. m.got \subseteq Nat
      BY <1>3, <3>1
    <3>3. Tells(m, s)
      BY <1>3, <2>5, <3>1 DEF Tells
    <3> QED
      BY <1>3, <3>1, <3>2, <3>3 DEF AnswerOf
  <2>14. ThreadMoves(t, s, {m})
    BY <2>3, <2>6, <2>7, <2>8, <2>10, <2>12, <2>13 DEF ThreadMoves
  <2> QED
    BY <1>2, <2>4, <2>14, ThreadChanges
<1> QED
  BY <1>4, <1>5

\* Thread t, in state r, writes window r.iMmapNo; s is the state in which it goes
\* on.
Writes(t, r, s) ==
    /\ r = thread[t] /\ r.state = "write"
    /\ FileInv(r) /\ CountInv(r) /\ HeldInv(t, r)
    /\ thread' = [thread EXCEPT ![t] = s]
    /\ Len(s.file) = Len(r.file) + 1 /\ s.iNoOfTimeOuts = r.iNoOfTimeOuts
    /\ s.places = {} /\ s.iLoopCntr = 0
    /\ \/ /\ s.state = "done" /\ s.iMmapNo = r.iMmapNo
          /\ s.iCorrelater = r.iCorrelater
       \/ /\ s.state = "recv" /\ s.iMmapNo = r.iMmapNo + 1
          /\ s.iCorrelater = 1
          /\ s.iNoOfPktsExpected =
                 IF s.iMmapNo = iNoOfMappingNeeded /\ iExtraPktsPerMap # 0
                 THEN iExtraPktsPerMap ELSE iNoPktsPerMMap
          /\ s.iNoOfPktsPerMap =
                 IF s.iMmapNo = iNoOfMappingNeeded /\ iExtraPktsPerMap # 0
                 THEN iExtraPktsPerMap ELSE r.iNoOfPktsPerMap

\* That is what WriteWindow does.
LEMMA WindowWritten ==
    ASSUME TransInv, NEW t \in Threads, NEW w \in Stored(t), WriteWindow(t, w)
    PROVE  \E r, s \in ThreadType : Writes(t, r, s)
<1>1. PICK r \in ThreadType :
        /\ r = thread[t] /\ r.state = "write"
        /\ FileInv(r) /\ CountInv(r) /\ HeldInv(t, r)
  BY DEF WriteWindow, TransInv, TypeOK, ThreadInv
<1>2. thread \in [Threads -> ThreadType] /\ fileSize \in Nat
  BY FileTransAssumption DEF TransInv, TypeOK
<1>3. iNoPktsPerMMap \in Nat /\ iExtraPktsPerMap \in Nat
  BY <1>2, Numbers
<1>4. w \in SUBSET Int
  <2>1. \A i \in Int : PktNo(r.iMmapNo, i) \in Int
    BY <1>3 DEF PktNo, ThreadType
  <2>2. r.places \subseteq Int
    BY DEF ThreadType
  <2> QED
    BY <1>1, <2>1, <2>2 DEF Stored, Written
<1>5. PICK q : q = [r EXCEPT !.file = Append(@, w), !.places = {},
                             !.iLoopCntr = 0]
  OBVIOUS
<1>6. q \in ThreadType
  <2>1. /\ Append(r.file, w) \in Seq(SUBSET Int) /\ {} \in SUBSET Int
        /\ 0 \in Nat
    BY <1>4 DEF ThreadType
  <2> QED
    BY <1>5, <2>1 DEF ThreadType
<1>7. /\ q.state = r.state /\ q.iMmapNo = r.iMmapNo
      /\ q.iCorrelater = r.iCorrelater /\ q.iNoOfTimeOuts = r.iNoOfTimeOuts
      /\ q.iNoOfPktsPerMap = r.iNoOfPktsPerMap
      /\ q.places = {} /\ q.iLoopCntr = 0
      /\ q.file = Append(r.file, w)
  BY <1>5 DEF ThreadType
<1>8. Len(q.file) = Len(r.file) + 1
  BY <1>4, <1>7 DEF ThreadType
<1>9. PICK s : s = IF q.iToNoOfPktsRecvd = iTotNoOfPkts
                   THEN [q EXCEPT !.state = "done"] ELSE NextWindow(q)
  OBVIOUS
<1>10. thread' = [thread EXCEPT ![t] = s]
  BY <1>1, <1>5, <1>9 DEF WriteWindow
<1>11. CASE q.iToNoOfPktsRecvd = iTotNoOfPkts
  <2>1. s = [q EXCEPT !.state = "done"]
    BY <1>9, <1>11
  <2>2. s \in ThreadType
    BY <1>6, <2>1 DEF ThreadType
  <2>3. /\ s.state = "done" /\ s.iMmapNo = q.iMmapNo /\ s.file = q.file
        /\ s.iCorrelater = q.iCorrelater /\ s.iNoOfTimeOuts = q.iNoOfTimeOuts
        /\ s.places = q.places /\ s.iLoopCntr = q.iLoopCntr
    BY <1>6, <2>1 DEF ThreadType
  <2>4. Writes(t, r, s)
    BY <1>1, <1>7, <1>8, <1>10, <2>3 DEF Writes
  <2> QED
    BY <2>2, <2>4
<1>12. CASE q.iToNoOfPktsRecvd # iTotNoOfPkts
  <2>1. PICK e \in Nat, n \in Nat :
          /\ e = IF q.iMmapNo + 1 = iNoOfMappingNeeded /\ iExtraPktsPerMap # 0
                 THEN iExtraPktsPerMap ELSE iNoPktsPerMMap
          /\ n = IF q.iMmapNo + 1 = iNoOfMappingNeeded /\ iExtraPktsPerMap # 0
                 THEN iExtraPktsPerMap ELSE q.iNoOfPktsPerMap
    BY <1>3, <1>6 DEF ThreadType
  <2>2. s = [q EXCEPT !.state = "recv", !.iMmapNo = @ + 1, !.iCorrelater = 1,
                      !.iNoOfPktsExpected = e, !.iNoOfPktsPerMap = n]
    BY <1>6, <1>9, <1>12, <2>1 DEF NextWindow, ThreadType
  <2>3. s \in ThreadType
    <3>1. q.iMmapNo \in Nat /\ MAX_NO_OF_RETRIES \in Nat
      BY <1>6, FileTransAssumption DEF ThreadType
    <3>2. q.iMmapNo + 1 \in Nat \ {0} /\ 1 \in 1 .. MAX_NO_OF_RETRIES + 1
      BY <3>1
    <3> QED
      BY <1>6, <2>2, <3>2 DEF ThreadType
  <2>4. /\ s.state = "recv" /\ s.iMmapNo = q.iMmapNo + 1 /\ s.file = q.file
        /\ s.iCorrelater = 1 /\ s.iNoOfTimeOuts = q.iNoOfTimeOuts
        /\ s.places = q.places /\ s.iLoopCntr = q.iLoopCntr
        /\ s.iNoOfPktsExpected = e /\ s.iNoOfPktsPerMap = n
    BY <1>6, <2>2 DEF ThreadType
  <2>5. Writes(t, r, s)
    BY <1>1, <1>7, <1>8, <1>10, <2>1, <2>4 DEF Writes
  <2> QED
    BY <2>3, <2>5
<1> QED
  BY <1>11, <1>12

\* FileTrans_HandleDataPkt acknowledges window r.iMmapNo, which it has received
\* from the sender unless the file is empty.
Acknowledges(t, r, s) ==
    /\ r = thread[t] /\ r.state = "recv" /\ r.iLoopCntr >= r.iNoOfPktsExpected
    /\ FileInv(r) /\ CountInv(r) /\ HeldInv(t, r)
    /\ thread' = [thread EXCEPT ![t] = s]
    /\ s.state = "write" /\ s.iMmapNo = r.iMmapNo /\ s.file = r.file
    /\ s.iCorrelater = r.iCorrelater /\ s.iNoOfTimeOuts = r.iNoOfTimeOuts
    /\ s.places = r.places /\ s.iLoopCntr = r.iLoopCntr
    /\ s.iNoOfPktsPerMap = r.iNoOfPktsPerMap
    /\ s.iNoOfPktsExpected = r.iNoOfPktsExpected
    /\ Acked(r) = Len(r.file) /\ Acked(s) = Acked(r) + 1
    /\ Acked(s) = r.iMmapNo
    /\ iNoOfMappingNeeded > 0 =>
           /\ t = peer
           /\ r.iMmapNo <= iNoOfMappingNeeded /\ r.iMmapNo <= iMmapNo

\* That is what WindowDone does.
LEMMA WindowAcked ==
    ASSUME TransInv, NEW t \in Threads, WindowDone(t)
    PROVE  \E r, s \in ThreadType : Acknowledges(t, r, s)
<1>1. PICK r \in ThreadType :
        /\ r = thread[t] /\ r.state = "recv"
        /\ r.iLoopCntr >= r.iNoOfPktsExpected
        /\ FileInv(r) /\ CountInv(r) /\ HeldInv(t, r)
  BY DEF WindowDone, Receiving, WindowReceived, TransInv, TypeOK, ThreadInv
<1>2. PICK s : s = [r EXCEPT !.state = "write"]
  OBVIOUS
<1>3. thread' = [thread EXCEPT ![t] = s]
  BY <1>1, <1>2 DEF WindowDone, TransInv, TypeOK
<1>4. s \in ThreadType
  BY <1>2 DEF ThreadType
<1>5. /\ s.state = "write" /\ s.iMmapNo = r.iMmapNo /\ s.file = r.file
      /\ s.iCorrelater = r.iCorrelater /\ s.iNoOfTimeOuts = r.iNoOfTimeOuts
      /\ s.places = r.places /\ s.iLoopCntr = r.iLoopCntr
      /\ s.iNoOfPktsPerMap = r.iNoOfPktsPerMap
      /\ s.iNoOfPktsExpected = r.iNoOfPktsExpected
  BY <1>2 DEF ThreadType
<1>6. /\ Acked(r) = Len(r.file) /\ Acked(s) = Acked(r) + 1
      /\ Acked(s) = r.iMmapNo
  BY <1>1, <1>4, <1>5, ThreadNumbers DEF FileInv, Busy
<1>7. ASSUME iNoOfMappingNeeded > 0
      PROVE  /\ t = peer
             /\ r.iMmapNo <= iNoOfMappingNeeded /\ r.iMmapNo <= iMmapNo
  <2>1. r.iNoOfPktsExpected > 0
    BY <1>1, <1>7 DEF CountInv, Busy
  <2>2. r.iLoopCntr > 0
    BY <1>1, <2>1 DEF ThreadType
  <2> QED
    BY <1>1, <2>2 DEF HeldInv
<1> QED
  BY <1>1, <1>3, <1>4, <1>5, <1>6, <1>7 DEF Acknowledges

\* FileTrans_HandleDataPkt acknowledges a window.
LEMMA WindowStep ==
    ASSUME TransInv, NEW t \in Threads, WindowDone(t)
    PROVE  TransInv'
<1>1. PICK r \in ThreadType, s \in ThreadType : Acknowledges(t, r, s)
  BY WindowAcked
<1>2. /\ Acked(r) \in Nat /\ Acked(s) \in Nat
      /\ r.iMmapNo \in Nat /\ r.iCorrelater \in Nat
  BY ThreadNumbers
<1>3. FileInv(s)
  BY <1>1 DEF Acknowledges, FileInv, Busy
<1>4. CountInv(s)
  BY <1>1 DEF Acknowledges, CountInv, MissingOf, Busy
<1>5. HeldInv(t, s)
  BY <1>1 DEF Acknowledges, HeldInv
<1>6. Advances(thread[t], s) /\ s.state # "none" /\ r = thread[t]
  BY <1>1, <1>2 DEF Acknowledges, Advances, Busy
<1>7. PICK m : m = Answer("DATA_ACK", t, r.iMmapNo, r.iCorrelater, 0, {})
  OBVIOUS
<1>8. net' \subseteq net \cup {m} /\ UNCHANGED <<fileSize, senderVars>>
  BY <1>6, <1>7 DEF WindowDone, Send
<1>9. \A x \in {m} : AnswerOf(x, t, s)
  <2>1. /\ m.ePktType = "DATA_ACK" /\ m.from = t /\ m.got = {}
        /\ m.iMmapNo = r.iMmapNo /\ m.iCorrelater = r.iCorrelater
    BY <1>7 DEF Answer
  <2>2. Tells(m, s)
    BY <1>1, <1>2, <1>6, <2>1 DEF Tells, Acknowledges
  <2> QED
    BY <1>2, <2>1, <2>2 DEF AnswerOf
<1>10. thread' = [thread EXCEPT ![t] = s]
  BY <1>1 DEF Acknowledges
<1>11. ThreadMoves(t, s, {m})
  BY <1>3, <1>4, <1>5, <1>6, <1>8, <1>9, <1>10 DEF ThreadMoves
<1> QED
  BY <1>8, <1>11, ThreadChanges

\* FileTrans_HandleDataPkt writes a window.
LEMMA WriteStep ==
    ASSUME TransInv, NEW t \in Threads, NEW w \in Stored(t), WriteWindow(t, w)
    PROVE  TransInv'
<1>1. PICK r \in ThreadType, s \in ThreadType : Writes(t, r, s)
  BY WindowWritten
<1>2. /\ r.iMmapNo \in Nat /\ Len(r.file) \in Nat /\ Len(s.file) \in Nat
      /\ r.iNoOfTimeOuts \in Nat /\ r.iCorrelater \in Nat
      /\ r.iNoOfPktsPerMap \in Nat /\ s.iNoOfPktsPerMap \in Nat
  BY FileTransAssumption DEF ThreadType
<1>3. /\ Len(r.file) + 1 = r.iMmapNo /\ r.iNoOfTimeOuts <= MAX_NO_OF_RETRIES
      /\ r.iCorrelater <= r.iNoOfTimeOuts + 1
      /\ r.state = "write" /\ r = thread[t]
  BY <1>1 DEF Writes, FileInv, Busy
<1>4. /\ thread' = [thread EXCEPT ![t] = s]
      /\ Len(s.file) = r.iMmapNo /\ s.iNoOfTimeOuts = r.iNoOfTimeOuts
      /\ s.places = {} /\ s.iLoopCntr = 0 /\ s.state \in {"recv", "done"}
      /\ s.state = "recv" =>
             s.iMmapNo = r.iMmapNo + 1 /\ s.iCorrelater = 1
      /\ s.state = "done" =>
             s.iMmapNo = r.iMmapNo /\ s.iCorrelater = r.iCorrelater
  BY <1>1, <1>3 DEF Writes
<1>9. Acked(r) = r.iMmapNo /\ Acked(s) = r.iMmapNo
  BY <1>3, <1>4, ThreadNumbers
<1>5. FileInv(s)
  BY <1>2, <1>3, <1>4 DEF FileInv, Busy
<1>6. CountInv(s)
  <2>1. /\ iNoOfMappingNeeded \in Nat
        /\ iNoPktsPerMMap \in Nat /\ iExtraPktsPerMap \in Nat
        /\ iNoOfMappingNeeded > 0 => iNoPktsPerMMap > 0
    <3>1. fileSize \in Nat
      BY FileTransAssumption DEF TransInv, TypeOK
    <3> QED
      BY <3>1, Numbers
  <2>2. ASSUME s.state = "recv", iNoOfMappingNeeded > 0
        PROVE  /\ s.iNoOfPktsExpected > 0 /\ s.iNoOfPktsPerMap > 0
               /\ s.iMmapNo <= iNoOfMappingNeeded =>
                      /\ s.iNoOfPktsPerMap = PktsOfMap(s.iMmapNo)
                      /\ s.iNoOfPktsExpected = PktsOfMap(s.iMmapNo)
    <3>1. /\ s.iNoOfPktsExpected =
                 IF s.iMmapNo = iNoOfMappingNeeded /\ iExtraPktsPerMap # 0
                 THEN iExtraPktsPerMap ELSE iNoPktsPerMMap
          /\ s.iNoOfPktsPerMap =
                 IF s.iMmapNo = iNoOfMappingNeeded /\ iExtraPktsPerMap # 0
                 THEN iExtraPktsPerMap ELSE r.iNoOfPktsPerMap
      BY <1>1, <2>2 DEF Writes
    <3>2. /\ r.iNoOfPktsPerMap > 0
          /\ r.iMmapNo <= iNoOfMappingNeeded =>
                 r.iNoOfPktsPerMap = PktsOfMap(r.iMmapNo)
      BY <1>1, <2>2 DEF Writes, CountInv, Busy
    <3>3. s.iMmapNo <= iNoOfMappingNeeded =>
              /\ r.iMmapNo <= iNoOfMappingNeeded
              /\ r.iMmapNo # iNoOfMappingNeeded
      BY <1>2, <1>4, <2>1, <2>2
    <3> QED
      BY <2>1, <2>2, <3>1, <3>2, <3>3 DEF PktsOfMap
  <2>3. Cardinality(MissingOf(s)) = s.iNoOfPktsPerMap
    BY <1>2, <1>4, MissingPackets DEF MissingOf
  <2>4. s.places \subseteq 1 .. PktsOfMap(s.iMmapNo)
    BY <1>4
  <2> QED
    BY <1>2, <1>4, <2>2, <2>3, <2>4 DEF CountInv, Busy
<1>7. HeldInv(t, s)
  BY <1>1, <1>4, <1>9 DEF Writes, HeldInv
<1>8. Advances(thread[t], s) /\ s.state # "none"
  BY <1>2, <1>3, <1>4, <1>9 DEF Advances, Busy
<1>10. /\ net' \subseteq net \cup {} /\ UNCHANGED <<fileSize, senderVars>>
       /\ \A x \in {} : AnswerOf(x, t, s)
  BY DEF WriteWindow
<1>11. ThreadMoves(t, s, {})
  BY <1>4, <1>5, <1>6, <1>7, <1>8, <1>10 DEF ThreadMoves
<1> QED
  BY <1>10, <1>11, ThreadChanges

\* An error ends the thread.
LEMMA FailureStep ==
    ASSUME TransInv, NEW t \in Threads, ThreadFails(t)
    PROVE  TransInv'
<1>1. PICK r \in ThreadType : r = thread[t] /\ r.state = "recv"
  BY DEF ThreadFails, Receiving, TransInv, TypeOK
<1>2. PICK s : s = [r EXCEPT !.state = "done"]
  OBVIOUS
<1>3. /\ thread' = [thread EXCEPT ![t] = s]
      /\ UNCHANGED <<fileSize, net, senderVars>>
  BY <1>1, <1>2 DEF ThreadFails, TransInv, TypeOK
<1>4. s \in ThreadType
  BY <1>2 DEF ThreadType
<1>5. /\ s.state = "done" /\ s.iMmapNo = r.iMmapNo /\ s.file = r.file
      /\ s.iCorrelater = r.iCorrelater /\ s.iNoOfTimeOuts = r.iNoOfTimeOuts
      /\ s.places = r.places /\ s.iLoopCntr = r.iLoopCntr
  BY <1>2 DEF ThreadType
<1>6. s.iNoOfTimeOuts >= r.iNoOfTimeOuts
  BY <1>5 DEF ThreadType
<1> QED
  BY <1>1, <1>3, <1>4, <1>5, <1>6, ThreadEnds

-----------------------------------------------------------------------------
(* The steps of the sender.                                                *)

\* The facts its steps use.
LEMMA SenderFacts ==
    ASSUME TransInv
    PROVE  /\ fileSize \in Nat /\ iNoOfMappingNeeded \in Nat
           /\ iMmapNo \in Nat /\ iCorrelater \in Nat /\ iCorrelater >= 1
           /\ iNoOfRetries \in Nat /\ iNoOfRetries <= MAX_NO_OF_RETRIES + 2
           /\ MAX_NO_OF_RETRIES \in Nat /\ NULL \notin Threads
<1>1. /\ fileSize \in Nat /\ MAX_NO_OF_RETRIES \in Nat /\ NULL \notin Threads
      /\ iCorrelater \in 1 .. MAX_NO_OF_RETRIES + 2
      /\ iNoOfRetries \in 0 .. MAX_NO_OF_RETRIES + 2 /\ iMmapNo \in Nat
  BY FileTransAssumption DEF TransInv, TypeOK
<1>2. iNoOfMappingNeeded \in Nat
  BY <1>1, Numbers
<1> QED
  BY <1>1, <1>2

\* FileTransfer_InitHandshake sends the handshake, or waits in vain.
LEMMA ShakeStep ==
    ASSUME TransInv, SendHandshake \/ HandshakeTimesOut
    PROVE  TransInv'
<1>1. /\ iNoOfRetries \in Nat /\ MAX_NO_OF_RETRIES \in Nat
      /\ iNoOfRetries' \in Nat /\ iNoOfRetries' <= MAX_NO_OF_RETRIES + 2
      /\ pc' = "shakeAck" => iNoOfRetries' <= MAX_NO_OF_RETRIES + 1
  BY SenderFacts
     DEF SendHandshake, HandshakeTimesOut, RetriesExhausted, TransInv,
         SenderInv
<1>2. /\ pc \in {"shake", "shakeAck"} /\ pc' \in {"shake", "shakeAck"}
      /\ UNCHANGED <<fileSize, iMmapNo, iCorrelater, piPktStatus>>
      /\ UNCHANGED <<peer, eStatus, thread>>
      /\ net' \subseteq net \cup {Shake}
  BY DEF SendHandshake, HandshakeTimesOut, Send
<1>3. peer = NULL /\ iMmapNo = 0 /\ iCorrelater = 1 /\ eStatus = "none"
  BY <1>2 DEF TransInv, SenderInv
<1>4. TypeOK'
  BY <1>1, <1>2 DEF TransInv, TypeOK
<1>5. SenderInv'
  BY <1>1, <1>2, <1>3 DEF SenderInv, Transferring
<1>6. PeerInv' /\ DoneInv'
  BY <1>2, <1>3 DEF PeerInv, DoneInv
<1>7. SenderMoves({Shake})
  BY <1>2, <1>3, <1>4, <1>5, <1>6 DEF SenderMoves
<1> QED
  BY <1>7, SenderChanges

\* The attempts are used up, or there is an error.
LEMMA GiveUpStep ==
    ASSUME TransInv, GiveUp \/ SenderFails
    PROVE  TransInv'
<1>1. /\ pc # "done" /\ pc' = "done" /\ eStatus' = "failure"
      /\ UNCHANGED <<fileSize, net, seqVars, peer, thread>>
  BY DEF GiveUp, SenderFails, Return
<1>2. /\ UNCHANGED <<iMmapNo, iCorrelater, iNoOfRetries, piPktStatus>>
      /\ UNCHANGED <<fileSize, net, peer, thread>>
  BY <1>1 DEF seqVars
<1>3. TypeOK'
  BY <1>1, <1>2 DEF TransInv, TypeOK, Status
<1>4. SenderInv'
  BY <1>1 DEF SenderInv, Transferring
<1>5. PeerInv' /\ DoneInv'
  BY <1>1, <1>2 DEF TransInv, PeerInv, DoneInv, Transferring
<1>6. SenderMoves({})
  BY <1>2, <1>3, <1>4, <1>5, SenderFacts DEF SenderMoves
<1> QED
  BY <1>6, SenderChanges

\* The handshake is answered: the thread is at its first window or beyond.
LEMMA ConnectStep ==
    ASSUME TransInv, NEW m \in Answers, HandshakeDone(m)
    PROVE  TransInv'
<1>1. m.from \in Threads /\ thread[m.from].state # "none"
  BY Datagrams DEF TransInv, AnswerSent, Tells
<1>2. PICK p \in Threads : p = m.from
  BY <1>1
<1>3. /\ pc = "shakeAck" /\ pc' = "send" /\ peer' = p
      /\ net' \subseteq net \cup {}
      /\ iMmapNo' = 1 /\ iCorrelater' = 1 /\ iNoOfRetries' = 0
      /\ piPktStatus' = {} /\ UNCHANGED <<fileSize, eStatus, thread>>
  BY <1>2 DEF HandshakeDone, Exchange
<1>4. peer = NULL /\ eStatus = "none" /\ p # NULL
  BY <1>3, SenderFacts DEF TransInv, SenderInv
<1>5. TypeOK'
  BY <1>3, FileTransAssumption DEF TransInv, TypeOK
<1>6. SenderInv'
  BY <1>3, <1>4, FileTransAssumption DEF SenderInv, Transferring
<1>7. PeerInv'
  <2>1. PICK r \in ThreadType : r = thread[p] /\ r.state # "none"
    BY <1>1, <1>2 DEF TransInv, TypeOK
  <2>2. Acked(r) \in Nat /\ r.iCorrelater >= 1
    BY ThreadNumbers, FileTransAssumption DEF ThreadType
  <2>3. r = thread'[peer']
    BY <1>3, <2>1
  <2> QED
    BY <1>3, <2>1, <2>2, <2>3 DEF PeerInv
<1>8. DoneInv'
  BY <1>3, <1>4 DEF DoneInv
<1>9. SenderMoves({})
  BY <1>3, <1>4, <1>5, <1>6, <1>7, <1>8 DEF SenderMoves
<1> QED
  BY <1>9, SenderChanges

\* FileTrans_SendActualData sends packets of the window the sender is at.
LEMMA SendStep ==
    ASSUME TransInv, SendWindow
    PROVE  TransInv'
<1>1. PICK D : D = {Data(peer, iMmapNo, iCorrelater, PktNo(iMmapNo, i)) :
                      i \in (1 .. PktsOfMap(iMmapNo)) \ piPktStatus}
  OBVIOUS
<1>2. /\ pc = "send" /\ pc' = "dataAck" /\ net' = net \cup D
      /\ iMmapNo <= iNoOfMappingNeeded /\ ~(iNoOfRetries > MAX_NO_OF_RETRIES)
      /\ UNCHANGED <<iMmapNo, iCorrelater, iNoOfRetries, piPktStatus>>
      /\ UNCHANGED <<fileSize, peer, eStatus, thread>>
  BY <1>1 DEF SendWindow, Send, RetriesExhausted, seqVars
<1>3. /\ iNoOfMappingNeeded' = iNoOfMappingNeeded
      /\ \A x : PktsOfMap(x)' = PktsOfMap(x)
      /\ \A x, i : PktNo(x, i)' = PktNo(x, i)
  BY <1>2, SameNumbers
<1>4. /\ peer # NULL /\ iMmapNo \in 1 .. iNoOfMappingNeeded
      /\ iCorrelater <= iNoOfRetries + 1 /\ eStatus = "none"
  BY <1>2, SenderFacts DEF TransInv, SenderInv, Transferring
<1>5. TypeOK'
  BY <1>2 DEF TransInv, TypeOK
<1>6. SenderInv'
  BY <1>2, <1>3, <1>4, SenderFacts DEF SenderInv, Transferring
<1>7. PeerInv'
  BY <1>2 DEF TransInv, PeerInv, Transferring
<1>8. DoneInv'
  BY <1>2, <1>4 DEF DoneInv
<1>9. ASSUME NEW m \in D PROVE DataSent(m)'
  <2>1. PICK i \in 1 .. PktsOfMap(iMmapNo) :
          m = Data(peer, iMmapNo, iCorrelater, PktNo(iMmapNo, i))
    BY <1>1
  <2>2. /\ m.ePktType = "DATA" /\ m.to = peer /\ m.iMmapNo = iMmapNo
        /\ m.iPktNo = PktNo(iMmapNo, i)
    BY <2>1 DEF Data
  <2>3. PICK n \in Nat : n = iMmapNo
    BY SenderFacts
  <2>4. m.iPktNo = PktNo(n, i)' /\ i \in 1 .. PktsOfMap(n)'
    BY <1>3, <2>2, <2>3
  <2>5. /\ m.iMmapNo = n /\ n = iMmapNo' /\ n \in 1 .. iNoOfMappingNeeded'
        /\ peer' # NULL /\ m.to = peer' /\ n <= n
    BY <1>2, <1>3, <1>4, <2>2, <2>3
  <2> QED
    BY <2>2, <2>4, <2>5 DEF DataSent
<1>10. SenderMoves(D)
  BY <1>2, <1>5, <1>6, <1>7, <1>8, <1>9, SenderFacts DEF SenderMoves
<1> QED
  BY <1>10, SenderChanges

\* A file without windows is sent.
LEMMA EmptyStep ==
    ASSUME TransInv, NothingToSend
    PROVE  TransInv'
<1>1. /\ pc = "send" /\ iMmapNo > iNoOfMappingNeeded
      /\ pc' = "done" /\ eStatus' = "success"
      /\ UNCHANGED <<iMmapNo, iCorrelater, iNoOfRetries, piPktStatus>>
      /\ UNCHANGED <<fileSize, net, peer, thread>>
  BY DEF NothingToSend, Return, seqVars
<1>2. peer # NULL /\ iNoOfMappingNeeded = 0
  BY <1>1, SenderFacts DEF TransInv, SenderInv, Transferring
<1>3. iNoOfMappingNeeded' = iNoOfMappingNeeded
  BY <1>1, SameNumbers
<1>4. TypeOK'
  BY <1>1 DEF TransInv, TypeOK, Status
<1>5. SenderInv'
  BY <1>1 DEF SenderInv, Transferring
<1>6. PeerInv'
  BY <1>1 DEF TransInv, PeerInv, Transferring
<1>7. DoneInv'
  BY <1>1, <1>2, <1>3 DEF DoneInv
<1>8. SenderMoves({})
  BY <1>1, <1>4, <1>5, <1>6, <1>7, SenderFacts DEF SenderMoves
<1> QED
  BY <1>8, SenderChanges

\* The window is sent again, or an answer to another one is thrown away.
LEMMA AgainStep ==
    ASSUME TransInv,
           DataAckTimesOut \/ \E m \in Answers : StaleAnswer(m)
    PROVE  TransInv'
<1>1. /\ pc = "dataAck" /\ pc' \in {"send", "dataAck"}
      /\ UNCHANGED <<iMmapNo, iCorrelater, peer, eStatus, fileSize, thread>>
      /\ net' \subseteq net \cup {}
  BY DEF DataAckTimesOut, StaleAnswer, Exchange
<1>2. piPktStatus' \subseteq Nat
  <2>1. CASE DataAckTimesOut
    BY <2>1 DEF DataAckTimesOut, TransInv, TypeOK
  <2>2. ASSUME NEW m \in Answers, StaleAnswer(m)
        PROVE  piPktStatus' \subseteq Nat
    <3>1. m.got \subseteq Nat
      BY Datagrams DEF TransInv, AnswerSent
    <3> QED
      BY <2>2, <3>1 DEF StaleAnswer, Overwrite, TransInv, TypeOK
  <2> QED
    BY <2>1, <2>2
<1>3. \/ iNoOfRetries' = iNoOfRetries + 1 /\ pc' = "send"
      \/ iNoOfRetries' = iNoOfRetries /\ pc' = "dataAck"
  BY <1>1 DEF DataAckTimesOut, StaleAnswer
<1>4. /\ iNoOfRetries <= MAX_NO_OF_RETRIES /\ iMmapNo <= iNoOfMappingNeeded
      /\ peer # NULL /\ iCorrelater <= iNoOfRetries + 1
      /\ iMmapNo = 1 \/ iMmapNo \in 1 .. iNoOfMappingNeeded
      /\ eStatus = "none"
  BY <1>1 DEF TransInv, SenderInv, Transferring
<1>5. /\ iNoOfRetries' \in 0 .. MAX_NO_OF_RETRIES + 2
      /\ pc' = "send" => iNoOfRetries' <= MAX_NO_OF_RETRIES + 1
      /\ pc' = "dataAck" => iNoOfRetries' <= MAX_NO_OF_RETRIES
      /\ iCorrelater <= iNoOfRetries' + 1
  BY <1>3, <1>4, SenderFacts
<1>6. iNoOfMappingNeeded' = iNoOfMappingNeeded
  BY <1>1, SameNumbers
<1>7. TypeOK'
  BY <1>1, <1>2, <1>5 DEF TransInv, TypeOK
<1>8. SenderInv'
  BY <1>1, <1>4, <1>5, <1>6 DEF SenderInv, Transferring
<1>9. PeerInv'
  BY <1>1 DEF TransInv, PeerInv, Transferring
<1>10. DoneInv'
  BY <1>1, <1>4 DEF DoneInv
<1>11. SenderMoves({})
  BY <1>1, <1>7, <1>8, <1>9, <1>10, SenderFacts DEF SenderMoves
<1> QED
  BY <1>11, SenderChanges

\* An answer to the current window and attempt was sent by the thread the sender
\* is connected to, and is true of it.
LEMMA AnswerOfPeer ==
    ASSUME TransInv, NEW m \in Answers, pc = "dataAck", m.from = peer,
           AckMatches(m)
    PROVE  /\ peer \in Threads /\ peer # NULL
           /\ thread[peer] \in ThreadType /\ Tells(m, thread[peer])
           /\ m.iMmapNo = iMmapNo /\ m.iCorrelater = iCorrelater
           /\ m.got \subseteq Nat
           /\ iMmapNo >= 1 /\ iMmapNo <= iNoOfMappingNeeded
           /\ iNoOfRetries <= MAX_NO_OF_RETRIES
           /\ iCorrelater <= iNoOfRetries + 1 /\ eStatus = "none"
<1>1. AnswerSent(m)
  BY Datagrams DEF TransInv
<1>2. /\ iMmapNo <= iNoOfMappingNeeded /\ iNoOfRetries <= MAX_NO_OF_RETRIES
      /\ iMmapNo = 1 \/ iMmapNo \in 1 .. iNoOfMappingNeeded
      /\ iCorrelater <= iNoOfRetries + 1 /\ eStatus = "none" /\ peer # NULL
  BY DEF TransInv, SenderInv, Transferring
<1>3. iMmapNo >= 1
  BY <1>2, SenderFacts
<1> QED
  BY <1>1, <1>2, <1>3 DEF AnswerSent, AckMatches, TransInv, TypeOK

\* DATA_ACK: the sender goes on to the next window, or is done.
LEMMA AckStep ==
    ASSUME TransInv, NEW m \in Answers, WindowAcknowledged(m)
    PROVE  TransInv'
<1>1. /\ pc = "dataAck" /\ m.from = peer /\ AckMatches(m)
      /\ m.ePktType = "DATA_ACK" /\ net' \subseteq net \cup {}
      /\ UNCHANGED <<fileSize, peer, thread>>
  BY DEF WindowAcknowledged, Exchange
<1>2. PICK r \in ThreadType : r = thread[peer] /\ Tells(m, r)
  BY <1>1, AnswerOfPeer
<1>3. /\ r.state # "none" /\ iMmapNo <= Acked(r)
      /\ Acked(r) \in Nat /\ r.iCorrelater >= 1
  <2>1. Acked(r) \in Nat
    BY ThreadNumbers
  <2> QED
    BY <1>1, <1>2, <2>1, AnswerOfPeer, FileTransAssumption
       DEF Tells, ThreadType
<1>4. /\ peer \in Threads /\ peer # NULL /\ eStatus = "none"
      /\ iMmapNo >= 1 /\ iMmapNo <= iNoOfMappingNeeded
  BY <1>1, AnswerOfPeer
<1>5. iNoOfMappingNeeded' = iNoOfMappingNeeded
  BY <1>1, SameNumbers
<1>6. CASE iMmapNo >= iNoOfMappingNeeded
  <2>1. /\ pc' = "done" /\ eStatus' = "success"
        /\ UNCHANGED <<iMmapNo, iCorrelater, iNoOfRetries, piPktStatus>>
    BY <1>6 DEF WindowAcknowledged, Return, seqVars
  <2>2. Acked(r) = iNoOfMappingNeeded
    <3>1. Acked(r) > 0
      BY <1>3, <1>4, SenderFacts
    <3>2. Acked(r) <= iNoOfMappingNeeded
      <4>1. HeldInv(peer, r)
        BY <1>2, <1>4 DEF TransInv, ThreadInv
      <4>2. iNoOfMappingNeeded > 0
        BY <1>4, SenderFacts
      <4> QED
        BY <3>1, <4>1, <4>2 DEF HeldInv
    <3> QED
      BY <1>3, <1>6, <3>2, SenderFacts
  <2>3. TypeOK'
    BY <1>1, <2>1 DEF TransInv, TypeOK, Status
  <2>4. SenderInv'
    BY <2>1 DEF SenderInv, Transferring
  <2>5. PeerInv'
    BY <1>1, <1>2, <1>3, <2>1 DEF PeerInv, Transferring
  <2>6. DoneInv'
    BY <1>1, <1>2, <1>4, <1>5, <2>2 DEF DoneInv
  <2>7. SenderMoves({})
    BY <1>1, <2>1, <2>3, <2>4, <2>5, <2>6, SenderFacts DEF SenderMoves
  <2> QED
    BY <2>7, SenderChanges
<1>7. CASE ~(iMmapNo >= iNoOfMappingNeeded)
  <2>1. /\ pc' = "send" /\ eStatus' = eStatus /\ iMmapNo' = iMmapNo + 1
        /\ iCorrelater' = 1 /\ iNoOfRetries' = 0 /\ piPktStatus' = {}
    BY <1>7 DEF WindowAcknowledged
  <2>2. iMmapNo + 1 \in Nat /\ iMmapNo + 1 \in 1 .. iNoOfMappingNeeded
    BY <1>7, SenderFacts
  <2>3. TypeOK'
    BY <1>1, <2>1, <2>2, FileTransAssumption DEF TransInv, TypeOK
  <2>4. SenderInv'
    BY <1>1, <1>4, <1>5, <2>1, <2>2, FileTransAssumption
       DEF SenderInv, Transferring
  <2>5. PeerInv'
    <3>1. iMmapNo' - 1 <= Acked(r)
      BY <1>3, <2>1, SenderFacts
    <3>2. r = thread'[peer']
      BY <1>1, <1>2
    <3> QED
      BY <1>3, <2>1, <3>1, <3>2 DEF PeerInv
  <2>6. DoneInv'
    BY <1>4, <2>1 DEF DoneInv
  <2>7. SenderMoves({})
    BY <1>1, <2>1, <2>3, <2>4, <2>5, <2>6, SenderFacts DEF SenderMoves
  <2> QED
    BY <2>7, SenderChanges
<1> QED
  BY <1>6, <1>7

\* DATA_NEG_ACK: the destination has counted the attempt before the sender does.
LEMMA NegAckStep ==
    ASSUME TransInv, NEW m \in Answers, WindowRefused(m)
    PROVE  TransInv'
<1>1. /\ pc = "dataAck" /\ m.from = peer /\ AckMatches(m)
      /\ m.ePktType = "DATA_NEG_ACK" /\ net' \subseteq net \cup {}
      /\ pc' = "send" /\ piPktStatus' = Overwrite(m)
      /\ iCorrelater' = iCorrelater + 1 /\ iNoOfRetries' = iNoOfRetries + 1
      /\ UNCHANGED <<fileSize, iMmapNo, peer, eStatus, thread>>
  BY DEF WindowRefused, Exchange
<1>2. PICK r \in ThreadType : r = thread[peer] /\ Tells(m, r)
  BY <1>1, AnswerOfPeer
<1>3. /\ peer \in Threads /\ peer # NULL /\ eStatus = "none"
      /\ m.iMmapNo = iMmapNo /\ m.iCorrelater = iCorrelater
      /\ m.got \subseteq Nat
      /\ iMmapNo >= 1 /\ iMmapNo <= iNoOfMappingNeeded
      /\ iNoOfRetries <= MAX_NO_OF_RETRIES
      /\ iCorrelater <= iNoOfRetries + 1
  BY <1>1, AnswerOfPeer
<1>4. iNoOfMappingNeeded' = iNoOfMappingNeeded
  BY <1>1, SameNumbers
<1>5. TypeOK'
  <2>1. /\ iCorrelater + 1 \in 1 .. MAX_NO_OF_RETRIES + 2
        /\ iNoOfRetries + 1 \in 0 .. MAX_NO_OF_RETRIES + 2
    BY <1>3, SenderFacts
  <2>2. Overwrite(m) \subseteq Nat
    BY <1>3 DEF Overwrite, TransInv, TypeOK
  <2> QED
    BY <1>1, <2>1, <2>2 DEF TransInv, TypeOK
<1>6. SenderInv'
  <2>1. /\ iNoOfRetries' <= MAX_NO_OF_RETRIES + 1
        /\ iCorrelater' <= iNoOfRetries' + 1
        /\ iMmapNo \in 1 .. iNoOfMappingNeeded
    BY <1>1, <1>3, SenderFacts
  <2> QED
    BY <1>1, <1>3, <1>4, <2>1 DEF SenderInv, Transferring
<1>7. PeerInv'
  <2>1. r.state # "none" /\ iMmapNo - 1 <= Acked(r)
    BY <1>1, <1>2, <1>3 DEF TransInv, PeerInv, Transferring
  <2>4. ASSUME r.state = "write", r.iMmapNo + 1 = iMmapNo PROVE FALSE
    <3>1. FileInv(r)
      BY <1>2, <1>3 DEF TransInv, ThreadInv
    <3>2. Acked(r) = r.iMmapNo /\ r.iMmapNo \in Nat
      BY <2>4, <3>1, ThreadNumbers DEF FileInv, Busy
    <3> QED
      BY <1>1, <1>2, <1>3, <2>4, <3>2 DEF Tells
  <2>2. ASSUME r.state = "recv", r.iMmapNo = iMmapNo
        PROVE  iCorrelater + 1 <= r.iCorrelater
    <3>1. FileInv(r)
      BY <1>2, <1>3 DEF TransInv, ThreadInv
    <3>2. /\ Acked(r) + 1 = iMmapNo /\ Acked(r) \in Nat
          /\ r.iCorrelater \in Nat
      BY <2>2, <3>1, ThreadNumbers DEF FileInv, Busy
    <3> QED
      BY <1>1, <1>2, <1>3, <3>2, SenderFacts DEF Tells
  <2>3. r = thread'[peer']
    BY <1>1, <1>2
  <2> QED
    BY <1>1, <2>1, <2>2, <2>3, <2>4 DEF PeerInv
<1>8. DoneInv'
  BY <1>1, <1>3 DEF DoneInv
<1>9. SenderMoves({})
  BY <1>1, <1>5, <1>6, <1>7, <1>8, SenderFacts DEF SenderMoves
<1> QED
  BY <1>9, SenderChanges

-----------------------------------------------------------------------------
(* The invariant.                                                          *)

\* Nothing has been sent and no thread started.
LEMMA Start == Init => TransInv
<1> SUFFICES ASSUME Init PROVE TransInv
  OBVIOUS
<1>1. fileSize \in Nat
  BY FileTransAssumption DEF Init
<1>2. PICK s : s = [NewThread EXCEPT !.state = "none"]
  OBVIOUS
<1>3. /\ s \in ThreadType /\ s.state = "none"
      /\ FileInv(s) /\ CountInv(s) /\ \A t : HeldInv(t, s)
  BY <1>1, <1>2, NewThreadType
<1>4. thread = [t \in Threads |-> s]
  BY <1>2 DEF Init, NoThread
<1>5. TypeOK
  BY <1>3, <1>4, FileTransAssumption DEF Init, TypeOK, Status
<1>6. NetInv
  BY DEF Init, NetInv
<1>7. SenderInv /\ PeerInv /\ DoneInv
  BY FileTransAssumption DEF Init, SenderInv, PeerInv, DoneInv, Transferring
<1>8. \A t \in Threads : ThreadInv(t)
  BY <1>3, <1>4 DEF ThreadInv
<1> QED
  BY <1>5, <1>6, <1>7, <1>8 DEF TransInv

\* A step that changes nothing.
LEMMA Stutter ==
    ASSUME TransInv, UNCHANGED vars
    PROVE  TransInv'
<1>1. /\ UNCHANGED <<fileSize, net, thread, pc, iMmapNo, iCorrelater>>
      /\ UNCHANGED <<iNoOfRetries, piPktStatus, peer, eStatus>>
  BY DEF vars, senderVars, seqVars
<1>2. iNoOfMappingNeeded' = iNoOfMappingNeeded
  BY <1>1, SameNumbers
<1>3. TypeOK'
  BY <1>1 DEF TransInv, TypeOK
<1>4. SenderInv'
  BY <1>1, <1>2 DEF TransInv, SenderInv, Transferring
<1>5. PeerInv'
  BY <1>1 DEF TransInv, PeerInv, Transferring
<1>6. DoneInv'
  BY <1>1, <1>2 DEF TransInv, DoneInv
<1>7. SenderMoves({})
  BY <1>1, <1>3, <1>4, <1>5, <1>6, SenderFacts DEF SenderMoves
<1> QED
  BY <1>7, SenderChanges

\* Every step keeps the invariant.
LEMMA Preserved == TransInv /\ [Next]_vars => TransInv'
<1> SUFFICES ASSUME TransInv, [Next]_vars PROVE TransInv'
  OBVIOUS
<1>1. CASE SendHandshake \/ HandshakeTimesOut
  BY <1>1, ShakeStep
<1>2. CASE GiveUp \/ SenderFails
  BY <1>2, GiveUpStep
<1>3. CASE SendWindow
  BY <1>3, SendStep
<1>4. CASE NothingToSend
  BY <1>4, EmptyStep
<1>5. CASE DataAckTimesOut \/ \E m \in Answers : StaleAnswer(m)
  BY <1>5, AgainStep
<1>6. ASSUME NEW m \in Answers, HandshakeDone(m) PROVE TransInv'
  BY <1>6, ConnectStep
<1>7. ASSUME NEW m \in Answers, WindowAcknowledged(m) PROVE TransInv'
  BY <1>7, AckStep
<1>8. ASSUME NEW m \in Answers, WindowRefused(m) PROVE TransInv'
  BY <1>8, NegAckStep
<1>9. ASSUME NEW t \in Threads, NEW state \in {"recv", "done"},
             HandleRequest(t, state)
      PROVE  TransInv'
  BY <1>9, RequestStep
<1>10. ASSUME NEW t \in Threads, NEW m \in DataPkts, RecvDataPkt(t, m)
       PROVE  TransInv'
  BY <1>10, PacketStep
<1>11. ASSUME NEW t \in Threads, RecvTimesOut(t) PROVE TransInv'
  BY <1>11, TimeoutStep
<1>12. ASSUME NEW t \in Threads, WindowDone(t) PROVE TransInv'
  BY <1>12, WindowStep
<1>13. ASSUME NEW t \in Threads, ThreadFails(t) PROVE TransInv'
  BY <1>13, FailureStep
<1>15. ASSUME NEW t \in Threads, NEW w \in Stored(t), WriteWindow(t, w)
       PROVE  TransInv'
  BY <1>15, WriteStep
<1>14. CASE UNCHANGED vars
  BY <1>14, Stutter
<1> QED
  BY <1>1, <1>2, <1>3, <1>4, <1>5, <1>6, <1>7, <1>8, <1>9, <1>10, <1>11,
     <1>12, <1>13, <1>14, <1>15 DEF Next, SenderStep, ThreadStep

\* The inductive invariant holds whatever the network does to the datagrams.
THEOREM TransferInvariant == Spec => []TransInv
  BY Start, Preserved, PTL DEF Spec

\* Every variable keeps its type: both ends count no attempt beyond their limit.
THEOREM TypeCorrect == Spec => []TypeOK
<1>1. TransInv => TypeOK
  BY DEF TransInv
<1> QED
  BY <1>1, TransferInvariant, PTL

\* FileTrans_RecvDataPkt never leaves the arrays of the window it receives: a
\* packet of another window or attempt, however late, is thrown away.
THEOREM PacketsInArrays == Spec => []PlacesInArrays
<1>1. TransInv => PlacesInArrays
  BY DEF TransInv, ThreadInv, CountInv, PlacesInArrays
<1> QED
  BY <1>1, TransferInvariant, PTL

\* The sequence numbers of both ends stay in step: the destination has
\* acknowledged the windows before the sender's, or that one too.
THEOREM EndsInStep == Spec => []InStep
<1>1. ASSUME TransInv, pc \in {"send", "dataAck"} PROVE
        LET r == thread[peer]
        IN  /\ iNoOfMappingNeeded > 0 => Acked(r) \in {iMmapNo - 1, iMmapNo}
            /\ r.state = "recv" /\ r.iMmapNo = iMmapNo =>
                  iCorrelater <= r.iCorrelater
  <2>1. peer # NULL /\ iMmapNo >= 1
    BY <1>1, SenderFacts DEF TransInv, SenderInv, Transferring
  <2>2. peer \in Threads
    BY <1>1, <2>1 DEF TransInv, TypeOK
  <2>3. PICK r \in ThreadType : r = thread[peer] /\ HeldInv(peer, r)
    BY <1>1, <2>2 DEF TransInv, TypeOK, ThreadInv
  <2>4. /\ iMmapNo - 1 <= Acked(r)
        /\ r.state = "recv" /\ r.iMmapNo = iMmapNo =>
               iCorrelater <= r.iCorrelater
    BY <1>1, <2>1, <2>3 DEF TransInv, PeerInv, Transferring
  <2>5. Acked(r) \in Nat
    BY ThreadNumbers
  <2>6. iNoOfMappingNeeded > 0 => Acked(r) <= iMmapNo
    BY <1>1, <2>1, <2>3, <2>5, SenderFacts DEF HeldInv
  <2>7. iNoOfMappingNeeded > 0 => Acked(r) \in {iMmapNo - 1, iMmapNo}
    BY <1>1, <2>4, <2>5, <2>6, SenderFacts
  <2> QED
    BY <2>3, <2>4, <2>7
<1>2. TransInv => InStep
  BY <1>1 DEF InStep
<1> QED
  BY <1>2, TransferInvariant, PTL

-----------------------------------------------------------------------------
(* FileTrans_SendFile implements FileCopy.                                 *)

\* Before the handshake is answered no window is taken.
LEMMA CopyStarts == Init => Copy!Init
<1> SUFFICES ASSUME Init PROVE Copy!Init
  OBVIOUS
<1>1. fileSize \in Nat
  BY FileTransAssumption DEF Init
<1>2. iNoOfMappingNeeded \in Nat
  BY <1>1, Numbers
<1> QED
  BY <1>2 DEF Init, Copy!Init, acked, windows

\* A thread the sender is not connected to changes nothing the caller sees.
LEMMA OtherThread ==
    ASSUME TransInv, UNCHANGED <<fileSize, senderVars>>,
           \/ UNCHANGED thread
           \/ \E t \in Threads : \E s :
                 /\ thread' = [thread EXCEPT ![t] = s]
                 /\ \/ t # peer
                    \/ /\ Len(s.file) = Len(thread[t].file)
                       /\ Acked(s) = Acked(thread[t])
                    \/ iNoOfMappingNeeded = 0
    PROVE  UNCHANGED Copy!vars
<1>1. iNoOfMappingNeeded' = iNoOfMappingNeeded
  BY SameNumbers
<1>2. UNCHANGED <<peer, eStatus>>
  BY DEF senderVars
<1>3. peer # NULL => peer \in Threads
  BY DEF TransInv, TypeOK
<1>4. thread \in [Threads -> ThreadType]
  BY DEF TransInv, TypeOK
<1>5. peer # NULL /\ iNoOfMappingNeeded # 0 =>
          /\ Len(thread'[peer].file) = Len(thread[peer].file)
          /\ Acked(thread'[peer]) = Acked(thread[peer])
  BY <1>3, <1>4
<1>6. windows' = windows /\ acked' = acked
  BY <1>1, <1>2, <1>5 DEF windows, acked
<1> QED
  BY <1>1, <1>2, <1>6 DEF Copy!vars

\* What the sender does between its first and its last step.
LEMMA OtherSender ==
    ASSUME TransInv, UNCHANGED <<fileSize, thread, eStatus>>,
           \/ peer' = peer
           \/ peer = NULL /\ windows' = 0 /\ acked' = 0
    PROVE  UNCHANGED Copy!vars
<1>1. iNoOfMappingNeeded' = iNoOfMappingNeeded
  BY SameNumbers
<1>2. windows' = windows /\ acked' = acked
  BY <1>1 DEF windows, acked
<1> QED
  BY <1>1, <1>2 DEF Copy!vars

\* Every step is a step of FileCopy, or nothing the caller sees.
LEMMA CopySteps ==
    ASSUME TransInv, [Next]_vars
    PROVE  [Copy!Next]_Copy!vars
<1>1. CASE SendHandshake \/ HandshakeTimesOut \/ SendWindow
  <2>1. UNCHANGED <<fileSize, thread, eStatus>> /\ peer' = peer
    BY <1>1 DEF SendHandshake, HandshakeTimesOut, SendWindow
  <2> QED
    BY <2>1, OtherSender
<1>2. CASE GiveUp \/ SenderFails
  <2>1. /\ pc # "done" /\ eStatus' = "failure"
        /\ UNCHANGED <<fileSize, peer, thread>>
    BY <1>2 DEF GiveUp, SenderFails, Return
  <2>2. eStatus = "none"
    BY <2>1 DEF TransInv, SenderInv
  <2>3. iNoOfMappingNeeded' = iNoOfMappingNeeded
    BY <2>1, SameNumbers
  <2>4. windows' = windows /\ acked' = acked
    BY <2>1, <2>3 DEF windows, acked
  <2> QED
    BY <2>1, <2>2, <2>3, <2>4 DEF Copy!Next, Copy!ReportFailure
<1>3. CASE NothingToSend
  <2>1. /\ pc = "send" /\ eStatus' = "success" /\ iMmapNo > iNoOfMappingNeeded
        /\ UNCHANGED <<fileSize, peer, thread>>
    BY <1>3 DEF NothingToSend, Return
  <2>2. eStatus = "none" /\ iNoOfMappingNeeded = 0
    BY <2>1, SenderFacts DEF TransInv, SenderInv, Transferring
  <2>3. iNoOfMappingNeeded' = iNoOfMappingNeeded
    BY <2>1, SameNumbers
  <2>4. windows' = windows /\ acked' = acked /\ acked = 0
    BY <2>1, <2>2, <2>3 DEF windows, acked
  <2> QED
    BY <2>1, <2>2, <2>3, <2>4 DEF Copy!Next, Copy!ReportSuccess
<1>4. CASE \/ DataAckTimesOut
           \/ \E m \in Answers : StaleAnswer(m) \/ WindowRefused(m)
  <2>1. UNCHANGED <<fileSize, thread, eStatus>> /\ peer' = peer
    BY <1>4 DEF DataAckTimesOut, StaleAnswer, WindowRefused
  <2> QED
    BY <2>1, OtherSender
<1>5. ASSUME NEW m \in Answers, HandshakeDone(m) PROVE UNCHANGED Copy!vars
  <2>1. /\ pc = "shakeAck" /\ peer' = m.from
        /\ UNCHANGED <<fileSize, thread, eStatus>>
    BY <1>5 DEF HandshakeDone
  <2>2. peer = NULL
    BY <2>1 DEF TransInv, SenderInv
  <2>3. iNoOfMappingNeeded' = iNoOfMappingNeeded
    BY <2>1, SameNumbers
  <2>4. m.from \in Threads /\ m.from # NULL
    BY Datagrams, SenderFacts DEF TransInv, AnswerSent
  <2>5. HeldInv(m.from, thread[m.from])
    BY <2>4 DEF TransInv, ThreadInv
  <2>6. iNoOfMappingNeeded > 0 =>
            Acked(thread[m.from]) = 0 /\ Len(thread[m.from].file) = 0
    <3>1. PICK r \in ThreadType : r = thread[m.from]
      BY <2>4 DEF TransInv, TypeOK
    <3> QED
      BY <2>2, <2>4, <2>5, <3>1, ThreadNumbers DEF HeldInv
  <2>7. windows' = 0 /\ acked' = 0
    BY <2>1, <2>3, <2>6, SenderFacts DEF windows, acked
  <2> QED
    BY <2>1, <2>2, <2>7, OtherSender
<1>6. ASSUME NEW m \in Answers, WindowAcknowledged(m)
      PROVE  [Copy!Next]_Copy!vars
  <2>1. UNCHANGED <<fileSize, thread, peer>> /\ pc = "dataAck"
    BY <1>6 DEF WindowAcknowledged
  <2>2. CASE eStatus' = eStatus
    BY <2>1, <2>2, OtherSender
  <2>3. CASE eStatus' # eStatus
    <3>1. eStatus' = "success"
      BY <1>6, <2>3 DEF WindowAcknowledged, Return
    <3>2. eStatus = "none" /\ peer # NULL
      BY <2>1 DEF TransInv, SenderInv, Transferring
    <3>3. iNoOfMappingNeeded' = iNoOfMappingNeeded
      BY <2>1, SameNumbers
    <3>4. DoneInv'
      BY <1>6, AckStep DEF TransInv
    <3>5. acked' = iNoOfMappingNeeded
      BY <2>1, <3>1, <3>2, <3>3, <3>4, SenderFacts DEF acked, DoneInv
    <3>6. windows' = windows /\ acked' = acked
      BY <2>1, <3>3 DEF windows, acked
    <3> QED
      BY <3>1, <3>2, <3>3, <3>5, <3>6 DEF Copy!Next, Copy!ReportSuccess
  <2> QED
    BY <2>2, <2>3
<1>7. ASSUME NEW t \in Threads, NEW state \in {"recv", "done"},
             HandleRequest(t, state)
      PROVE  UNCHANGED Copy!vars
  <2>1. /\ UNCHANGED <<fileSize, senderVars>> /\ thread[t].state = "none"
        /\ thread' = [thread EXCEPT ![t] = [NewThread EXCEPT !.state = state]]
    BY <1>7 DEF HandleRequest
  <2>2. t # peer
    BY <2>1, SenderFacts DEF TransInv, PeerInv
  <2> QED
    BY <2>1, <2>2, OtherThread
<1>8. ASSUME NEW t \in Threads,
             \/ \E m \in DataPkts : RecvDataPkt(t, m)
             \/ RecvTimesOut(t) \/ ThreadFails(t)
      PROVE  UNCHANGED Copy!vars
  <2>1. PICK r \in ThreadType : r = thread[t] /\ r.state = "recv"
    BY <1>8 DEF RecvDataPkt, RecvTimesOut, ThreadFails, Receiving, TransInv,
                TypeOK
  <2>2. /\ thread \in [Threads -> ThreadType]
        /\ UNCHANGED <<fileSize, senderVars>>
    BY <1>8 DEF RecvDataPkt, RecvTimesOut, ThreadFails, TransInv, TypeOK
  <2>3. UNCHANGED thread \/ \E s : /\ thread' = [thread EXCEPT ![t] = s]
                                   /\ s.file = r.file
                                   /\ s.state # "write"
    <3>1. CASE \E m \in DataPkts : RecvDataPkt(t, m)
      <4>1. PICK m \in DataPkts : RecvDataPkt(t, m)
        BY <3>1
      <4>2. PICK s : s = [r EXCEPT
                !.places = @ \cup {Place(r.iMmapNo, m.iPktNo)},
                !.iLoopCntr = @ + 1, !.iToNoOfPktsRecvd = @ + 1]
        OBVIOUS
      <4>3. UNCHANGED thread \/ thread' = [thread EXCEPT ![t] = s]
        BY <2>1, <2>2, <4>1, <4>2 DEF RecvDataPkt
      <4>4. s.file = r.file /\ s.state # "write"
        BY <2>1, <4>2 DEF ThreadType
      <4> QED
        BY <4>3, <4>4
    <3>2. CASE RecvTimesOut(t)
      <4>1. PICK s, u :
              /\ s = [r EXCEPT !.state = "done", !.iNoOfTimeOuts = @ + 1]
              /\ u = [r EXCEPT !.iNoOfTimeOuts = @ + 1,
                               !.iNoOfPktsExpected = Cardinality(Missing(t)),
                               !.iCorrelater = @ + 1, !.iLoopCntr = 0]
        OBVIOUS
      <4>2. \/ thread' = [thread EXCEPT ![t] = s]
            \/ thread' = [thread EXCEPT ![t] = u]
        BY <2>1, <2>2, <3>2, <4>1 DEF RecvTimesOut
      <4>3. /\ s.file = r.file /\ u.file = r.file
            /\ s.state # "write" /\ u.state # "write"
        BY <2>1, <4>1 DEF ThreadType
      <4> QED
        BY <4>2, <4>3
    <3>3. CASE ThreadFails(t)
      <4>1. PICK s : s = [r EXCEPT !.state = "done"]
        OBVIOUS
      <4>2. thread' = [thread EXCEPT ![t] = s]
        BY <2>1, <2>2, <3>3, <4>1 DEF ThreadFails
      <4>3. s.file = r.file /\ s.state # "write"
        BY <4>1 DEF ThreadType
      <4> QED
        BY <4>2, <4>3
    <3> QED
      BY <1>8, <3>1, <3>2, <3>3
  <2>4. \A s : s.file = r.file /\ s.state # "write" => Acked(s) = Acked(r)
    BY <2>1 DEF Acked
  <2> QED
    BY <2>1, <2>2, <2>3, <2>4, OtherThread
<1>9. ASSUME NEW t \in Threads, WindowDone(t) PROVE [Copy!Next]_Copy!vars
  <2>1. PICK r \in ThreadType, s \in ThreadType : Acknowledges(t, r, s)
    BY <1>9, WindowAcked
  <2>2. UNCHANGED <<fileSize, senderVars>>
    BY <1>9 DEF WindowDone
  <2>3. /\ r = thread[t] /\ thread' = [thread EXCEPT ![t] = s]
        /\ s.file = r.file /\ Acked(r) = Len(r.file)
        /\ Acked(s) = Acked(r) + 1 /\ Acked(s) = r.iMmapNo
    BY <2>1 DEF Acknowledges
  <2>4. CASE iNoOfMappingNeeded = 0
    BY <2>2, <2>3, <2>4, OtherThread
  <2>5. CASE iNoOfMappingNeeded > 0
    <3>1. t = peer /\ r.iMmapNo <= iNoOfMappingNeeded
      BY <2>1, <2>5 DEF Acknowledges
    <3>2. /\ UNCHANGED <<peer, eStatus>>
          /\ iNoOfMappingNeeded' = iNoOfMappingNeeded
      BY <2>2, SameNumbers DEF senderVars
    <3>3. Acked(r) \in Nat /\ peer # NULL /\ thread'[t] = s
      <4>1. thread \in [Threads -> ThreadType]
        BY DEF TransInv, TypeOK
      <4>2. Acked(r) \in Nat
        BY ThreadNumbers
      <4> QED
        BY <2>3, <3>1, <4>1, <4>2, SenderFacts
    <3>4. /\ windows = Len(r.file) /\ windows' = windows
          /\ acked = Acked(r) /\ acked' = Acked(r) + 1
      BY <2>3, <2>5, <3>1, <3>2, <3>3, SenderFacts DEF windows, acked
    <3>5. acked < iNoOfMappingNeeded /\ windows = acked
      BY <2>3, <3>1, <3>3, <3>4, SenderFacts
    <3>6. eStatus # "success"
      BY <2>3, <2>5, <3>1, <3>3, <3>4, <3>5, SenderFacts DEF TransInv, DoneInv
    <3> QED
      BY <3>2, <3>4, <3>5, <3>6 DEF Copy!Next, Copy!TakeWindow
  <2> QED
    BY <2>4, <2>5, SenderFacts
<1>11. ASSUME NEW t \in Threads, NEW w \in Stored(t), WriteWindow(t, w)
       PROVE  [Copy!Next]_Copy!vars
  <2>1. PICK r \in ThreadType, s \in ThreadType : Writes(t, r, s)
    BY <1>11, WindowWritten
  <2>2. UNCHANGED <<fileSize, senderVars>>
    BY <1>11 DEF WriteWindow
  <2>3. /\ r = thread[t] /\ thread' = [thread EXCEPT ![t] = s]
        /\ Len(s.file) = Len(r.file) + 1
        /\ r.state = "write" /\ s.state # "write"
    BY <2>1 DEF Writes
  <2>4. CASE iNoOfMappingNeeded = 0 \/ t # peer
    BY <2>2, <2>3, <2>4, OtherThread
  <2>5. CASE iNoOfMappingNeeded # 0 /\ t = peer
    <3>1. /\ UNCHANGED <<peer, eStatus>>
          /\ iNoOfMappingNeeded' = iNoOfMappingNeeded
      BY <2>2, SameNumbers DEF senderVars
    <3>2. peer # NULL /\ thread'[t] = s
      <4>1. thread \in [Threads -> ThreadType]
        BY DEF TransInv, TypeOK
      <4> QED
        BY <2>3, <2>5, <4>1, SenderFacts
    <3>3. /\ Len(r.file) \in Nat /\ Acked(r) = Len(r.file) + 1
          /\ Acked(s) = Len(s.file)
      BY <2>3, ThreadNumbers
    <3>4. /\ windows = Len(r.file) /\ windows' = Len(r.file) + 1
          /\ acked = Len(r.file) + 1 /\ acked' = acked
      BY <2>3, <2>5, <3>1, <3>2, <3>3 DEF windows, acked
    <3> QED
      BY <3>1, <3>3, <3>4 DEF Copy!Next, Copy!WriteWindow
  <2> QED
    BY <2>4, <2>5
<1>10. CASE UNCHANGED vars
  <2>1. UNCHANGED <<fileSize, thread, eStatus>> /\ peer' = peer
    BY <1>10 DEF vars, senderVars
  <2> QED
    BY <2>1, OtherSender
<1> QED
  BY <1>1, <1>2, <1>3, <1>4, <1>5, <1>6, <1>7, <1>8, <1>9, <1>10,
     <1>11 DEF Next, SenderStep, ThreadStep

\* FileTrans_SendFile implements FileCopy: the windows are taken and written one
\* after the other, and success is reported only after the last one was taken.
THEOREM ImplementsCopy == Spec => WindowsCopied
  BY CopyStarts, CopySteps, TransferInvariant, PTL
     DEF Spec, WindowsCopied, Copy!Spec
=============================================================================
