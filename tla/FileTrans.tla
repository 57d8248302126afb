------------------------------ MODULE FileTrans ------------------------------
(***************************************************************************)
(* The file transfer library of the Group2 daemons                         *)
(* (Group2/Unix/common/src/NASCenter_FileTrans*.c): one call of            *)
(* FileTrans_SendFile and the threads FileTrans_ProcessRecvMsg starts for  *)
(* it at the destination, over UDP.                                        *)
(*                                                                         *)
(* The file is cut into windows of a page ("maps"), a window into packets. *)
(* The sender sends the packets of a window the receiver does not have,    *)
(* and waits for DATA_ACK or DATA_NEG_ACK; a packet or an answer belongs   *)
(* to a window (iMmapNo) and to an attempt at it (iCorrelater).            *)
(*                                                                         *)
(* The network is a set of datagrams: one that is never received is lost,  *)
(* one that is received late is reordered, and if Duplicates is TRUE one   *)
(* may be received again.  A wait with a timeout may end at any time.      *)
(***************************************************************************)
EXTENDS Integers, Sequences, FiniteSets

CONSTANTS PageSize,           \* _SC_PAGE_SIZE
          MsgSize,            \* iMsgSize, the data bytes of a packet
          FileSizes,          \* the files that are sent: their st_size
          MAX_NO_OF_RETRIES,  \* (5)
          Threads,            \* the threads the destination may start
          Duplicates,         \* the network duplicates datagrams
          WriteFails,         \* write() may fail at the destination
          NULL

\* The daemons send packets of 512 bytes: a page is a multiple of them.
ASSUME FileTransAssumption ==
    /\ MsgSize \in Nat \ {0}
    /\ PageSize \in Nat \ {0} /\ PageSize % MsgSize = 0
    /\ FileSizes \subseteq Nat
    /\ MAX_NO_OF_RETRIES \in Nat
    /\ NULL \notin Threads
    /\ Duplicates \in BOOLEAN /\ WriteFails \in BOOLEAN

VARIABLES
    fileSize,        \* st_size
    net,             \* the datagrams that have been sent
    pc,              \* where FileTrans_SendFile is
    iMmapNo,         \* the sender's stSendSequence; iMmapCntr = iMmapNo - 1
    iCorrelater,
    iNoOfRetries,
    piPktStatus,     \* the packets of the window marked '1'
    peer,            \* the thread the sender's socket is connected to
    eStatus,         \* what FileTrans_SendFile returned
    thread           \* the state of each thread at the destination

seqVars == <<iMmapNo, iCorrelater, iNoOfRetries, piPktStatus>>
senderVars == <<pc, seqVars, peer, eStatus>>
vars == <<fileSize, net, senderVars, thread>>

-----------------------------------------------------------------------------
(* The numbers FileTrans_SendFile computes and sends in stCntrlData.       *)

PartsOf(size, part) == size \div part + (IF size % part = 0 THEN 0 ELSE 1)

iTotNoOfPkts == PartsOf(fileSize, MsgSize)

iNoOfMappingNeeded == PartsOf(fileSize, PageSize)

iNoPktsPerMMap == IF fileSize <= PageSize THEN iTotNoOfPkts
                  ELSE PartsOf(PageSize, MsgSize)

iExtraPktsPerMap == IF fileSize <= PageSize THEN 0
                    ELSE PartsOf(fileSize % PageSize, MsgSize)

\* The packets of a window; the last one may be shorter.
PktsOfMap(m) == IF m = iNoOfMappingNeeded /\ iExtraPktsPerMap # 0
                THEN iExtraPktsPerMap ELSE iNoPktsPerMMap

\* iPktNo of the i-th packet of window m, and the packet's place in the
\* receiver's arrays: iArraySubScript + 1.
PktNo(m, i) == (m - 1) * iNoPktsPerMMap + i

Place(m, pktNo) == pktNo - (m - 1) * iNoPktsPerMMap

-----------------------------------------------------------------------------
Shake == [ePktType |-> "HND_SHAKE"]

Data(t, m, k, n) == [ePktType |-> "DATA", to |-> t, iMmapNo |-> m,
                     iCorrelater |-> k, iPktNo |-> n]

\* An answer carries the first len bytes of the receiver's piPktStatus.
Answer(type, t, m, k, len, got) ==
    [ePktType |-> type, from |-> t, iMmapNo |-> m, iCorrelater |-> k,
     len |-> len, got |-> got]

\* Receiving a datagram and sending others.
Exchange(received, sent) ==
    net' = (IF Duplicates THEN net ELSE net \ received) \cup sent

Send(sent) == net' = net \cup sent

\* A thread as it starts FileTrans_HandleDataPkt.
NewThread == [state |-> "recv", iMmapNo |-> 1, iCorrelater |-> 1,
              iNoOfTimeOuts |-> 0,
              iNoOfPktsExpected |-> iNoPktsPerMMap,
              iNoOfPktsPerMap |-> iNoPktsPerMMap,
              iLoopCntr |-> 0, places |-> {}, iToNoOfPktsRecvd |-> 0,
              file |-> << >>]

NoThread == [NewThread EXCEPT !.state = "none"]

Init == /\ fileSize \in FileSizes
        /\ net = {}
        /\ pc = "shake"
        /\ iMmapNo = 0
        /\ iCorrelater = 1
        /\ iNoOfRetries = 0
        /\ piPktStatus = {}
        /\ peer = NULL
        /\ eStatus = "none"
        /\ thread = [t \in Threads |-> NoThread]

-----------------------------------------------------------------------------
(* The sender: FileTransfer_InitHandshake.                                 *)

\* Mistake: one attempt too many.
RetriesExhausted_OffByOne == iNoOfRetries > MAX_NO_OF_RETRIES + 1

RetriesExhausted == iNoOfRetries > MAX_NO_OF_RETRIES

Return(status) == pc' = "done" /\ eStatus' = status

SendHandshake ==
    /\ pc = "shake"
    /\ ~RetriesExhausted
    /\ Send({Shake})
    /\ iNoOfRetries' = iNoOfRetries + 1
    /\ pc' = "shakeAck"
    /\ UNCHANGED <<fileSize, iMmapNo, iCorrelater, piPktStatus, peer, eStatus,
                   thread>>

\* The attempts are used up, at the handshake or at a window.
GiveUp ==
    /\ pc \in {"shake", "send"}
    /\ RetriesExhausted
    /\ Return("failure")
    /\ UNCHANGED <<fileSize, net, seqVars, peer, thread>>

\* sendto fails, or at a window mmap, malloc, select or recvfrom.
SenderFails ==
    /\ pc \in {"shake", "send", "dataAck"}
    /\ Return("failure")
    /\ UNCHANGED <<fileSize, net, seqVars, peer, thread>>

\* A timeout is counted in addition to the attempt; after an error of select
\* or recvfrom the handshake is repeated all the same.
HandshakeTimesOut ==
    /\ pc = "shakeAck"
    /\ \/ iNoOfRetries' = iNoOfRetries + 1
       \/ UNCHANGED iNoOfRetries
    /\ pc' = "shake"
    /\ UNCHANGED <<fileSize, net, iMmapNo, iCorrelater, piPktStatus, peer,
                   eStatus, thread>>

\* Mistake: only the attempt is compared.
AckMatches_AnyMap(m) == m.iCorrelater = iCorrelater

\* FileTrans_RecvAck takes the answer to the current window and attempt only.
AckMatches(m) == m.iMmapNo = iMmapNo /\ m.iCorrelater = iCorrelater

Answers == {m \in net : m.ePktType \in {"HND_SHAKE_ACK", "DATA_ACK",
                                        "DATA_NEG_ACK"}}

\* The socket is connected to the thread that answered first; the sequence of
\* FileTransfer_SendData starts.
HandshakeDone(m) ==
    /\ pc = "shakeAck"
    /\ AckMatches(m)
    /\ m.ePktType = "HND_SHAKE_ACK"
    /\ Exchange({m}, {})
    /\ peer' = m.from
    /\ pc' = "send"
    /\ iMmapNo' = 1
    /\ iCorrelater' = 1
    /\ iNoOfRetries' = 0
    /\ piPktStatus' = {}
    /\ UNCHANGED <<fileSize, eStatus, thread>>

-----------------------------------------------------------------------------
(* The sender: FileTransfer_SendData.                                      *)

\* FileTrans_SendActualData: the packets not marked '1' are sent again.
SendWindow ==
    /\ pc = "send"
    /\ iMmapNo <= iNoOfMappingNeeded
    /\ ~RetriesExhausted
    /\ Send({Data(peer, iMmapNo, iCorrelater, PktNo(iMmapNo, i)) :
                i \in (1 .. PktsOfMap(iMmapNo)) \ piPktStatus})
    /\ pc' = "dataAck"
    /\ UNCHANGED <<fileSize, seqVars, peer, eStatus, thread>>

\* An empty file has no window.
NothingToSend ==
    /\ pc = "send"
    /\ iMmapNo > iNoOfMappingNeeded
    /\ Return("success")
    /\ UNCHANGED <<fileSize, net, seqVars, peer, thread>>

\* Mistake: the attempt changes although the receiver did not ask for it.
DataAckTimesOut_NewAttempt ==
    /\ pc = "dataAck"
    /\ iNoOfRetries' = iNoOfRetries + 1
    /\ iCorrelater' = iCorrelater + 1
    /\ pc' = "send"
    /\ UNCHANGED <<fileSize, net, iMmapNo, piPktStatus, peer, eStatus, thread>>

\* Mistake: only negative answers count as attempts.
DataAckTimesOut_NotCounted ==
    /\ pc = "dataAck"
    /\ pc' = "send"
    /\ UNCHANGED <<fileSize, net, seqVars, peer, eStatus, thread>>

\* The window is sent again under the same iCorrelater.
DataAckTimesOut ==
    /\ pc = "dataAck"
    /\ iNoOfRetries' = iNoOfRetries + 1
    /\ pc' = "send"
    /\ UNCHANGED <<fileSize, net, iMmapNo, iCorrelater, piPktStatus, peer,
                   eStatus, thread>>

\* The bytes of an answer are copied over piPktStatus before its header is
\* compared: an answer to an earlier attempt or window overwrites it too.
Overwrite(m) == (piPktStatus \ (1 .. m.len)) \cup m.got

StaleAnswer(m) ==
    /\ pc = "dataAck"
    /\ m.from = peer
    /\ ~AckMatches(m)
    /\ Exchange({m}, {})
    /\ piPktStatus' = Overwrite(m)
    /\ UNCHANGED <<fileSize, pc, iMmapNo, iCorrelater, iNoOfRetries, peer,
                   eStatus, thread>>

WindowAcknowledged(m) ==
    /\ pc = "dataAck"
    /\ m.from = peer
    /\ AckMatches(m)
    /\ m.ePktType = "DATA_ACK"
    /\ Exchange({m}, {})
    /\ IF iMmapNo >= iNoOfMappingNeeded
       THEN Return("success") /\ UNCHANGED seqVars
       ELSE /\ pc' = "send"
            /\ iMmapNo' = iMmapNo + 1
            /\ iCorrelater' = 1
            /\ iNoOfRetries' = 0
            /\ piPktStatus' = {}
            /\ UNCHANGED eStatus
    /\ UNCHANGED <<fileSize, peer, thread>>

WindowRefused(m) ==
    /\ pc = "dataAck"
    /\ m.from = peer
    /\ AckMatches(m)
    /\ m.ePktType = "DATA_NEG_ACK"
    /\ Exchange({m}, {})
    /\ piPktStatus' = Overwrite(m)
    /\ iCorrelater' = iCorrelater + 1
    /\ iNoOfRetries' = iNoOfRetries + 1
    /\ pc' = "send"
    /\ UNCHANGED <<fileSize, iMmapNo, peer, eStatus, thread>>

-----------------------------------------------------------------------------
(* The destination.                                                        *)

\* FileTrans_ProcessRecvMsg starts a thread for every handshake, a repeated one
\* included; FileTrans_HandleRequest answers from a socket of its own.  The
\* thread ends at once if it cannot open the file.
HandleRequest(t, state) ==
    /\ thread[t].state = "none"
    /\ Shake \in net
    /\ Exchange({Shake}, {Answer("HND_SHAKE_ACK", t, 0, 1, 0, {})})
    /\ thread' = [thread EXCEPT ![t] = [NewThread EXCEPT !.state = state]]
    /\ UNCHANGED <<fileSize, senderVars>>

Receiving(t) == thread[t].state = "recv"

WindowReceived(t) == thread[t].iLoopCntr >= thread[t].iNoOfPktsExpected

\* Mistake: only the attempt is compared.
DataMatches_AnyMap(t, m) == m.iCorrelater = thread[t].iCorrelater

DataMatches(t, m) == /\ m.iMmapNo = thread[t].iMmapNo
                     /\ m.iCorrelater = thread[t].iCorrelater

\* FileTrans_RecvDataPkt: a packet of the current window and attempt is stored
\* and counted, one that was stored before included.
RecvDataPkt(t, m) ==
    /\ Receiving(t)
    /\ ~WindowReceived(t)
    /\ m.to = t
    /\ Exchange({m}, {})
    /\ IF DataMatches(t, m)
       THEN thread' = [thread EXCEPT
              ![t].places = @ \cup {Place(thread[t].iMmapNo, m.iPktNo)},
              ![t].iLoopCntr = @ + 1,
              ![t].iToNoOfPktsRecvd = @ + 1]
       ELSE UNCHANGED thread
    /\ UNCHANGED <<fileSize, senderVars>>

\* FileTrans_SendDataAck with DATA_NEG_ACK counts the packets still missing.
Missing(t) == (1 .. thread[t].iNoOfPktsPerMap) \ thread[t].places

RecvTimesOut(t) ==
    /\ Receiving(t)
    /\ ~WindowReceived(t)
    /\ IF thread[t].iNoOfTimeOuts >= MAX_NO_OF_RETRIES
       THEN /\ thread' = [thread EXCEPT ![t].state = "done",
                                        ![t].iNoOfTimeOuts = @ + 1]
            /\ UNCHANGED net
       ELSE /\ Send({Answer("DATA_NEG_ACK", t, thread[t].iMmapNo,
                            thread[t].iCorrelater, thread[t].iNoOfPktsPerMap,
                            thread[t].places \cap
                                (1 .. thread[t].iNoOfPktsPerMap))})
            /\ thread' = [thread EXCEPT
                   ![t].iNoOfTimeOuts = @ + 1,
                   ![t].iNoOfPktsExpected = Cardinality(Missing(t)),
                   ![t].iCorrelater = @ + 1,
                   ![t].iLoopCntr = 0]
    /\ UNCHANGED <<fileSize, senderVars>>

\* The window as it is written to the file: a place that is empty adds nothing.
Written(t) == {PktNo(thread[t].iMmapNo, i) : i \in
                  thread[t].places \cap (1 .. thread[t].iNoOfPktsPerMap)}

NextWindow(r) ==
    LET last == r.iMmapNo + 1 = iNoOfMappingNeeded /\ iExtraPktsPerMap # 0
    IN  [r EXCEPT
           !.state = "recv",
           !.iMmapNo = @ + 1,
           !.iCorrelater = 1,
           !.iNoOfPktsExpected = IF last THEN iExtraPktsPerMap
                                 ELSE iNoPktsPerMMap,
           !.iNoOfPktsPerMap = IF last THEN iExtraPktsPerMap ELSE @]

\* The window is acknowledged before it is written: the sender may go on to the
\* next one, or return, meanwhile.
WindowDone(t) ==
    /\ Receiving(t)
    /\ WindowReceived(t)
    /\ Send({Answer("DATA_ACK", t, thread[t].iMmapNo, thread[t].iCorrelater,
                    0, {})})
    /\ thread' = [thread EXCEPT ![t].state = "write"]
    /\ UNCHANGED <<fileSize, senderVars>>

\* What may be in the file afterwards: write() may fail for any packet.
Stored(t) == IF WriteFails THEN SUBSET Written(t) ELSE {Written(t)}

\* What write() returns is ignored.  The thread ends when it has counted as many
\* packets as the file has.
WriteWindow(t, stored) ==
    /\ thread[t].state = "write"
    /\ LET r == [thread[t] EXCEPT !.file = Append(@, stored),
                                  !.places = {}, !.iLoopCntr = 0]
       IN  thread' = [thread EXCEPT
              ![t] = IF r.iToNoOfPktsRecvd = iTotNoOfPkts
                     THEN [r EXCEPT !.state = "done"] ELSE NextWindow(r)]
    /\ UNCHANGED <<fileSize, net, senderVars>>

\* recvfrom, malloc or the sendto of DATA_ACK fails: nothing is written.
ThreadFails(t) ==
    /\ Receiving(t)
    /\ thread' = [thread EXCEPT ![t].state = "done"]
    /\ UNCHANGED <<fileSize, net, senderVars>>

-----------------------------------------------------------------------------
DataPkts == {m \in net : m.ePktType = "DATA"}

SenderStep ==
    \/ SendHandshake \/ HandshakeTimesOut \/ GiveUp \/ SenderFails
    \/ SendWindow \/ NothingToSend \/ DataAckTimesOut
    \/ \E m \in Answers : \/ HandshakeDone(m)
                          \/ StaleAnswer(m)
                          \/ WindowAcknowledged(m)
                          \/ WindowRefused(m)

ThreadStep(t) ==
    \/ \E state \in {"recv", "done"} : HandleRequest(t, state)
    \/ \E m \in DataPkts : RecvDataPkt(t, m)
    \/ RecvTimesOut(t)
    \/ WindowDone(t)
    \/ \E stored \in Stored(t) : WriteWindow(t, stored)
    \/ ThreadFails(t)

Next == SenderStep \/ \E t \in Threads : ThreadStep(t)

\* The sender is scheduled, select returns when its time is over (it is counted
\* down across the datagrams that are thrown away), and so it is at the
\* destination.  Nothing is assumed of the network.
Fairness ==
    /\ WF_vars(SendHandshake \/ SendWindow \/ NothingToSend \/ GiveUp)
    /\ WF_vars(HandshakeTimesOut)
    /\ WF_vars(DataAckTimesOut)
    /\ \A t \in Threads :
           /\ WF_vars(RecvTimesOut(t))
           /\ WF_vars(WindowDone(t))
           /\ WF_vars(\E stored \in Stored(t) : WriteWindow(t, stored))

Spec == Init /\ [][Next]_vars

FairSpec == Spec /\ Fairness

-----------------------------------------------------------------------------
(* Properties.                                                             *)

Status == {"none", "success", "failure"}

ThreadType ==
    [ state : {"none", "recv", "write", "done"}, iMmapNo : Nat \ {0},
      iCorrelater : 1 .. MAX_NO_OF_RETRIES + 1,
      iNoOfTimeOuts : 0 .. MAX_NO_OF_RETRIES + 1,
      iNoOfPktsExpected : Nat, iNoOfPktsPerMap : Nat, iLoopCntr : Nat,
      places : SUBSET Int, iToNoOfPktsRecvd : Nat, file : Seq(SUBSET Int) ]

\* The types of the state; both ends stop counting at their limit of attempts.
TypeOK ==
    /\ fileSize \in FileSizes
    /\ pc \in {"shake", "shakeAck", "send", "dataAck", "done"}
    /\ iMmapNo \in Nat
    /\ iCorrelater \in 1 .. MAX_NO_OF_RETRIES + 2
    /\ iNoOfRetries \in 0 .. MAX_NO_OF_RETRIES + 2
    /\ piPktStatus \subseteq Nat
    /\ peer \in Threads \cup {NULL}
    /\ eStatus \in Status
    /\ thread \in [Threads -> ThreadType]

\* FileTrans_RecvDataPkt stays inside piPktStatus and pstICoreAreaForData: a
\* late packet of another window never leads to a subscript outside of them,
\* nor to a place the window that is written does not have.
PlacesInArrays ==
    \A t \in Threads :
        thread[t].places \subseteq 1 .. PktsOfMap(thread[t].iMmapNo)

\* The windows a thread in state r has acknowledged; it has written all of them
\* but the one it is just writing.
Acked(r) == Len(r.file) + (IF r.state = "write" THEN 1 ELSE 0)

\* The sequence numbers of both ends: the destination has acknowledged the
\* windows before the one the sender is at, possibly that one too, and no more;
\* for the same window the sender is never at a later attempt than the
\* destination.  What is written may be one window behind what the sender has
\* left behind: FileTrans_HandleDataPkt answers first.
InStep ==
    pc \in {"send", "dataAck"} =>
        LET r == thread[peer]
        IN  /\ iNoOfMappingNeeded > 0 => Acked(r) \in {iMmapNo - 1, iMmapNo}
            /\ r.state = "recv" /\ r.iMmapNo = iMmapNo =>
                  iCorrelater <= r.iCorrelater

\* FileTrans_SendFile implements FileCopy: whatever the network does, success is
\* reported only after the destination has received and acknowledged every
\* window, each once and in order, and has gone through the writes of all but
\* the last one, which may still be under way.
acked == IF peer = NULL \/ iNoOfMappingNeeded = 0
         THEN 0 ELSE Acked(thread[peer])

windows == IF peer = NULL \/ iNoOfMappingNeeded = 0
           THEN 0 ELSE Len(thread[peer].file)

Copy == INSTANCE FileCopy WITH total <- iNoOfMappingNeeded, taken <- acked,
                               written <- windows, outcome <- eStatus

WindowsCopied == Copy!Spec

\* FileTrans_SendFile returns, and every thread at the destination ends.
TransferEnds ==
    /\ <>(pc = "done")
    /\ \A t \in Threads :
          thread[t].state \in {"recv", "write"} ~> thread[t].state = "done"

\* NASCenter_FileTrans.c:282-284, "Each time one pagesize data will be sent in
\* pakcets at one shot and wait for ACK . This continues until entire file is
\* transfered": success means that the destination has the whole file, once the
\* write of the last window, which may be under way at that moment, is over.
SuccessMeansWholeFile ==
    /\ eStatus = "success" /\ iNoOfMappingNeeded > 0
    /\ thread[peer].state # "write"
    => thread[peer].file =
            [m \in 1 .. iNoOfMappingNeeded |->
                {PktNo(m, i) : i \in 1 .. PktsOfMap(m)}]
=============================================================================
