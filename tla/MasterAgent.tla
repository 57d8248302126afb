----------------------------- MODULE MasterAgent -----------------------------
(***************************************************************************)
(* The master agent: MA_Receiver puts the requests of the manager into a   *)
(* list, the thread sendPDU forwards them one by one to the agent of their *)
(* enterprise and sends the answers back.  Which agent that is it knows    *)
(* from the subagent table of the local NAS agent, read at the start and   *)
(* again after a SET of that table.                                        *)
(*                                                                         *)
(* The two threads share the list (with a mutex) and a condition, which is *)
(* signalled without the mutex sendPDU waits with.                         *)
(***************************************************************************)
EXTENDS Naturals, Sequences

CONSTANTS Enterprises,   \* enterprise numbers other than that of NASCenter
          Agents,        \* addresses of subagents
          NASSA,         \* the address of the local NAS agent
          MaxRequests,   \* bound: requests that arrive
          NULL

ASSUME MasterAgentAssumption ==
    /\ NASSA \notin Agents
    /\ NULL \notin Agents \cup {NASSA}
    /\ MaxRequests \in Nat
    /\ Enterprises \cap {"empty", "mib2", "nas", "set"} = {}

\* A request without variables, one whose first variable is of MIB-2, of the
\* NASCenter enterprise (or has a short name), a SET whose first variable is in
\* the subagent table, or a request that begins with another enterprise.
Kinds == {"empty", "mib2", "nas", "set"} \cup Enterprises

Tables == [Enterprises -> Agents \cup {NULL}]

VARIABLES
    subAgentTable,  \* external: the table of the local NAS agent
    giSA,           \* giSAIP, giSAPort, giSAEnterprise: the copy
    reloadConfig,
    gstRequestList, \* numbers of requests
    arrived,        \* how many requests have arrived
    kind,           \* what each of them is
    rpc,            \* where MA_Receiver is: "idle" or "signal"
    fpc,            \* where sendPDU is
    request,        \* the request it took last
    nassaflag,
    dest,           \* where it is sent
    unread,         \* history: the last reading of the table failed
    missed          \* history: the table changed and no reload was noted

config == <<subAgentTable, giSA, reloadConfig, unread, missed>>
receiver == <<arrived, kind, rpc>>
vars == <<config, receiver, gstRequestList, fpc, request, nassaflag, dest>>

\* MA_InitSession calls MA_NASSAReadConfig, which may fail.
Init == /\ subAgentTable \in Tables
        /\ \/ giSA = subAgentTable /\ unread = FALSE
           \/ giSA = [e \in Enterprises |-> NULL] /\ unread = TRUE
        /\ reloadConfig = FALSE
        /\ missed = FALSE
        /\ gstRequestList = << >>
        /\ arrived = 0
        /\ kind = [r \in 1 .. MaxRequests |-> "empty"]
        /\ rpc = "idle"
        /\ fpc = "test"
        /\ request = 0
        /\ nassaflag = FALSE
        /\ dest = NASSA

-----------------------------------------------------------------------------
(* MA_Receiver; other messages than requests are dropped.                  *)

AddToList(k) ==
    /\ rpc = "idle"
    /\ arrived < MaxRequests
    /\ arrived' = arrived + 1
    /\ kind' = [kind EXCEPT ![arrived + 1] = k]
    /\ gstRequestList' = Append(gstRequestList, arrived + 1)
    /\ rpc' = "signal"
    /\ UNCHANGED <<config, fpc, request, nassaflag, dest>>

Signal ==
    /\ rpc = "signal"
    /\ rpc' = "idle"
    /\ fpc' = IF fpc = "wait" THEN "test" ELSE fpc
    /\ UNCHANGED <<config, arrived, kind, gstRequestList, request, nassaflag,
                   dest>>

-----------------------------------------------------------------------------
(* sendPDU: the loop around pthread_cond_wait.                             *)

\* The size is read without a lock.
ListEmpty ==
    /\ fpc = "test"
    /\ gstRequestList = << >>
    /\ fpc' = "sleep"
    /\ UNCHANGED <<config, receiver, gstRequestList, request, nassaflag, dest>>

\* A signal that came since the test is lost.
CondWait ==
    /\ fpc = "sleep"
    /\ fpc' = "wait"
    /\ UNCHANGED <<config, receiver, gstRequestList, request, nassaflag, dest>>

\* Mistake: the request stays in the list.
TakeRequest_NotDeleted ==
    /\ fpc = "test"
    /\ gstRequestList # << >>
    /\ request' = Head(gstRequestList)
    /\ fpc' = IF kind[request'] = "empty" THEN "test" ELSE "route"
    /\ UNCHANGED <<config, receiver, gstRequestList, nassaflag, dest>>

TakeRequest ==
    /\ fpc = "test"
    /\ gstRequestList # << >>
    /\ request' = Head(gstRequestList)
    /\ gstRequestList' = Tail(gstRequestList)
    /\ fpc' = IF kind[request'] = "empty" THEN "test" ELSE "route"
    /\ UNCHANGED <<config, receiver, nassaflag, dest>>

-----------------------------------------------------------------------------
(* sendPDU: the destination.                                               *)

Asked == kind[request]

\* MA_NASSAReadConfig.  When it fails the flag is cleared all the same.
Reload ==
    /\ fpc = "route"
    /\ Asked # "mib2"
    /\ reloadConfig
    /\ reloadConfig' = FALSE
    /\ \/ giSA' = subAgentTable /\ unread' = FALSE /\ missed' = FALSE
       \/ UNCHANGED <<giSA, missed>> /\ unread' = TRUE
    /\ UNCHANGED <<subAgentTable, receiver, gstRequestList, fpc, request,
                   nassaflag, dest>>

Routable == fpc = "route" /\ (Asked = "mib2" \/ ~reloadConfig)

\* Mistake: a SET of the table is not noted.
ToLocalAgent_NotNoted ==
    /\ Routable
    /\ Asked \in {"mib2", "nas", "set"}
    /\ nassaflag' = TRUE
    /\ dest' = NASSA
    /\ fpc' = "sent"
    /\ UNCHANGED <<config, receiver, gstRequestList, request>>

ToLocalAgent ==
    /\ Routable
    /\ Asked \in {"mib2", "nas", "set"}
    /\ nassaflag' = TRUE
    /\ dest' = NASSA
    /\ reloadConfig' = (reloadConfig \/ Asked = "set")
    /\ fpc' = "sent"
    /\ UNCHANGED <<subAgentTable, giSA, unread, missed, receiver,
                   gstRequestList, request>>

ToSubAgent ==
    /\ Routable
    /\ Asked \in Enterprises
    /\ giSA[Asked] # NULL
    /\ nassaflag' = FALSE
    /\ dest' = giSA[Asked]
    /\ fpc' = "sent"
    /\ UNCHANGED <<config, receiver, gstRequestList, request>>

\* Mistake: the end of the search is not tested before the entry is used.
NoSubAgent_Used ==
    /\ Routable
    /\ Asked \in Enterprises
    /\ giSA[Asked] = NULL
    /\ dest' = IF nassaflag THEN NASSA ELSE NULL
    /\ fpc' = "sent"
    /\ UNCHANGED <<config, receiver, gstRequestList, request, nassaflag>>

\* nassaflag is what the request before left: after one for the local agent
\* this one goes there too, otherwise it is dropped.
NoSubAgent ==
    /\ Routable
    /\ Asked \in Enterprises
    /\ giSA[Asked] = NULL
    /\ fpc' = IF nassaflag THEN "sent" ELSE "test"
    /\ dest' = IF nassaflag THEN NASSA ELSE dest
    /\ UNCHANGED <<config, receiver, gstRequestList, request, nassaflag>>

-----------------------------------------------------------------------------
(* sendPDU: snmp_synch_response.                                           *)

\* External: the local agent carries out a SET of its table, or refuses.  The
\* table may be the subject of a later variable of any request it gets, while
\* sendPDU looks at the first one only.
AgentSets ==
    /\ fpc = "sent"
    /\ Asked \in {"mib2", "nas", "set"}
    /\ subAgentTable' \in Tables
    /\ missed' = (missed \/ (Asked # "set" /\ subAgentTable' # subAgentTable))
    /\ fpc' = "set"
    /\ UNCHANGED <<giSA, reloadConfig, unread, receiver, gstRequestList,
                   request, nassaflag, dest>>

\* Mistake: the thread waits for the next signal.
Answered_Waits ==
    /\ fpc \in {"sent", "set"}
    /\ fpc' = "sleep"
    /\ UNCHANGED <<config, receiver, gstRequestList, request, nassaflag, dest>>

\* The answer is passed on to the manager, or the call times out.
Answered ==
    /\ fpc \in {"sent", "set"}
    /\ fpc' = "test"
    /\ UNCHANGED <<config, receiver, gstRequestList, request, nassaflag, dest>>

-----------------------------------------------------------------------------
MA_Receiver == (\E k \in Kinds : AddToList(k)) \/ Signal

sendPDU == \/ ListEmpty \/ CondWait \/ TakeRequest
           \/ Reload \/ ToLocalAgent \/ ToSubAgent \/ NoSubAgent
           \/ AgentSets \/ Answered

Next == MA_Receiver \/ sendPDU

Spec == Init /\ [][Next]_vars

\* Both threads are scheduled, and snmp_synch_response returns after its
\* timeouts.  The manager need not send anything.
FairSpec == Spec /\ WF_vars(Signal) /\ WF_vars(sendPDU)

-----------------------------------------------------------------------------
(* Properties.                                                             *)

\* The types of the state; a request is never sent to an entry past the table.
TypeOK ==
    /\ subAgentTable \in Tables
    /\ giSA \in Tables
    /\ reloadConfig \in BOOLEAN
    /\ unread \in BOOLEAN
    /\ missed \in BOOLEAN
    /\ gstRequestList \in Seq(1 .. MaxRequests)
    /\ arrived \in 0 .. MaxRequests
    /\ kind \in [1 .. MaxRequests -> Kinds]
    /\ rpc \in {"idle", "signal"}
    /\ fpc \in {"test", "sleep", "wait", "route", "sent", "set"}
    /\ request \in 0 .. MaxRequests
    /\ nassaflag \in BOOLEAN
    /\ dest \in Agents \cup {NASSA}

\* The list holds the requests that arrived after the one sendPDU took last,
\* in their order: none is lost, repeated or overtaken.
NoneLost ==
    /\ Len(gstRequestList) = arrived - request
    /\ \A i \in 1 .. Len(gstRequestList) : gstRequestList[i] = request + i

\* After any sequence of SETs that begin with the subagent table, a request of
\* another enterprise goes to the agent the table names now, never to an earlier
\* one, and to no subagent when the table names none.
RightAgent ==
    fpc = "sent" /\ Asked \in Enterprises /\ ~unread /\ ~missed =>
        \/ dest = subAgentTable[Asked]
        \/ subAgentTable[Asked] = NULL /\ dest = NASSA

\* Every request is served, unless it comes between the test of the list and
\* the wait; the next signal serves that one too.
RequestsServed ==
    /\ gstRequestList # << >>
    /\ fpc \notin {"sleep", "wait"} \/ (fpc = "wait" /\ rpc = "signal")
    ~> gstRequestList = << >>

-----------------------------------------------------------------------------
(***************************************************************************)
(* What sendPDU is meant to do and TLC refutes; the README describes the   *)
(* counterexamples.                                                        *)
(***************************************************************************)

\* What the comment in sendPDU says of the reload: it happens in case any of the
\* tables are modified, so that a request of another enterprise is routed with
\* the table as it is, if that could be read.
ReloadedWhenModified ==
    fpc = "sent" /\ Asked \in Enterprises /\ ~unread => giSA = subAgentTable

\* What the drop in sendPDU is for: a request without a subagent configuration
\* is sent to nobody.
DroppedIfUnconfigured ==
    fpc = "sent" /\ Asked \in Enterprises => giSA[Asked] # NULL
=============================================================================
