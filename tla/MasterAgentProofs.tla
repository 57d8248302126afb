-------------------------- MODULE MasterAgentProofs --------------------------
(***************************************************************************)
(* For any number of enterprises, agents and requests: the request list of *)
(* the master agent loses and repeats nothing, and a request goes to the   *)
(* agent the subagent table names.                                         *)
(***************************************************************************)
EXTENDS MasterAgent, TLAPS

\* What the forwarding thread knows about the table.  The copy is up to date
\* unless a reload is due, was missed or failed; a SET that begins with the table
\* is only under way with the reload noted; and a request for another enterprise was
\* routed with a copy that was not due for a reload.
RouteInv ==
    /\ fpc \in {"route", "sent", "set"} => request # 0
    /\ ~unread /\ ~missed /\ ~reloadConfig => giSA = subAgentTable
    /\ fpc = "sent" /\ Asked = "set" => reloadConfig
    /\ fpc = "sent" /\ Asked \in Enterprises =>
           /\ ~reloadConfig
           /\ dest = IF giSA[Asked] # NULL THEN giSA[Asked] ELSE NASSA

-----------------------------------------------------------------------------
\* The types hold at the start, and every step of either thread keeps them.
LEMMA TypeInductive ==
    /\ Init => TypeOK
    /\ TypeOK /\ [Next]_vars => TypeOK'
<1>1. ASSUME Init PROVE TypeOK
  <2>1. giSA \in Tables /\ unread \in BOOLEAN
    BY <1>1 DEF Init, Tables
  <2>2. /\ gstRequestList \in Seq(1 .. MaxRequests)
        /\ arrived \in 0 .. MaxRequests /\ request \in 0 .. MaxRequests
    BY <1>1, MasterAgentAssumption DEF Init
  <2>3. kind \in [1 .. MaxRequests -> Kinds]
    BY <1>1 DEF Init, Kinds
  <2> QED
    BY <1>1, <2>1, <2>2, <2>3 DEF Init, TypeOK
<1>2. ASSUME TypeOK, [Next]_vars PROVE TypeOK'
  <2> USE <1>2, MasterAgentAssumption DEF TypeOK
  <2>1. CASE \E k \in Kinds : AddToList(k)
    <3>1. PICK k \in Kinds : AddToList(k)
      BY <2>1
    <3>2. arrived' \in 0 .. MaxRequests /\ arrived + 1 \in 1 .. MaxRequests
      BY <3>1 DEF AddToList
    <3>3. gstRequestList' \in Seq(1 .. MaxRequests)
      BY <3>1, <3>2 DEF AddToList
    <3>4. kind' \in [1 .. MaxRequests -> Kinds]
      BY <3>1, <3>2 DEF AddToList
    <3> QED
      BY <3>1, <3>2, <3>3, <3>4 DEF AddToList, config
  <2>2. CASE Signal
    BY <2>2 DEF Signal, config
  <2>3. CASE ListEmpty \/ CondWait \/ Answered
    BY <2>3 DEF ListEmpty, CondWait, Answered, config, receiver
  <2>4. CASE TakeRequest
    <3>1. /\ Head(gstRequestList) \in 1 .. MaxRequests
          /\ Tail(gstRequestList) \in Seq(1 .. MaxRequests)
      BY <2>4 DEF TakeRequest
    <3> QED
      BY <2>4, <3>1 DEF TakeRequest, config, receiver
  <2>5. CASE Reload
    BY <2>5 DEF Reload, receiver
  <2>6. CASE ToLocalAgent
    BY <2>6 DEF ToLocalAgent, receiver
  <2>7. CASE ToSubAgent
    BY <2>7 DEF ToSubAgent, config, receiver, Tables
  <2>8. CASE NoSubAgent
    BY <2>8 DEF NoSubAgent, config, receiver
  <2>9. CASE AgentSets
    BY <2>9 DEF AgentSets, receiver
  <2>10. CASE UNCHANGED vars
    BY <2>10 DEF vars, config, receiver
  <2> QED
    BY <2>1, <2>2, <2>3, <2>4, <2>5, <2>6, <2>7, <2>8, <2>9, <2>10
       DEF Next, MA_Receiver, sendPDU
<1> QED
  BY <1>1, <1>2

-----------------------------------------------------------------------------
\* The list holds the numbers after the one that was taken last: AddToList adds
\* the next number, TakeRequest removes the first, nothing else touches them.
LEMMA ListInductive ==
    /\ Init => NoneLost
    /\ TypeOK /\ NoneLost /\ [Next]_vars => NoneLost'
<1>1. Init => NoneLost
  BY DEF Init, NoneLost
<1>2. ASSUME TypeOK, NoneLost, [Next]_vars PROVE NoneLost'
  <2>1. CASE \E k \in Kinds : AddToList(k)
    <3>1. PICK k \in Kinds : AddToList(k)
      BY <2>1
    <3>2. gstRequestList \in Seq(Nat) /\ arrived \in Nat /\ request \in Nat
      BY <1>2, MasterAgentAssumption DEF TypeOK
    <3>3. /\ arrived' = arrived + 1 /\ request' = request
          /\ gstRequestList' = Append(gstRequestList, arrived + 1)
      BY <3>1 DEF AddToList
    <3>4. /\ Len(gstRequestList) \in Nat
          /\ Len(gstRequestList') = Len(gstRequestList) + 1
          /\ gstRequestList'[Len(gstRequestList) + 1] = arrived + 1
          /\ \A i \in 1 .. Len(gstRequestList) :
                 gstRequestList'[i] = gstRequestList[i]
      BY <3>2, <3>3
    <3>5. ASSUME NEW i \in 1 .. Len(gstRequestList')
          PROVE  gstRequestList'[i] = request + i
      <4>1. CASE i = Len(gstRequestList) + 1
        BY <1>2, <3>2, <3>4, <4>1 DEF NoneLost
      <4>2. CASE i # Len(gstRequestList) + 1
        BY <1>2, <3>2, <3>4, <4>2 DEF NoneLost
      <4> QED
        BY <4>1, <4>2
    <3>6. Len(gstRequestList') = arrived' - request'
      BY <1>2, <3>2, <3>3, <3>4 DEF NoneLost
    <3> QED
      BY <3>3, <3>5, <3>6 DEF NoneLost
  <2>2. CASE TakeRequest
    <3>1. gstRequestList \in Seq(Nat) /\ arrived \in Nat /\ request \in Nat
      BY <1>2, MasterAgentAssumption DEF TypeOK
    <3>2. Len(gstRequestList) > 0 /\ Head(gstRequestList) = gstRequestList[1]
      BY <2>2, <3>1 DEF TakeRequest
    <3>3. request' = request + 1
      BY <1>2, <2>2, <3>1, <3>2 DEF TakeRequest, NoneLost
    <3>4. /\ Len(gstRequestList) \in Nat
          /\ Len(gstRequestList') = Len(gstRequestList) - 1
          /\ \A i \in 1 .. Len(gstRequestList') :
                 gstRequestList'[i] = gstRequestList[i + 1]
      BY <2>2, <3>1, <3>2 DEF TakeRequest
    <3>5. arrived' = arrived
      BY <2>2 DEF TakeRequest, receiver
    <3>6. ASSUME NEW i \in 1 .. Len(gstRequestList')
          PROVE  gstRequestList'[i] = request' + i
      <4>1. i + 1 \in 1 .. Len(gstRequestList)
        BY <3>4
      <4>2. gstRequestList[i + 1] = request + (i + 1)
        BY <1>2, <4>1 DEF NoneLost
      <4> QED
        BY <3>1, <3>3, <3>4, <4>2
    <3>7. Len(gstRequestList') = arrived' - request'
      BY <1>2, <3>1, <3>3, <3>4, <3>5 DEF NoneLost
    <3> QED
      BY <3>6, <3>7 DEF NoneLost
  <2>3. CASE UNCHANGED <<gstRequestList, arrived, request>>
    BY <1>2, <2>3 DEF NoneLost
  <2> QED
    BY <1>2, <2>1, <2>2, <2>3
       DEF Next, MA_Receiver, sendPDU, Signal, ListEmpty, CondWait, Reload,
           ToLocalAgent, ToSubAgent, NoSubAgent, AgentSets, Answered, vars,
           receiver
<1> QED
  BY <1>1, <1>2

-----------------------------------------------------------------------------
\* A request that is being sent keeps its kind: new ones have other numbers.
LEMMA KindKept ==
    ASSUME TypeOK, NoneLost, request # 0, NEW k, AddToList(k)
    PROVE  kind'[request] = kind[request]
<1>1. /\ request \in Nat /\ arrived \in Nat /\ request <= arrived
      /\ gstRequestList \in Seq(Nat)
  BY MasterAgentAssumption DEF TypeOK, NoneLost
<1>2. request # arrived + 1
  BY <1>1
<1> QED
  BY <1>1, <1>2, MasterAgentAssumption DEF AddToList, TypeOK

\* RouteInv is inductive, given the types and the order of the list.
LEMMA RouteInductive ==
    /\ Init => RouteInv
    /\ TypeOK /\ NoneLost /\ RouteInv /\ [Next]_vars => RouteInv'
<1>1. Init => RouteInv
  BY DEF Init, RouteInv
<1>2. ASSUME TypeOK, NoneLost, RouteInv, [Next]_vars PROVE RouteInv'
  <2> USE <1>2, MasterAgentAssumption
  <2>1. CASE \E k \in Kinds : AddToList(k)
    <3>1. PICK k \in Kinds : AddToList(k)
      BY <2>1
    <3>2. CASE fpc = "sent"
      <4>1. request # 0
        BY <3>2 DEF RouteInv
      <4>2. kind'[request] = kind[request]
        BY <3>1, <4>1, KindKept
      <4> QED
        BY <3>1, <4>1, <4>2 DEF RouteInv, Asked, AddToList, config
    <3>3. CASE fpc # "sent"
      BY <3>1, <3>3 DEF RouteInv, AddToList, config
    <3> QED
      BY <3>2, <3>3
  <2>2. CASE Signal
    BY <2>2 DEF Signal, RouteInv, Asked, config
  <2>3. CASE ListEmpty \/ CondWait \/ Answered
    BY <2>3 DEF ListEmpty, CondWait, Answered, RouteInv, Asked, config, receiver
  <2>4. CASE TakeRequest
    <3>1. request' \in 1 .. MaxRequests
      BY <2>4 DEF TakeRequest, TypeOK
    <3>2. request' # 0 /\ fpc' # "sent" /\ UNCHANGED config
      BY <2>4, <3>1 DEF TakeRequest
    <3> QED
      BY <3>2 DEF RouteInv, config
  <2>5. CASE Reload
    <3>1. /\ fpc' = "route" /\ fpc = "route" /\ request' = request
          /\ subAgentTable' = subAgentTable
          /\ (giSA' = subAgentTable) \/ (unread' = TRUE)
      BY <2>5 DEF Reload
    <3> QED
      BY <3>1 DEF RouteInv
  <2>6. CASE ToLocalAgent
    <3>1. /\ request' = request /\ Asked' = Asked
          /\ giSA' = giSA /\ subAgentTable' = subAgentTable
          /\ unread' = unread /\ missed' = missed
      BY <2>6 DEF ToLocalAgent, Asked, receiver
    <3>2. request # 0 /\ Asked \notin Enterprises
      BY <2>6 DEF ToLocalAgent, Routable, RouteInv
    <3>3. /\ Asked = "set" => reloadConfig'
          /\ reloadConfig => reloadConfig'
      BY <2>6 DEF ToLocalAgent
    <3> QED
      BY <3>1, <3>2, <3>3, Zenon DEF RouteInv
  <2>7. CASE ToSubAgent
    BY <2>7 DEF ToSubAgent, Routable, RouteInv, Asked, config, receiver
  <2>8. CASE NoSubAgent
    BY <2>8 DEF NoSubAgent, Routable, RouteInv, Asked, config, receiver
  <2>9. CASE AgentSets
    <3>1. /\ fpc' = "set" /\ request' = request /\ request # 0
          /\ giSA' = giSA /\ unread' = unread
          /\ reloadConfig' = reloadConfig
      BY <2>9 DEF AgentSets, RouteInv
    <3>2. (Asked = "set" /\ reloadConfig) \/ missed'
          \/ (subAgentTable' = subAgentTable /\ (missed => missed'))
      BY <2>9 DEF AgentSets, RouteInv
    <3> QED
      BY <3>1, <3>2 DEF RouteInv
  <2>10. CASE UNCHANGED vars
    BY <2>10 DEF vars, RouteInv, Asked, config, receiver
  <2> QED
    BY <2>1, <2>2, <2>3, <2>4, <2>5, <2>6, <2>7, <2>8, <2>9, <2>10
       DEF Next, MA_Receiver, sendPDU
<1> QED
  BY <1>1, <1>2

-----------------------------------------------------------------------------
\* The state of both threads keeps its types; a request is only ever sent to
\* the local agent or to an entry that was found.
THEOREM TypeCorrect == Spec => []TypeOK
<1> QED
  BY TypeInductive, PTL DEF Spec

\* No request is lost, repeated or overtaken between MA_Receiver and sendPDU.
THEOREM NoRequestLost == Spec => []NoneLost
<1> QED
  BY TypeCorrect, ListInductive, PTL DEF Spec

\* After every sequence of SETs, reloads and requests, and unless a change of the
\* table was missed or not read, a request of another enterprise goes to the
\* agent the table names now, and to no subagent if it names none.
THEOREM RoutedByTable == Spec => []RightAgent
<1>1. TypeOK /\ RouteInv => RightAgent
  BY DEF RouteInv, RightAgent
<1> QED
  BY <1>1, TypeCorrect, NoRequestLost, RouteInductive, PTL DEF Spec
=============================================================================
