--------------------------- MODULE NetworkModeProofs ---------------------------
(***************************************************************************)
(* Proofs about NetworkMode, for every number of requests and events: the  *)
(* promise chain keeps the native mode in step with what was asked last.   *)
(***************************************************************************)
EXTENDS NetworkMode, FiniteSetTheorems, TLAPS

Applied == {"flush", "count", "answer", "refresh"}   \* stages after set_online

\* The outstanding requests are the ones issued last, in order.
Numbered ==
  \A n \in 1 .. Len(networkUpdates) :
    networkUpdates[n].request = networkRequests - Len(networkUpdates) + n

\* The newest outstanding request asks for the mode wanted now.
NewestIsWanted ==
  networkUpdates # <<>> =>
    networkUpdates[Len(networkUpdates)].online = (hostOnline /\ ~offlineMode)

\* A request that reached the native runtime is in force until it settles.
FirstInForce ==
  /\ stage \in Applied => is_online = First.online
  /\ stage = "flush" => is_online
  /\ stage = "refresh" => isOnline = is_online

\* No request that was outstanding when offline mode was chosen asks for online.
NoOnlineRequest ==
  offlineMode => \A n \in 1 .. Len(networkUpdates) : ~networkUpdates[n].online

ChainInv ==
  /\ TypeOK
  /\ BusyWhileUpdating
  /\ Numbered
  /\ NewestIsWanted
  /\ FirstInForce
  /\ NoOnlineRequest
  /\ SettledModeInForce

-------------------------------------------------------------------------------
LEMMA InitTypeOK == Init => TypeOK
<1> SUFFICES ASSUME Init PROVE TypeOK  OBVIOUS
<1>1. MaxRequests \in Nat /\ MaxEvents \in Nat  BY NetworkAssumption DEF NetworkAssumption
<1>2. networkUpdates \in Seq(Request)  BY DEF Init
<1>3. queue \in Unknown .. MaxEvents /\ reply \in NoReply .. MaxEvents
  BY <1>1 DEF Init, Unknown, NoReply
<1>4. networkRequests \in 0 .. MaxRequests /\ recorded \in 0 .. MaxEvents
  BY <1>1 DEF Init
<1> QED BY <1>2, <1>3, <1>4 DEF Init, TypeOK

(* Issuing a request keeps the promise chain well typed.                   *)
LEMMA ApplyTyped ==
  ASSUME TypeOK, NEW host \in BOOLEAN, NEW offline \in BOOLEAN,
         ApplyNetworkMode(host, offline), is_online' \in BOOLEAN
  PROVE  TypeOK'
<1>1. networkRequests' \in 1 .. MaxRequests
  BY NetworkAssumption DEF ApplyNetworkMode, TypeOK, NetworkAssumption
<1>2. networkUpdates' \in Seq(Request) /\ networkUpdates' # <<>>
  BY <1>1 DEF ApplyNetworkMode, TypeOK, Request, Wanted
<1>3. /\ hostOnline' \in BOOLEAN /\ offlineMode' \in BOOLEAN
      /\ networkBusy' \in BOOLEAN /\ networkError' \in BOOLEAN
      /\ isOnline' \in BOOLEAN /\ networkTransition' \in BOOLEAN /\ failed' \in BOOLEAN
  BY DEF ApplyNetworkMode, TypeOK
<1>4. UNCHANGED <<stage, queue, reply, recorded, pending, delivered>>
  BY DEF ApplyNetworkMode, refreshVars, trailVars
<1> QED BY <1>1, <1>2, <1>3, <1>4 DEF TypeOK

(* Settling drops the first of at least one request.                       *)
LEMMA SettleTyped ==
  ASSUME TypeOK, stage # "idle", Settle
  PROVE  /\ networkUpdates' \in Seq(Request)
         /\ Len(networkUpdates) \in Nat \ {0}
         /\ Len(networkUpdates') = Len(networkUpdates) - 1
         /\ \A n \in 1 .. Len(networkUpdates') : networkUpdates'[n] = networkUpdates[n + 1]
         /\ First = networkUpdates[1]
         /\ networkBusy' \in BOOLEAN
         /\ stage' = "idle"
<1>1. networkUpdates \in Seq(Request) /\ networkUpdates # <<>>  BY DEF TypeOK
<1>2. networkUpdates' = Tail(networkUpdates) /\ stage' = "idle"  BY DEF Settle
<1>3. networkBusy' \in BOOLEAN  BY DEF Settle, TypeOK
<1> QED BY <1>1, <1>2, <1>3 DEF First

(* A queue status is unknown or a number of events within the bound.       *)
LEMMA StatusTyped ==
  ASSUME TypeOK, NEW status \in Statuses
  PROVE  status \in Unknown .. MaxEvents
<1>1. MaxEvents \in Nat /\ pending \subseteq 1 .. MaxEvents
  BY NetworkAssumption DEF TypeOK, NetworkAssumption
<1>2. IsFiniteSet(1 .. MaxEvents) /\ Cardinality(1 .. MaxEvents) = MaxEvents
  BY <1>1, FS_Interval, 1 \in Int, MaxEvents \in Int
<1>3. Cardinality(pending) \in Nat /\ Cardinality(pending) <= MaxEvents
  BY <1>1, <1>2, FS_Subset, FS_CardinalityType
<1> QED BY <1>1, <1>3 DEF Statuses, Unknown

LEMMA NextTypeOK == TypeOK /\ [Next]_vars => TypeOK'
<1> SUFFICES ASSUME TypeOK, [Next]_vars PROVE TypeOK'  OBVIOUS
<1> USE DEF choiceVars, shownVars, refreshVars, trailVars
<1>1. ASSUME NEW online \in BOOLEAN, SetOnlineStatus(online) PROVE TypeOK'
  BY <1>1, ApplyTyped DEF SetOnlineStatus, TypeOK
<1>2. ASSUME NEW offline \in BOOLEAN, SetOfflineMode(offline) PROVE TypeOK'
  BY <1>2, ApplyTyped DEF SetOfflineMode, TypeOK
<1>3. CASE Invoke  BY <1>3 DEF Invoke, TypeOK
<1>4. CASE SetOnline
  <2>1. First.online \in BOOLEAN
    <3>1. networkUpdates \in Seq(Request) /\ networkUpdates # <<>>
      BY <1>4 DEF SetOnline, TypeOK
    <3>2. First \in Request  BY <3>1 DEF First
    <3> QED BY <3>2 DEF Request
  <2> QED BY <1>4, <2>1 DEF SetOnline, TypeOK
<1>5. CASE FlushDelivers
  <2>1. delivered' \subseteq 1 .. recorded /\ recorded' = recorded /\ pending' = pending
    BY <1>5 DEF FlushDelivers, Trail!Deliver
  <2> QED BY <1>5, <2>1 DEF FlushDelivers, TypeOK, chainVars
<1>6. CASE FlushAcknowledges
  <2>1. pending' \subseteq pending /\ recorded' = recorded /\ delivered' = delivered
    BY <1>6 DEF FlushAcknowledges, Trail!Forget
  <2> QED BY <1>6, <2>1 DEF FlushAcknowledges, TypeOK
<1>7. ASSUME NEW error \in BOOLEAN, FlushReturns(error) PROVE TypeOK'
  BY <1>7 DEF FlushReturns, TypeOK
<1>8. ASSUME NEW error \in BOOLEAN, CountPending(error) PROVE TypeOK'
  BY <1>8 DEF CountPending, TypeOK
<1>9. CASE Confirm
  <2>1. First.online \in BOOLEAN
    <3>1. networkUpdates \in Seq(Request) /\ networkUpdates # <<>>
      BY <1>9 DEF Confirm, TypeOK
    <3>2. First \in Request  BY <3>1 DEF First
    <3> QED BY <3>2 DEF Request
  <2> QED BY <1>9, <2>1 DEF Confirm, TypeOK
<1>10. CASE Rejected
  <2>1. stage # "idle" /\ Settle  BY <1>10 DEF Rejected
  <2>2. /\ networkUpdates' \in Seq(Request) /\ networkBusy' \in BOOLEAN
        /\ stage' = "idle"
    BY <2>1, SettleTyped
  <2> QED BY <1>10, <2>2 DEF Rejected, TypeOK
<1>11. ASSUME NEW status \in Statuses, Refresh(status) PROVE TypeOK'
  <2>1. stage # "idle" /\ Settle  BY <1>11 DEF Refresh
  <2>2. /\ networkUpdates' \in Seq(Request) /\ networkBusy' \in BOOLEAN
        /\ stage' = "idle"
    BY <2>1, SettleTyped
  <2>3. queue' \in Unknown .. MaxEvents /\ networkError' \in BOOLEAN
    BY <1>11, StatusTyped DEF Refresh, ShowQueue, TypeOK
  <2> QED BY <1>11, <2>2, <2>3 DEF Refresh, TypeOK
<1>12. ASSUME NEW status \in Statuses, RefreshQueue(status) PROVE TypeOK'
  <2>1. reply' \in NoReply .. MaxEvents
    BY <1>12, StatusTyped, NetworkAssumption
    DEF RefreshQueue, Unknown, NoReply, NetworkAssumption
  <2> QED BY <1>12, <2>1 DEF RefreshQueue, TypeOK, chainVars
<1>13. CASE RefreshArrives
  <2>1. queue' \in Unknown .. MaxEvents /\ reply' \in NoReply .. MaxEvents
    BY <1>13, NetworkAssumption
    DEF RefreshArrives, ShowQueue, TypeOK, Unknown, NoReply, NetworkAssumption
  <2>2. networkError' \in BOOLEAN  BY <1>13 DEF RefreshArrives, ShowQueue, TypeOK
  <2> QED BY <1>13, <2>1, <2>2 DEF RefreshArrives, TypeOK, chainVars
<1>14. CASE RecordEvent
  <2>1. /\ recorded \in Nat /\ recorded < MaxEvents /\ recorded' = recorded + 1
        /\ pending' = pending \cup {recorded'} /\ delivered' = delivered
    BY <1>14, NetworkAssumption DEF RecordEvent, Trail!Record, TypeOK, NetworkAssumption
  <2>2. recorded' \in 0 .. MaxEvents /\ 1 .. recorded \subseteq 1 .. recorded'
    BY <2>1, NetworkAssumption DEF NetworkAssumption
  <2>3. pending' \subseteq 1 .. recorded' /\ delivered' \subseteq 1 .. recorded'
    BY <2>1, <2>2 DEF TypeOK
  <2> QED BY <1>14, <2>2, <2>3 DEF RecordEvent, TypeOK, chainVars
<1>15. CASE UNCHANGED vars  BY <1>15 DEF vars, chainVars, TypeOK
<1> QED
  BY <1>1, <1>2, <1>3, <1>4, <1>5, <1>6, <1>7, <1>8, <1>9, <1>10, <1>11, <1>12, <1>13,
     <1>14, <1>15
  DEF Next, Chain, Native

(* Every reachable state is well typed; in particular no handler works on  *)
(* an empty promise chain.                                                 *)
THEOREM TypeCorrect == Spec => []TypeOK
BY InitTypeOK, NextTypeOK, PTL DEF Spec

-------------------------------------------------------------------------------
LEMMA InitChain == Init => ChainInv
<1> SUFFICES ASSUME Init PROVE ChainInv  OBVIOUS
<1>1. TypeOK  BY InitTypeOK
<1>2. networkUpdates = <<>> /\ Len(networkUpdates) = 0  BY DEF Init
<1> QED
  BY <1>1, <1>2
  DEF Init, ChainInv, BusyWhileUpdating, Numbered, NewestIsWanted, FirstInForce,
      NoOnlineRequest, SettledModeInForce, Applied

(* A request joins the chain: the invariant holds again if the requests    *)
(* already there may stand beside the operator's choice.                   *)
LEMMA ApplyKeepsChain ==
  ASSUME ChainInv, TypeOK', NEW host \in BOOLEAN, NEW offline \in BOOLEAN,
         ApplyNetworkMode(host, offline), is_online' = is_online,
         offline => offlineMode \/ networkUpdates = <<>>
  PROVE  ChainInv'
<1>1. /\ networkUpdates \in Seq(Request) /\ Len(networkUpdates) \in Nat
      /\ networkRequests \in Nat
  BY NetworkAssumption DEF ChainInv, TypeOK, NetworkAssumption
<1> DEFINE r == [request |-> networkRequests + 1, online |-> host /\ ~offline]
<1>2. networkUpdates' = Append(networkUpdates, r)
  BY DEF ApplyNetworkMode, Wanted
<1>3. /\ Len(networkUpdates') = Len(networkUpdates) + 1
      /\ networkUpdates'[Len(networkUpdates) + 1] = r
      /\ \A n \in 1 .. Len(networkUpdates) : networkUpdates'[n] = networkUpdates[n]
  BY <1>1, <1>2
<1>4. networkUpdates' # <<>>  BY <1>1, <1>3
<1>5. networkRequests' = networkRequests + 1 /\ networkBusy' = TRUE
  BY DEF ApplyNetworkMode
<1>6. hostOnline' = host /\ offlineMode' = offline /\ stage' = stage /\ isOnline' = isOnline
  BY DEF ApplyNetworkMode
<1>7. BusyWhileUpdating'  BY <1>4, <1>5 DEF BusyWhileUpdating
<1>8. Numbered'
  <2> SUFFICES ASSUME NEW n \in 1 .. Len(networkUpdates')
               PROVE  networkUpdates'[n].request = networkRequests' - Len(networkUpdates') + n
    BY DEF Numbered
  <2>1. CASE n = Len(networkUpdates) + 1
    <3>1. networkUpdates'[n].request = networkRequests + 1  BY <1>3, <2>1
    <3> QED BY <1>1, <1>3, <1>5, <2>1, <3>1
  <2>2. CASE n \in 1 .. Len(networkUpdates)
    <3>1. networkUpdates[n].request = networkRequests - Len(networkUpdates) + n
      BY <2>2 DEF ChainInv, Numbered
    <3> QED BY <1>1, <1>3, <1>5, <2>2, <3>1
  <2> QED BY <1>1, <1>3, <2>1, <2>2
<1>9. NewestIsWanted'  BY <1>3, <1>6 DEF NewestIsWanted
<1>10. FirstInForce'
  <2>1. CASE networkUpdates = <<>>
    <3>1. stage = "idle"  BY <2>1 DEF ChainInv, TypeOK
    <3> QED BY <1>6, <3>1 DEF FirstInForce, Applied
  <2>2. CASE networkUpdates # <<>>
    <3>1. 1 \in 1 .. Len(networkUpdates)  BY <1>1, <2>2
    <3>2. First' = First  BY <1>1, <1>2, <1>3, <1>4, <2>2, <3>1 DEF First
    <3> QED BY <1>6, <3>2 DEF ChainInv, FirstInForce
  <2> QED BY <2>1, <2>2
<1>11. NoOnlineRequest'
  <2> SUFFICES ASSUME offline, NEW n \in 1 .. Len(networkUpdates')
               PROVE  ~networkUpdates'[n].online
    BY <1>6 DEF NoOnlineRequest
  <2>1. CASE n = Len(networkUpdates) + 1
    <3>1. networkUpdates'[n] = r  BY <1>3, <2>1
    <3>2. ~r.online  BY Zenon
    <3> QED BY <3>1, <3>2
  <2>2. CASE n \in 1 .. Len(networkUpdates)
    <3>1. offlineMode  BY <1>1, <2>2
    <3> QED BY <1>3, <2>2, <3>1 DEF ChainInv, NoOnlineRequest
  <2> QED BY <1>1, <1>3, <2>1, <2>2
<1>12. SettledModeInForce'  BY <1>5 DEF SettledModeInForce
<1> QED BY <1>7, <1>8, <1>9, <1>10, <1>11, <1>12 DEF ChainInv

(* A request leaves the chain: busy ends with the newest one, and if that  *)
(* was confirmed the mode wanted is in force.                              *)
LEMMA SettleKeepsChain ==
  ASSUME ChainInv, TypeOK', stage # "idle", Settle,
         UNCHANGED <<hostOnline, offlineMode, isOnline, networkRequests, is_online>>,
         networkTransition' => stage = "refresh"
  PROVE  ChainInv'
<1>0. networkRequests \in Nat /\ TypeOK
  BY NetworkAssumption DEF ChainInv, TypeOK, NetworkAssumption
<1> DEFINE len == Len(networkUpdates)
<1>1. /\ networkUpdates' \in Seq(Request) /\ len \in Nat \ {0}
      /\ Len(networkUpdates') = len - 1
      /\ \A n \in 1 .. Len(networkUpdates') : networkUpdates'[n] = networkUpdates[n + 1]
      /\ First = networkUpdates[1] /\ stage' = "idle"
  BY <1>0, SettleTyped
<1>2. First.request = networkRequests - len + 1
  BY <1>1 DEF ChainInv, Numbered
<1>3. First.request = networkRequests <=> len = 1  BY <1>0, <1>1, <1>2
<1>4. networkUpdates' = <<>> <=> len = 1  BY <1>1
<1>5. networkBusy  BY <1>1 DEF ChainInv, BusyWhileUpdating
<1>6. networkBusy' <=> len # 1  BY <1>3, <1>5 DEF Settle
<1>7. BusyWhileUpdating'  BY <1>4, <1>6 DEF BusyWhileUpdating
<1>8. Numbered'
  <2> SUFFICES ASSUME NEW n \in 1 .. Len(networkUpdates')
               PROVE  networkUpdates'[n].request = networkRequests - (len - 1) + n
    BY <1>1 DEF Numbered
  <2>1. n + 1 \in 1 .. len  BY <1>1
  <2>2. networkUpdates[n + 1].request = networkRequests - len + (n + 1)
    BY <2>1 DEF ChainInv, Numbered
  <2> QED BY <1>0, <1>1, <2>2
<1>9. NewestIsWanted'
  <2> SUFFICES ASSUME networkUpdates' # <<>>
               PROVE  networkUpdates'[len - 1].online = (hostOnline /\ ~offlineMode)
    BY <1>1 DEF NewestIsWanted
  <2>1. len - 1 \in 1 .. Len(networkUpdates') /\ (len - 1) + 1 = len  BY <1>1, <1>4
  <2>2. networkUpdates'[len - 1] = networkUpdates[len]  BY <1>1, <2>1
  <2>3. networkUpdates[len].online = (hostOnline /\ ~offlineMode)
    BY <1>1 DEF ChainInv, NewestIsWanted
  <2> QED BY <2>2, <2>3
<1>10. FirstInForce'  BY <1>1 DEF FirstInForce, Applied
<1>11. NoOnlineRequest'
  <2> SUFFICES ASSUME offlineMode, NEW n \in 1 .. Len(networkUpdates')
               PROVE  ~networkUpdates'[n].online
    BY DEF NoOnlineRequest
  <2>1. n + 1 \in 1 .. len  BY <1>1
  <2> QED BY <1>1, <2>1 DEF ChainInv, NoOnlineRequest
<1>12. SettledModeInForce'
  <2> SUFFICES ASSUME ~networkBusy', networkTransition'
               PROVE  /\ is_online = (hostOnline /\ ~offlineMode)
                      /\ isOnline = is_online
    BY DEF SettledModeInForce
  <2>1. len = 1 /\ stage = "refresh"  BY <1>6
  <2>2. is_online = First.online /\ isOnline = is_online
    BY <2>1 DEF ChainInv, FirstInForce, Applied
  <2>3. networkUpdates[len].online = (hostOnline /\ ~offlineMode)
    BY <1>1 DEF ChainInv, NewestIsWanted
  <2> QED BY <1>1, <2>1, <2>2, <2>3
<1> QED BY <1>7, <1>8, <1>9, <1>10, <1>11, <1>12 DEF ChainInv

LEMMA NextChain == ChainInv /\ [Next]_vars => ChainInv'
<1> SUFFICES ASSUME ChainInv, [Next]_vars PROVE ChainInv'  OBVIOUS
<1>0. TypeOK /\ TypeOK'  BY NextTypeOK DEF ChainInv
<1> DEFINE Unmoved == UNCHANGED <<hostOnline, offlineMode, networkBusy, networkRequests,
                                  networkUpdates>>
\* Steps inside a transition: only the stage and what FirstInForce says of it move.
<1>1. ASSUME Unmoved, FirstInForce', SettledModeInForce' PROVE ChainInv'
  BY <1>0, <1>1
  DEF ChainInv, BusyWhileUpdating, Numbered, NewestIsWanted, NoOnlineRequest
\* Steps outside it.
<1>2. ASSUME Unmoved, UNCHANGED <<stage, isOnline, is_online, networkTransition>>
      PROVE  ChainInv'
  BY <1>1, <1>2 DEF ChainInv, FirstInForce, SettledModeInForce, First
<1>3. stage # "idle" => networkBusy  BY <1>0 DEF ChainInv, BusyWhileUpdating, TypeOK
<1>4. ASSUME NEW online \in BOOLEAN, SetOnlineStatus(online) PROVE ChainInv'
  BY <1>0, <1>4, ApplyKeepsChain DEF SetOnlineStatus, TypeOK
<1>5. ASSUME NEW offline \in BOOLEAN, SetOfflineMode(offline) PROVE ChainInv'
  <2>1. networkUpdates = <<>>
    BY <1>5 DEF SetOfflineMode, MayChoose, ChainInv, BusyWhileUpdating
  <2> QED BY <1>0, <1>5, <2>1, ApplyKeepsChain DEF SetOfflineMode, TypeOK
<1>6. CASE Invoke
  <2>1. Unmoved /\ stage' = "invoked" /\ networkBusy
    BY <1>6 DEF Invoke, choiceVars, shownVars, ChainInv, BusyWhileUpdating
  <2> QED BY <1>1, <2>1 DEF FirstInForce, SettledModeInForce, Applied
<1>7. CASE SetOnline
  <2>1. Unmoved /\ is_online' = First.online /\ networkBusy /\ First' = First
    BY <1>3, <1>7 DEF SetOnline, choiceVars, shownVars, First
  <2>2. /\ stage' \in {"flush", "count"} /\ (stage' = "flush" => First.online)
    BY <1>7 DEF SetOnline
  <2> QED BY <1>1, <2>1, <2>2 DEF FirstInForce, SettledModeInForce
<1>8. CASE FlushDelivers
  BY <1>2, <1>8 DEF FlushDelivers, choiceVars, shownVars, chainVars
<1>9. ASSUME stage \in Applied, stage' \in {"count", "answer"}, Unmoved,
             UNCHANGED <<is_online, isOnline, networkTransition>>
      PROVE  ChainInv'
  BY <1>1, <1>3, <1>9 DEF ChainInv, FirstInForce, SettledModeInForce, Applied, First
<1>10. CASE FlushAcknowledges
  BY <1>9, <1>10 DEF FlushAcknowledges, choiceVars, shownVars, Applied
<1>11. ASSUME NEW error \in BOOLEAN, FlushReturns(error) PROVE ChainInv'
  BY <1>9, <1>11 DEF FlushReturns, choiceVars, shownVars, Applied
<1>12. ASSUME NEW error \in BOOLEAN, CountPending(error) PROVE ChainInv'
  BY <1>9, <1>12 DEF CountPending, choiceVars, shownVars, Applied
<1>13. CASE Confirm
  <2>1. Unmoved /\ stage' = "refresh" /\ is_online' = is_online /\ isOnline' = First.online
    BY <1>13 DEF Confirm, choiceVars
  <2>2. is_online = First.online /\ networkBusy /\ First' = First
    BY <1>3, <1>13, <2>1 DEF Confirm, ChainInv, FirstInForce, Applied, First
  <2> QED BY <1>1, <2>1, <2>2 DEF FirstInForce, SettledModeInForce
<1>14. CASE Rejected
  BY <1>0, <1>14, SettleKeepsChain DEF Rejected, choiceVars
<1>15. ASSUME NEW status \in Statuses, Refresh(status) PROVE ChainInv'
  BY <1>0, <1>15, SettleKeepsChain DEF Refresh, choiceVars
<1>16. ASSUME NEW status \in Statuses, RefreshQueue(status) PROVE ChainInv'
  BY <1>2, <1>16 DEF RefreshQueue, choiceVars, shownVars, chainVars
<1>17. CASE RefreshArrives  BY <1>2, <1>17 DEF RefreshArrives, choiceVars, chainVars
<1>18. CASE RecordEvent
  BY <1>2, <1>18 DEF RecordEvent, choiceVars, shownVars, chainVars
<1>19. CASE UNCHANGED vars  BY <1>2, <1>19 DEF vars, choiceVars, shownVars, chainVars
<1> QED
  BY <1>4, <1>5, <1>6, <1>7, <1>8, <1>10, <1>11, <1>12, <1>13, <1>14, <1>15, <1>16,
     <1>17, <1>18, <1>19
  DEF Next, Chain, Native

(* The web view is busy exactly while a request is outstanding, although   *)
(* only the request numbered last may end it.                              *)
THEOREM BusyIsTrue == Spec => []BusyWhileUpdating
<1>1. ChainInv => BusyWhileUpdating  BY DEF ChainInv
<1> QED BY <1>1, InitChain, NextChain, PTL DEF Spec

(* Once nothing is outstanding and the last request was confirmed, the     *)
(* native mode and the mode shown are the mode wanted.                     *)
THEOREM ModeInForce == Spec => []SettledModeInForce
<1>1. ChainInv => SettledModeInForce  BY DEF ChainInv
<1> QED BY <1>1, InitChain, NextChain, PTL DEF Spec

(* No step turns the native runtime online while the operator's offline    *)
(* mode is selected: requests for online were settled before it could be.  *)
THEOREM OfflineHolds == Spec => OperatorOfflineHolds
<1>1. ChainInv /\ [Next]_vars => [offlineMode => (is_online' => is_online)]_vars
  <2> SUFFICES ASSUME ChainInv, Next, offlineMode, is_online' PROVE is_online
    OBVIOUS
  <2>1. CASE SetOnline
    <3>1. networkUpdates \in Seq(Request) /\ networkUpdates # <<>>
      BY <2>1 DEF SetOnline, ChainInv, TypeOK
    <3>2. 1 \in 1 .. Len(networkUpdates) /\ First = networkUpdates[1]
      BY <3>1 DEF First
    <3>3. ~First.online  BY <3>2 DEF ChainInv, NoOnlineRequest
    <3> QED BY <2>1, <3>3 DEF SetOnline
  <2>2. CASE UNCHANGED is_online  BY <2>2
  <2> QED
    BY <2>1, <2>2
    DEF Next, Chain, Native, SetOnlineStatus, SetOfflineMode, Invoke, FlushDelivers,
        FlushAcknowledges, FlushReturns, CountPending, Confirm, Rejected, Refresh,
        RefreshQueue, RefreshArrives, RecordEvent
<1> QED BY <1>1, InitChain, NextChain, PTL DEF Spec, OperatorOfflineHolds

(* Only a step taken while the native runtime is online delivers events.   *)
THEOREM OnlineDelivery == Spec => DeliversOnlyOnline
<1>1. ChainInv /\ [Next]_vars => [delivered' # delivered => is_online]_vars
  <2> SUFFICES ASSUME ChainInv, Next, delivered' # delivered PROVE is_online
    OBVIOUS
  <2>1. CASE FlushDelivers  BY <2>1 DEF FlushDelivers, ChainInv, FirstInForce
  <2>2. CASE UNCHANGED delivered  BY <2>2
  <2> QED
    BY <2>1, <2>2
    DEF Next, Chain, Native, SetOnlineStatus, SetOfflineMode, ApplyNetworkMode, Invoke,
        SetOnline, FlushAcknowledges, FlushReturns, CountPending, Confirm, Rejected,
        Refresh, RefreshQueue, RefreshArrives, RecordEvent, trailVars, Trail!Forget,
        Trail!Record
<1> QED BY <1>1, InitChain, NextChain, PTL DEF Spec, DeliversOnlyOnline

(* A settled web view never shows a missing queue status without an error, *)
(* except before the first request.                                        *)
THEOREM UnknownHasReason == Spec => []UnknownIsExplained
<1>1. Init => UnknownIsExplained  BY DEF Init, UnknownIsExplained
<1>2. ChainInv /\ UnknownIsExplained /\ [Next]_vars => UnknownIsExplained'
  <2> SUFFICES ASSUME ChainInv, UnknownIsExplained, [Next]_vars PROVE UnknownIsExplained'
    OBVIOUS
  <2> USE DEF UnknownIsExplained
  <2>1. ASSUME networkBusy' PROVE UnknownIsExplained'  BY <2>1
  <2>2. ASSUME UNCHANGED <<networkBusy, networkError, networkRequests, queue>>
        PROVE  UnknownIsExplained'
    BY <2>2
  <2>3. ASSUME NEW host, NEW offline, ApplyNetworkMode(host, offline)
        PROVE  UnknownIsExplained'
    BY <2>3 DEF ApplyNetworkMode
  <2>4. CASE Confirm
    <3>1. networkBusy' = networkBusy /\ networkBusy
      BY <2>4 DEF Confirm, ChainInv, BusyWhileUpdating, TypeOK
    <3> QED BY <2>1, <3>1
  <2>5. CASE Rejected  BY <2>5 DEF Rejected
  <2>6. ASSUME NEW status, ShowQueue(status), UNCHANGED networkRequests, ~networkBusy'
        PROVE  UnknownIsExplained'
    BY <2>6 DEF ShowQueue
  <2>7. ASSUME NEW status, Refresh(status) PROVE UnknownIsExplained'
    BY <2>1, <2>6, <2>7 DEF Refresh
  <2>8. CASE RefreshArrives  BY <2>1, <2>6, <2>8 DEF RefreshArrives, chainVars
  <2> QED
    BY <2>2, <2>3, <2>4, <2>5, <2>7, <2>8
    DEF Next, Chain, Native, SetOnlineStatus, SetOfflineMode, Invoke, SetOnline,
        FlushDelivers, FlushAcknowledges, FlushReturns, CountPending, RefreshQueue,
        RecordEvent, vars, shownVars, chainVars, refreshVars
<1> QED BY <1>1, <1>2, InitChain, NextChain, PTL DEF Spec

-------------------------------------------------------------------------------
(* The operator's offline mode, and the audit queue.                       *)

QuietStep == offlineMode => delivered' = delivered /\ pending \subseteq pending'

\* No flush is under way while offline mode is selected.
LEMMA NoFlushOffline ==
  ASSUME ChainInv, offlineMode
  PROVE  stage # "flush"
<1> SUFFICES ASSUME stage = "flush" PROVE FALSE  OBVIOUS
<1>1. networkUpdates \in Seq(Request) /\ networkUpdates # <<>>  BY DEF ChainInv, TypeOK
<1>2. 1 \in 1 .. Len(networkUpdates) /\ First = networkUpdates[1]  BY <1>1 DEF First
<1>3. ~First.online  BY <1>2 DEF ChainInv, NoOnlineRequest
<1>4. is_online = First.online /\ is_online  BY DEF ChainInv, FirstInForce, Applied
<1> QED BY <1>3, <1>4

(* From the click on "offline" until the mode is left, no event leaves the *)
(* device and none is forgotten by it, although a click comes at any       *)
(* moment of an earlier transition (set_network_status, app-store.ts).     *)
THEOREM OfflineIsQuiet == Spec => [][QuietStep]_vars
<1>1. ChainInv /\ [Next]_vars => [QuietStep]_vars
  <2> SUFFICES ASSUME ChainInv, Next, offlineMode PROVE delivered' = delivered /\ pending \subseteq pending'
    BY DEF QuietStep
  <2>1. ~FlushDelivers /\ ~FlushAcknowledges
    BY NoFlushOffline DEF FlushDelivers, FlushAcknowledges
  <2>2. CASE RecordEvent  BY <2>2 DEF RecordEvent, Trail!Record
  <2>3. CASE UNCHANGED trailVars  BY <2>3 DEF trailVars
  <2> QED
    BY <2>1, <2>2, <2>3
    DEF Next, Chain, Native, SetOnlineStatus, SetOfflineMode, ApplyNetworkMode, Invoke, SetOnline,
        FlushReturns, CountPending, Confirm, Rejected, Refresh, RefreshQueue, RefreshArrives
<1> QED BY <1>1, InitChain, NextChain, PTL DEF Spec

(* The kiosk uses its audit queue as the audit trail allows.               *)
LEMMA TrailSteps == [Next]_vars => [Trail!Next]_(Trail!vars)
<1> SUFFICES ASSUME [Next]_vars PROVE [Trail!Next]_(Trail!vars)  OBVIOUS
<1>1. CASE UNCHANGED trailVars  BY <1>1 DEF trailVars, Trail!vars
<1>2. CASE FlushDelivers  BY <1>2 DEF FlushDelivers, Trail!Next
<1>3. CASE FlushAcknowledges  BY <1>3 DEF FlushAcknowledges, Trail!Next
<1>4. CASE RecordEvent  BY <1>4 DEF RecordEvent, Trail!Next
<1> QED
  BY <1>1, <1>2, <1>3, <1>4
  DEF Next, Chain, Native, SetOnlineStatus, SetOfflineMode, ApplyNetworkMode, Invoke, SetOnline,
      FlushReturns, CountPending, Confirm, Rejected, Refresh, RefreshQueue, RefreshArrives, vars

LEMMA TrailInit == Init => Trail!Init
<1>1. 1 .. 0 = {}  OBVIOUS
<1> QED BY <1>1 DEF Init, Trail!Init

(* The mode of the kiosk implements the audit trail beside the reporter:   *)
(* what is proved of the trail holds of events recorded and delivered in   *)
(* any order with mode changes.                                            *)
THEOREM KioskImplementsTrail == Spec => Trail!Spec
BY TrailInit, TrailSteps, PTL DEF Spec, Trail!Spec

\* What every audit trail keeps: an event is on the device or at the endpoint,
\* which holds a beginning of the record.
TrailKept ==
  /\ recorded \in Nat
  /\ \A e \in 1 .. recorded : e \in pending \/ e \in delivered
  /\ delivered \subseteq 1 .. recorded
  /\ \A e \in delivered : 1 .. e \subseteq delivered

LEMMA TrailStep == TrailKept /\ [Trail!Next]_(Trail!vars) => TrailKept'
<1> SUFFICES ASSUME TrailKept, [Trail!Next]_(Trail!vars) PROVE TrailKept'  OBVIOUS
<1>1. CASE Trail!Record
  <2>1. /\ recorded \in Nat /\ recorded' = recorded + 1
        /\ pending' = pending \cup {recorded'} /\ delivered' = delivered
    BY <1>1 DEF Trail!Record, TrailKept
  <2>2. 1 .. recorded' = (1 .. recorded) \cup {recorded'}  BY <2>1
  <2> QED BY <2>1, <2>2 DEF TrailKept
<1>2. CASE Trail!Deliver
  BY <1>2 DEF Trail!Deliver, TrailKept
<1>3. CASE Trail!Forget
  BY <1>3 DEF Trail!Forget, TrailKept
<1>4. CASE UNCHANGED Trail!vars
  BY <1>4 DEF Trail!vars, TrailKept
<1> QED BY <1>1, <1>2, <1>3, <1>4 DEF Trail!Next

(* The abstract trail loses nothing and delivers in order.                 *)
THEOREM TrailLosesNothing == Trail!Spec => []TrailKept
<1>1. Trail!Init => TrailKept  BY DEF Trail!Init, TrailKept
<1> QED BY <1>1, TrailStep, PTL DEF Trail!Spec

(* No mode change, failed transition or click loses an audit event or      *)
(* reorders what the endpoint holds.                                       *)
THEOREM KioskLosesNothing == Spec => []TrailKept
BY KioskImplementsTrail, TrailLosesNothing, PTL

-------------------------------------------------------------------------------
(* Why the web view gets idle again.                                       *)

\* Steps of the first request that are behind it.
Done ==
  CASE stage = "idle"    -> 0
    [] stage = "invoked" -> 1
    [] stage = "flush"   -> 2
    [] stage = "count"   -> 3
    [] stage = "answer"  -> 4
    [] OTHER             -> 5

\* Steps until the promise chain has settled.
Work == 6 * Len(networkUpdates) - Done

LEMMA WorkTyped ==
  ASSUME ChainInv
  PROVE  Work \in Nat /\ Done \in 0 .. 5 /\ Len(networkUpdates) \in Nat
         /\ (Work = 0 <=> ~networkBusy)
<1>1. networkUpdates \in Seq(Request) /\ Len(networkUpdates) \in Nat
  BY DEF ChainInv, TypeOK
<1>2. Done \in 0 .. 5 /\ (stage = "idle" => Done = 0)  BY DEF Done
<1>3. stage # "idle" => Len(networkUpdates) # 0  BY <1>1 DEF ChainInv, TypeOK
<1>4. Work \in Nat /\ (Work = 0 <=> Len(networkUpdates) = 0)  BY <1>1, <1>2, <1>3 DEF Work
<1>5. networkBusy <=> Len(networkUpdates) # 0  BY <1>1 DEF ChainInv, BusyWhileUpdating
<1> QED BY <1>1, <1>2, <1>4, <1>5

\* What a step does to it: only a delivery within a flush, which has a bound of
\* its own, is no progress of the chain, and only a new request adds to it.
WorkShrinks ==
  /\ Chain /\ delivered' = delivered => Work' < Work \/ UNCHANGED vars
  /\ Chain => Work' <= Work
  /\ ~Chain => Work' = IF networkRequests' = networkRequests THEN Work ELSE Work + 6

LEMMA SettleShrinks ==
  ASSUME ChainInv, stage # "idle", Settle
  PROVE  Work' < Work
<1>1. Len(networkUpdates') = Len(networkUpdates) - 1 /\ stage' = "idle"
      /\ Len(networkUpdates) \in Nat
  BY SettleTyped DEF ChainInv
<1>2. Done' = 0 /\ Done \in 0 .. 5  BY <1>1 DEF Done
<1>3. Work' = 6 * (Len(networkUpdates) - 1)  BY <1>1, <1>2 DEF Work
<1> QED BY <1>1, <1>2, <1>3 DEF Work

LEMMA ChainShrinks ==
  ASSUME ChainInv, Chain
  PROVE  Work' < Work \/ (FlushDelivers /\ Work' = Work)
<1>0. Len(networkUpdates) \in Nat  BY DEF ChainInv, TypeOK
<1>1. ASSUME networkUpdates' = networkUpdates, Done' > Done PROVE Work' < Work
  <2>1. Done \in 0 .. 5 /\ Done' \in 0 .. 5  BY DEF Done
  <2> QED BY <1>0, <1>1, <2>1 DEF Work
<1>2. CASE Invoke  BY <1>1, <1>2 DEF Invoke, Done
<1>3. CASE SetOnline  BY <1>1, <1>3 DEF SetOnline, Done
<1>4. CASE FlushAcknowledges  BY <1>1, <1>4 DEF FlushAcknowledges, Done
<1>5. CASE \E error \in BOOLEAN : FlushReturns(error) \/ CountPending(error)
  BY <1>1, <1>5 DEF FlushReturns, CountPending, Done
<1>6. CASE Confirm  BY <1>1, <1>6 DEF Confirm, Done
<1>7. CASE Rejected  BY <1>7, SettleShrinks DEF Rejected
<1>8. CASE \E status \in Statuses : Refresh(status)  BY <1>8, SettleShrinks DEF Refresh
<1>9. CASE FlushDelivers  BY <1>9 DEF FlushDelivers, chainVars, Work, Done
<1> QED
  BY <1>2, <1>3, <1>4, <1>5, <1>6, <1>7, <1>8, <1>9 DEF Chain, Native

LEMMA OthersKeepWork ==
  ASSUME ChainInv, [Next]_vars, ~Chain
  PROVE  Work' = IF networkRequests' = networkRequests THEN Work ELSE Work + 6
<1>0. networkUpdates \in Seq(Request) /\ Len(networkUpdates) \in Nat /\ networkRequests \in Nat
  BY NetworkAssumption DEF ChainInv, TypeOK, NetworkAssumption
<1>1. ASSUME NEW host, NEW offline, ApplyNetworkMode(host, offline)
      PROVE  networkRequests' # networkRequests /\ Work' = Work + 6
  <2>1. Len(networkUpdates') = Len(networkUpdates) + 1 /\ stage' = stage
        /\ networkRequests' = networkRequests + 1
    BY <1>0, <1>1 DEF ApplyNetworkMode
  <2>2. Done' = Done /\ Done \in 0 .. 5  BY <2>1 DEF Done
  <2> QED BY <1>0, <2>1, <2>2 DEF Work
<1>2. ASSUME UNCHANGED chainVars PROVE networkRequests' = networkRequests /\ Work' = Work
  BY <1>2 DEF chainVars, Work, Done
<1> QED
  BY <1>1, <1>2
  DEF Next, SetOnlineStatus, SetOfflineMode, RefreshQueue, RefreshArrives, RecordEvent, vars

(* The safety half of "the buttons come back": the web view is busy        *)
(* exactly while work is left, each step of the promise chain does a part  *)
(* of it but for the deliveries of a flush, and nothing else adds to it    *)
(* but a new request.  That the steps are taken is BusyEnds, for TLC.      *)
THEOREM WorkRunsOut ==
  Spec => /\ [](Work \in Nat /\ (Work = 0 <=> ~networkBusy))
          /\ [][WorkShrinks]_vars
<1>1. ChainInv => Work \in Nat /\ (Work = 0 <=> ~networkBusy)  BY WorkTyped
<1>2. (ChainInv => Work \in Nat)'  BY <1>1, PTL
<1>3. ChainInv /\ [Next]_vars => [WorkShrinks]_vars
  <2> SUFFICES ASSUME ChainInv, [Next]_vars PROVE WorkShrinks \/ UNCHANGED vars
    OBVIOUS
  <2>1. CASE Chain
    <3>1. Work \in Nat /\ Work' \in Nat  BY NextChain, WorkTyped, <1>2
    <3>2. FlushDelivers /\ delivered' = delivered => UNCHANGED vars
      BY DEF FlushDelivers, Trail!Deliver, vars, trailVars
    <3>3. Work' < Work \/ (FlushDelivers /\ Work' = Work)  BY <2>1, ChainShrinks
    <3>4. Work' <= Work  BY <3>1, <3>3
    <3>5. delivered' = delivered => Work' < Work \/ UNCHANGED vars  BY <3>2, <3>3
    <3> QED BY <2>1, <3>4, <3>5 DEF WorkShrinks
  <2>2. CASE ~Chain  BY <2>2, OthersKeepWork DEF WorkShrinks
  <2> QED BY <2>1, <2>2
<1> QED BY <1>1, <1>3, InitChain, NextChain, PTL DEF Spec
===============================================================================
