---------------------------- MODULE ReportingProofs ---------------------------
(***************************************************************************)
(* Proofs about Reporting, for every number of verifications and flushes,  *)
(* every configuration, batch size and queue limit.                        *)
(***************************************************************************)
EXTENDS Reporting, FiniteSetTheorems, TLAPS

\* A batch awaiting its acknowledgement has reached the endpoint.
AckedIsReceived == \A f \in Flushers : fpc[f] = "ack" => batch[f] \subseteq received

\* Whatever is older than a row of a batch is in the batch or already received.
BatchesAreOldest ==
  \A f \in Flushers : \A e \in batch[f] : \A d \in 1 .. e :
    d \in batch[f] \/ d \in received

DeliveryInv ==
  /\ TypeOK
  /\ NoEventLost
  /\ DeliveredInOrder
  /\ AckedIsReceived
  /\ BatchesAreOldest

\* Verifications that passed the limit and have yet to insert their row.
Inserting == {v \in Verifiers : vpc[v] = "insert"}

\* Each verification past the check may add a row; a passed check leaves a place.
Overshoot ==
  Cardinality(queue) + Cardinality(Inserting) < MaxLimit + Cardinality(Verifiers)

-------------------------------------------------------------------------------
(* The number of retries a flush allows itself is within the cap.          *)
LEMMA RetriesCapped ==
  ASSUME NEW c \in ReportingConfig
  PROVE  AllowedRetries(c) \in 0 .. RetryCap
<1> DEFINE S == {c.max_retries, RetryCap}
<1>1. c.max_retries \in Nat /\ RetryCap \in Nat
  BY ReportingAssumption DEF ReportingConfig, ReportingAssumption
<1>2. \E x \in S : \A y \in S : x <= y
  <2>1. CASE c.max_retries <= RetryCap  BY <1>1, <2>1
  <2>2. CASE ~(c.max_retries <= RetryCap)  BY <1>1, <2>2
  <2> QED BY <2>1, <2>2
<1>3. Min(S) \in S /\ \A y \in S : Min(S) <= y
  BY <1>2 DEF Min
<1> QED BY <1>1, <1>3 DEF AllowedRetries

(* A set of row numbers is finite.                                         *)
LEMMA RowsAreFinite ==
  ASSUME NEW n \in Nat, NEW S \in SUBSET (1 .. n)
  PROVE  IsFiniteSet(S)
<1>1. IsFiniteSet(1 .. n)  BY FS_Interval, 1 \in Int, n \in Int
<1> QED BY <1>1, FS_Subset

(* get_pending_events returns a beginning of the queue: a row older than   *)
(* one it returns is returned too.                                         *)
LEMMA OldestFirst ==
  ASSUME TypeOK, NEW e \in PendingEvents, NEW d \in queue, d < e
  PROVE  d \in PendingEvents
<1> DEFINE Older(x) == {y \in queue : y < x}
<1>1. inserted \in Nat /\ queue \subseteq 1 .. inserted
  BY ReportingAssumption DEF TypeOK, ReportingAssumption
<1>2. IsFiniteSet(queue)  BY <1>1, RowsAreFinite
<1>3. IsFiniteSet(Older(e))  BY <1>2, FS_Subset
<1>4. e \in queue /\ Cardinality(Older(e)) < BatchSize  BY DEF PendingEvents
<1>5. Older(d) \subseteq Older(e)
  <2> SUFFICES ASSUME NEW y \in queue, y < d PROVE y < e  OBVIOUS
  <2>1. y \in Int /\ d \in Int /\ e \in Int  BY <1>1, <1>4
  <2> QED BY <2>1
<1>6. /\ IsFiniteSet(Older(d)) 
      /\ Cardinality(Older(d)) \in Nat /\ Cardinality(Older(e)) \in Nat
      /\ Cardinality(Older(d)) <= Cardinality(Older(e))
  BY <1>3, <1>5, FS_Subset, FS_CardinalityType
<1>7. Cardinality(Older(d)) < BatchSize
  BY <1>4, <1>6, ReportingAssumption DEF ReportingAssumption
<1> QED BY <1>7 DEF PendingEvents

-------------------------------------------------------------------------------
LEMMA InitTypeOK == Init => TypeOK
<1> SUFFICES ASSUME Init PROVE TypeOK  OBVIOUS
<1>1. NoConfig \in Configs  BY DEF Init, NoConfig
<1> QED BY <1>1, ReportingAssumption DEF Init, TypeOK, ReportingAssumption

(* A flush that returns leaves well-typed locals behind.                   *)
LEMMA ReturnTyped ==
  ASSUME TypeOK, NEW f \in Flushers, Return(f)
  PROVE  /\ fpc' \in [Flushers -> {"idle", "load", "send", "ack", "fail"}]
         /\ fconfig' \in [Flushers -> Configs]
         /\ batch' \in [Flushers -> SUBSET (1 .. inserted)]
         /\ attempt' \in [Flushers -> 0 .. RetryCap]
<1>1. NoConfig \in Configs  BY DEF NoConfig, TypeOK
<1>2. 0 \in 0 .. RetryCap  BY ReportingAssumption DEF ReportingAssumption
<1> QED BY <1>1, <1>2 DEF Return, TypeOK

LEMMA NextTypeOK == TypeOK /\ [Next]_vars => TypeOK'
<1> SUFFICES ASSUME TypeOK, [Next]_vars PROVE TypeOK'  OBVIOUS
<1> USE DEF TypeOK
<1>0. /\ LegacyRows \in Nat /\ MaxEvents \in Nat /\ inserted \in Nat
      /\ MaxLimit \in Nat /\ RetryCap \in Nat /\ MaxCrashes \in Nat
      /\ Configs \subseteq ReportingConfig
  BY ReportingAssumption DEF ReportingAssumption
<1>1. NoConfig \in Configs  BY DEF NoConfig
<1>2. ASSUME NEW v \in Verifiers, QueueStart(v) PROVE TypeOK'
  <2>1. config.max_queue_size \in 0 .. MaxLimit  BY <1>0 DEF ReportingConfig
  <2> QED BY <1>2, <2>1 DEF QueueStart, storageVars, flusherVars
<1>3. ASSUME NEW v \in Verifiers, QueueCheck(v) PROVE TypeOK'
  <2>1. vpc' \in [Verifiers -> {"idle", "check", "insert"}]  BY <1>3 DEF QueueCheck
  <2>2. limit' \in [Verifiers -> 0 .. MaxLimit]  BY <1>0, <1>3 DEF QueueCheck
  <2> QED BY <1>3, <2>1, <2>2 DEF QueueCheck, storageVars, flusherVars
<1>4. ASSUME NEW v \in Verifiers, QueueInsert(v) PROVE TypeOK'
  <2>1. /\ inserted' = inserted + 1 /\ inserted' \in LegacyRows .. MaxEvents
        /\ 1 .. inserted \subseteq 1 .. inserted'
    BY <1>0, <1>4 DEF QueueInsert
  <2>2. queue' \subseteq 1 .. inserted' /\ errored' \subseteq queue'
    BY <1>0, <1>4, <2>1 DEF QueueInsert
  <2>3. received' \subseteq 1 .. inserted' /\ batch' \in [Flushers -> SUBSET (1 .. inserted')]
    BY <1>4, <2>1 DEF QueueInsert, flusherVars
  <2> QED BY <1>4, <2>1, <2>2, <2>3 DEF QueueInsert, flusherVars
<1>5. ASSUME NEW f \in Flushers, FlushStart(f) PROVE TypeOK'
  BY <1>5 DEF FlushStart, storageVars, verifierVars
<1>6. ASSUME NEW f \in Flushers, FlushLoad(f) PROVE TypeOK'
  <2>1. PendingEvents \subseteq queue  BY DEF PendingEvents
  <2>2. AfterLoad(fconfig[f], PendingEvents) \in {"idle", "fail", "send"}
    BY DEF AfterLoad
  <2>3. fpc' \in [Flushers -> {"idle", "load", "send", "ack", "fail"}]
    BY <1>6, <2>2 DEF FlushLoad
  <2>4. batch' \in [Flushers -> SUBSET (1 .. inserted)]
    BY <1>6, <2>1 DEF FlushLoad
  <2> QED BY <1>6, <2>3, <2>4 DEF FlushLoad, storageVars, verifierVars
<1>7. ASSUME NEW f \in Flushers, SendAccepted(f) PROVE TypeOK'
  BY <1>7 DEF SendAccepted, storageVars, verifierVars
<1>8. ASSUME NEW f \in Flushers, received' \in {received, received \cup batch[f]},
             GiveUpOrRetry(f),
             UNCHANGED <<config, storageVars, verifierVars, fconfig, batch, crashes>>
      PROVE  TypeOK'
  <2>1. received' \subseteq 1 .. inserted  BY <1>8
  <2>2. fpc' \in [Flushers -> {"idle", "load", "send", "ack", "fail"}]
    BY <1>8 DEF GiveUpOrRetry
  <2>3. attempt' \in [Flushers -> 0 .. RetryCap]
    <3>1. fconfig[f] \in ReportingConfig  BY <1>0
    <3>2. AllowedRetries(fconfig[f]) \in 0 .. RetryCap  BY <3>1, RetriesCapped
    <3>3. attempt[f] < AllowedRetries(fconfig[f]) => attempt[f] + 1 \in 0 .. RetryCap
      BY <1>0, <3>2
    <3> QED BY <1>8, <3>3 DEF GiveUpOrRetry
  <2> QED BY <1>8, <2>1, <2>2, <2>3 DEF storageVars, verifierVars
<1>16. ASSUME NEW f \in Flushers, SendFailed(f) \/ Unauthorized(f) PROVE TypeOK'
  BY <1>8, <1>16 DEF SendFailed, Unauthorized
<1>9. ASSUME NEW f \in Flushers, FlushAck(f) PROVE TypeOK'
  <2>1. queue' \subseteq queue /\ errored' \subseteq queue'  BY <1>9 DEF FlushAck
  <2> QED BY <1>9, <2>1, ReturnTyped DEF FlushAck, verifierVars
<1>10. ASSUME NEW f \in Flushers, FlushFail(f) PROVE TypeOK'
  <2>1. errored' \subseteq queue  BY <1>10 DEF FlushFail
  <2> QED BY <1>10, <2>1, ReturnTyped DEF FlushFail, verifierVars
<1>14. ASSUME NEW v \in Verifiers, QueueFails(v) PROVE TypeOK'
  BY <1>0, <1>14 DEF QueueFails, storageVars, flusherVars
<1>15. ASSUME NEW f \in Flushers, FlushAborts(f) PROVE TypeOK'
  BY <1>15, ReturnTyped DEF FlushAborts, storageVars, verifierVars
<1>11. ASSUME NEW c \in Configs, SetConfig(c) PROVE TypeOK'
  BY <1>11 DEF SetConfig, storageVars, verifierVars, flusherVars
<1>12. CASE Crash  BY <1>0, <1>1, <1>12 DEF Crash, storageVars
<1>13. CASE UNCHANGED vars
  BY <1>13 DEF vars, storageVars, verifierVars, flusherVars
<1> QED
  BY <1>2, <1>3, <1>4, <1>5, <1>6, <1>7, <1>9, <1>10, <1>11, <1>12, <1>13,
     <1>14, <1>15, <1>16
  DEF Next, Verify, Flush

(* Every reachable state of the reporter is well typed; in particular no   *)
(* flush counts past the retry cap, whatever max_retries an operator saved,*)
(* and the rows that carry an error are rows that are still queued.        *)
THEOREM TypeCorrect == Spec => []TypeOK
BY InitTypeOK, NextTypeOK, PTL DEF Spec

-------------------------------------------------------------------------------
(* Nothing the endpoint has stored is ever forgotten.                      *)
LEMMA ReceivedGrows == TypeOK /\ [Next]_vars => received \subseteq received'
BY DEF Next, Verify, Flush, QueueStart, QueueCheck, QueueInsert, FlushStart,
       FlushLoad, SendAccepted, SendFailed, Unauthorized, FlushAck, FlushFail, FlushAborts,
       QueueFails, SetConfig, Crash, storageVars, vars

LEMMA InitDelivery == Init => DeliveryInv
<1> SUFFICES ASSUME Init PROVE DeliveryInv  OBVIOUS
<1>1. TypeOK  BY InitTypeOK
<1> QED BY <1>1 DEF Init, DeliveryInv, NoEventLost, DeliveredInOrder, AckedIsReceived,
             BatchesAreOldest

LEMMA NextDelivery == DeliveryInv /\ [Next]_vars => DeliveryInv'
<1> SUFFICES ASSUME DeliveryInv, [Next]_vars PROVE DeliveryInv'  OBVIOUS
<1>0. TypeOK /\ TypeOK' /\ inserted \in Nat
  BY NextTypeOK, ReportingAssumption DEF DeliveryInv, TypeOK, ReportingAssumption
<1> DEFINE Delivery == NoEventLost /\ DeliveredInOrder /\ AckedIsReceived /\ BatchesAreOldest
<1>1. Delivery  BY DEF DeliveryInv
<1> SUFFICES Delivery'  BY <1>0 DEF DeliveryInv
<1> USE DEF TypeOK, NoEventLost, DeliveredInOrder, AckedIsReceived, BatchesAreOldest
\* Steps that touch neither the rows nor a flush.
<1>2. ASSUME UNCHANGED <<queue, inserted, received, fpc, batch>> PROVE Delivery'
  BY <1>1, <1>2
<1>3. ASSUME NEW v \in Verifiers, QueueInsert(v) PROVE Delivery'
  BY <1>0, <1>1, <1>3 DEF QueueInsert, flusherVars
<1>4. ASSUME NEW f \in Flushers, FlushStart(f) PROVE Delivery'
  BY <1>0, <1>1, <1>4 DEF FlushStart, storageVars
<1>5. ASSUME NEW f \in Flushers, FlushLoad(f) PROVE Delivery'
  <2>1. AfterLoad(fconfig[f], PendingEvents) # "ack"  BY DEF AfterLoad
  <2>2. \A e \in PendingEvents : \A d \in 1 .. e : d \in PendingEvents \/ d \in received
    <3> SUFFICES ASSUME NEW e \in PendingEvents, NEW d \in 1 .. e, d \notin received
                 PROVE  d \in PendingEvents
      OBVIOUS
    <3>1. e \in queue /\ e \in 1 .. inserted  BY <1>0 DEF PendingEvents
    <3>2. d \in 1 .. inserted /\ (d < e \/ d = e)  BY <1>0, <3>1
    <3>3. d \in queue  BY <1>1, <3>2
    <3> QED BY <1>0, <3>2, <3>3, OldestFirst
  <2>3. AckedIsReceived'  BY <1>0, <1>1, <1>5, <2>1 DEF FlushLoad, storageVars
  <2>4. batch'[f] = {} \/ batch'[f] = PendingEvents  BY <1>0, <1>5 DEF FlushLoad
  <2>5. \A g \in Flushers : g # f => batch'[g] = batch[g]  BY <1>0, <1>5 DEF FlushLoad
  <2>6. BatchesAreOldest'
    <3> SUFFICES ASSUME NEW g \in Flushers, NEW e \in batch'[g], NEW d \in 1 .. e
                 PROVE  d \in batch'[g] \/ d \in received'
      OBVIOUS
    <3>1. received' = received  BY <1>5 DEF FlushLoad
    <3>2. CASE g = f  BY <2>2, <2>4, <3>1, <3>2
    <3>3. CASE g # f  BY <1>1, <2>5, <3>1, <3>3
    <3> QED BY <3>2, <3>3
  <2> QED BY <1>1, <1>5, <2>3, <2>6 DEF FlushLoad, storageVars
<1>6. ASSUME NEW f \in Flushers, received' \in {received, received \cup batch[f]},
             UNCHANGED <<queue, inserted, batch>>,
             \/ UNCHANGED fpc
             \/ fpc' = [fpc EXCEPT ![f] = "fail"]
             \/ fpc' = [fpc EXCEPT ![f] = "ack"] /\ received' = received \cup batch[f]
      PROVE  Delivery'
  <2>1. DeliveredInOrder'  BY <1>1, <1>6
  <2>2. AckedIsReceived'  BY <1>0, <1>1, <1>6
  <2> QED BY <1>1, <1>6, <2>1, <2>2
<1>7. ASSUME NEW f \in Flushers, SendAccepted(f) PROVE Delivery'
  BY <1>6, <1>7 DEF SendAccepted, storageVars
<1>8. ASSUME NEW f \in Flushers, SendFailed(f) \/ Unauthorized(f) PROVE Delivery'
  BY <1>6, <1>8 DEF SendFailed, Unauthorized, GiveUpOrRetry, storageVars
<1>9. ASSUME NEW f \in Flushers, Return(f), queue' \subseteq queue,
             queue \ queue' \subseteq received, UNCHANGED <<inserted, received>>
      PROVE  Delivery'
  <2>1. \A g \in Flushers : batch'[g] \subseteq batch[g] /\ (fpc'[g] = "ack" => fpc[g] = "ack")
    BY <1>0, <1>9 DEF Return
  <2>2. \A g \in Flushers : batch'[g] = {} \/ batch'[g] = batch[g]
    BY <1>0, <1>9 DEF Return
  <2> QED BY <1>0, <1>1, <1>9, <2>1, <2>2
<1>10. ASSUME NEW f \in Flushers, FlushAck(f) PROVE Delivery'
  <2>1. batch[f] \subseteq received  BY <1>1, <1>10 DEF FlushAck
  <2> QED BY <1>9, <1>10, <2>1 DEF FlushAck
<1>11. ASSUME NEW f \in Flushers, FlushFail(f) PROVE Delivery'
  BY <1>9, <1>11 DEF FlushFail
<1>13. ASSUME NEW f \in Flushers, FlushAborts(f) PROVE Delivery'
  BY <1>9, <1>13 DEF FlushAborts, storageVars
<1>12. CASE Crash  BY <1>0, <1>1, <1>12 DEF Crash, storageVars
<1> QED
  BY <1>2, <1>3, <1>4, <1>5, <1>7, <1>8, <1>10, <1>11, <1>12, <1>13
  DEF Next, Verify, Flush, QueueStart, QueueCheck, QueueFails, SetConfig, storageVars, flusherVars, vars

(* No verification event is lost between the device and the endpoint: at   *)
(* every moment it is queued or received, although flushes overlap without *)
(* a lock, lose acknowledgements, retry, fail and die with the process.    *)
THEOREM NothingLost == Spec => []NoEventLost
<1>1. DeliveryInv => NoEventLost  BY DEF DeliveryInv
<1> QED BY <1>1, InitDelivery, NextDelivery, PTL DEF Spec

(* The endpoint holds a beginning of the record of events, never one with  *)
(* a hole in it, for every batch size and every set of concurrent flushes. *)
THEOREM InOrder == Spec => []DeliveredInOrder
<1>1. DeliveryInv => DeliveredInOrder  BY DEF DeliveryInv
<1> QED BY <1>1, InitDelivery, NextDelivery, PTL DEF Spec

-------------------------------------------------------------------------------
(* Queue and verifications past the check are finite sets.                 *)
LEMMA CountsAreNaturals ==
  ASSUME TypeOK
  PROVE  /\ IsFiniteSet(queue) /\ Cardinality(queue) \in Nat
         /\ IsFiniteSet(Inserting) /\ Cardinality(Inserting) \in Nat
         /\ Cardinality(Inserting) <= Cardinality(Verifiers)
         /\ Cardinality(Verifiers) \in Nat \ {0}
<1>1. IsFiniteSet(Verifiers) /\ Verifiers # {}
  BY ReportingAssumption DEF ReportingAssumption
<1>2. inserted \in Nat  BY ReportingAssumption DEF TypeOK, ReportingAssumption
<1>3. IsFiniteSet(queue)  BY <1>2, RowsAreFinite DEF TypeOK
<1>4. Inserting \subseteq Verifiers  BY DEF Inserting
<1>5. Cardinality(Verifiers) # 0  BY <1>1, FS_EmptySet
<1> QED BY <1>1, <1>3, <1>4, <1>5, FS_Subset, FS_CardinalityType

(* Deleting rows and finishing verifications keeps the sum bounded.        *)
LEMMA OvershootShrinks ==
  ASSUME TypeOK, TypeOK', Overshoot, queue' \subseteq queue, Inserting' \subseteq Inserting
  PROVE  Overshoot'
<1>1. /\ Cardinality(queue)' <= Cardinality(queue)
      /\ Cardinality(Inserting)' <= Cardinality(Inserting)
  BY CountsAreNaturals, FS_Subset
<1>2. /\ Cardinality(queue)' \in Nat /\ Cardinality(queue) \in Nat
      /\ Cardinality(Inserting)' \in Nat /\ Cardinality(Inserting) \in Nat
      /\ MaxLimit \in Nat /\ Cardinality(Verifiers) \in Nat
  <2>1. Cardinality(queue)' \in Nat /\ Cardinality(Inserting)' \in Nat
    <3>1. IsFiniteSet(queue') /\ IsFiniteSet(Inserting')  BY CountsAreNaturals, FS_Subset
    <3> QED BY <3>1, FS_CardinalityType
  <2> QED BY <2>1, CountsAreNaturals, ReportingAssumption DEF ReportingAssumption
<1> QED BY <1>1, <1>2 DEF Overshoot

LEMMA InitOvershoot == Init => Overshoot
<1> SUFFICES ASSUME Init PROVE Overshoot  OBVIOUS
<1>1. TypeOK  BY InitTypeOK
<1>2. LegacyRows \in Nat /\ LegacyRows <= MaxLimit /\ MaxLimit \in Nat
  BY ReportingAssumption DEF ReportingAssumption
<1>3. Cardinality(queue) = LegacyRows  BY <1>2, FS_Interval, 1 \in Int, LegacyRows \in Int DEF Init
<1>4. Cardinality(Inserting) = 0  BY FS_EmptySet DEF Init, Inserting
<1> QED BY <1>1, <1>2, <1>3, <1>4, CountsAreNaturals DEF Overshoot

LEMMA NextOvershoot == TypeOK /\ Overshoot /\ [Next]_vars => Overshoot'
<1> SUFFICES ASSUME TypeOK, Overshoot, [Next]_vars PROVE Overshoot'  OBVIOUS
<1>0. TypeOK'  BY NextTypeOK
<1>1. MaxLimit \in Nat  BY ReportingAssumption DEF ReportingAssumption
<1>2. ASSUME NEW v \in Verifiers, QueueCheck(v) PROVE Overshoot'
  <2>1. CASE HasRoom(limit[v])
    <3>1. limit[v] <= MaxLimit /\ limit[v] \in Nat  BY <1>1 DEF TypeOK
    <3>2. Cardinality(queue) < MaxLimit
      BY <1>1, <2>1, <3>1, CountsAreNaturals DEF HasRoom
    <3>3. queue' = queue  BY <1>2 DEF QueueCheck, storageVars
    <3>4. Inserting' \subseteq Verifiers  BY DEF Inserting
    <3>5. Cardinality(Inserting') <= Cardinality(Verifiers) /\ Cardinality(Inserting') \in Nat
      BY <3>4, FS_Subset, FS_CardinalityType, ReportingAssumption DEF ReportingAssumption
    <3>6. Overshoot' <=> Cardinality(queue') + Cardinality(Inserting')
                           < MaxLimit + Cardinality(Verifiers)
      BY DEF Overshoot
    <3> QED BY <1>1, <3>2, <3>3, <3>5, <3>6, CountsAreNaturals
  <2>2. CASE ~HasRoom(limit[v])
    <3>1. queue' = queue  BY <1>2 DEF QueueCheck, storageVars
    <3>2. Inserting' \subseteq Inserting
      BY <1>2, <2>2 DEF QueueCheck, Inserting, TypeOK
    <3> QED BY <1>0, <3>1, <3>2, OvershootShrinks
  <2> QED BY <2>1, <2>2
<1>3. ASSUME NEW v \in Verifiers, QueueInsert(v) PROVE Overshoot'
  <2>1. v \in Inserting /\ Inserting' = Inserting \ {v}
    BY <1>3 DEF QueueInsert, Inserting, TypeOK
  <2>2. Cardinality(Inserting') = Cardinality(Inserting) - 1
    BY <2>1, CountsAreNaturals, FS_RemoveElement
  <2>3. queue' = queue \cup {inserted'} /\ inserted' \notin queue
    <3>1. inserted \in Nat /\ inserted' = inserted + 1
      BY <1>3, ReportingAssumption DEF QueueInsert, TypeOK, ReportingAssumption
    <3> QED BY <1>3, <3>1 DEF QueueInsert, TypeOK
  <2>4. Cardinality(queue') = Cardinality(queue) + 1
    BY <2>3, CountsAreNaturals, FS_AddElement
  <2>5. Overshoot' <=> Cardinality(queue') + Cardinality(Inserting')
                         < MaxLimit + Cardinality(Verifiers)
    BY DEF Overshoot
  <2> QED BY <1>1, <2>2, <2>4, <2>5, CountsAreNaturals DEF Overshoot
<1>4. ASSUME queue' \subseteq queue, Inserting' \subseteq Inserting PROVE Overshoot'
  BY <1>0, <1>4, OvershootShrinks
<1>5. ASSUME NEW v \in Verifiers, QueueStart(v) PROVE Overshoot'
  <2>1. queue' = queue /\ Inserting' \subseteq Inserting
    BY <1>5 DEF QueueStart, storageVars, Inserting, TypeOK
  <2> QED BY <1>4, <2>1
<1>6. ASSUME NEW f \in Flushers, Flush(f) PROVE Overshoot'
  <2>1. queue' \subseteq queue /\ Inserting' = Inserting
    BY <1>6 DEF Flush, FlushStart, FlushLoad, SendAccepted, SendFailed, Unauthorized, FlushAck, FlushFail,
                FlushAborts, Inserting, storageVars, verifierVars
  <2> QED BY <1>4, <2>1
<1>9. ASSUME NEW v \in Verifiers, QueueFails(v) PROVE Overshoot'
  <2>1. queue' = queue /\ Inserting' \subseteq Inserting
    BY <1>9 DEF QueueFails, storageVars, Inserting, TypeOK
  <2> QED BY <1>4, <2>1
<1>7. CASE Crash
  <2>1. queue' = queue /\ Inserting' \subseteq Inserting
    BY <1>7 DEF Crash, storageVars, Inserting
  <2> QED BY <1>4, <2>1
<1>8. ASSUME UNCHANGED <<queue, vpc>> PROVE Overshoot'
  BY <1>4, <1>8 DEF Inserting
<1> QED
  BY <1>2, <1>3, <1>5, <1>6, <1>7, <1>8, <1>9
  DEF Next, Verify, SetConfig, storageVars, verifierVars, vars

(* The unlocked check of queue_event lets the queue pass max_queue_size by *)
(* less than the number of concurrent verifications, never by more.        *)
THEOREM OvershootBounded == Spec => []QueueOvershootBounded
<1>1. TypeOK /\ Overshoot => QueueOvershootBounded
  BY CountsAreNaturals, ReportingAssumption
  DEF Overshoot, QueueOvershootBounded, ReportingAssumption
<1> QED BY <1>1, InitTypeOK, NextTypeOK, InitOvershoot, NextOvershoot, PTL DEF Spec

-------------------------------------------------------------------------------
(* No step brings back a row that has left the queue.                      *)
THEOREM RowsStayGone == Spec => NeverRequeued
<1>1. TypeOK /\ [Next]_vars => [\A e \in 1 .. inserted : e \notin queue => e \notin queue']_vars
  <2> SUFFICES ASSUME TypeOK, Next, NEW e \in 1 .. inserted, e \notin queue
               PROVE  e \notin queue'
    OBVIOUS
  <2>1. inserted \in Nat  BY ReportingAssumption DEF TypeOK, ReportingAssumption
  <2>2. ASSUME NEW v \in Verifiers, Verify(v) PROVE e \notin queue'
    BY <2>1, <2>2 DEF Verify, QueueStart, QueueCheck, QueueInsert, QueueFails, storageVars
  <2>3. ASSUME NEW f \in Flushers, Flush(f) PROVE e \notin queue'
    BY <2>3 DEF Flush, FlushStart, FlushLoad, SendAccepted, SendFailed, Unauthorized, FlushAck, FlushFail,
                FlushAborts, storageVars
  <2> QED BY <2>2, <2>3 DEF Next, SetConfig, Crash, storageVars
<1> QED BY <1>1, TypeCorrect, PTL DEF Spec, NeverRequeued

-------------------------------------------------------------------------------
(* The queue, its flushes and the endpoint implement the audit trail: each *)
(* step records an event, delivers a beginning of the record, forgets      *)
(* delivered events, or is invisible.                                      *)
THEOREM QueueImplementsTrail == Spec => ImplementsAuditTrail
<1>1. Init => Trail!Init
  BY ReportingAssumption DEF Init, Trail!Init, ReportingAssumption
<1>2. DeliveryInv /\ [Next]_vars => [Trail!Next]_(Trail!vars)
  <2> SUFFICES ASSUME DeliveryInv, [Next]_vars PROVE [Trail!Next]_(Trail!vars)  OBVIOUS
  <2>0. TypeOK /\ inserted \in Nat
    BY ReportingAssumption DEF DeliveryInv, TypeOK, ReportingAssumption
  <2>1. ASSUME UNCHANGED <<inserted, queue, received>> PROVE UNCHANGED Trail!vars
    BY <2>1 DEF Trail!vars
  <2>2. ASSUME NEW v \in Verifiers, QueueInsert(v) PROVE Trail!Record
    BY <2>2 DEF QueueInsert, Trail!Record
  <2>3. ASSUME NEW f \in Flushers, UNCHANGED <<inserted, queue>>,
               received' \in {received, received \cup batch[f]}
        PROVE  Trail!Deliver
    <3>1. received' \subseteq 1 .. inserted  BY <2>0, <2>3 DEF TypeOK
    <3>2. ASSUME NEW e \in received', NEW d \in 1 .. e PROVE d \in received'
      <4>1. CASE e \in received  BY <2>3, <4>1 DEF DeliveryInv, DeliveredInOrder
      <4>2. CASE e \in batch[f] /\ received' = received \cup batch[f]
        BY <4>2 DEF DeliveryInv, BatchesAreOldest
      <4> QED BY <2>3, <4>1, <4>2
    <3> QED BY <2>3, <3>1, <3>2 DEF Trail!Deliver
  <2>4. ASSUME NEW f \in Flushers, FlushAck(f) PROVE Trail!Forget
    BY <2>4 DEF FlushAck, Trail!Forget, DeliveryInv, AckedIsReceived
  <2>5. ASSUME NEW f \in Flushers, Flush(f) PROVE [Trail!Next]_(Trail!vars)
    BY <2>1, <2>3, <2>4, <2>5
    DEF Flush, FlushStart, FlushLoad, SendAccepted, SendFailed, Unauthorized, FlushFail, FlushAborts,
        storageVars, Trail!Next
  <2> QED
    BY <2>1, <2>2, <2>5
    DEF Next, Verify, QueueStart, QueueCheck, QueueFails, SetConfig, Crash, storageVars, vars, Trail!Next
<1> QED
  BY <1>1, <1>2, InitDelivery, NextDelivery, PTL
  DEF Spec, ImplementsAuditTrail, Trail!Spec

-------------------------------------------------------------------------------
(* A flush ends.                                                           *)

\* Steps a flush may still take: the load, the attempts and the conclusion.
StepsLeft(f) ==
  CASE fpc[f] = "idle"            -> 0
    [] fpc[f] \in {"ack", "fail"} -> 1
    [] fpc[f] = "send"            -> 2 + RetryCap - attempt[f]
    [] OTHER                      -> 3 + RetryCap

\* What a step of the system does to the flush f.
FlushAdvances(f) ==
  /\ Flush(f) /\ fpc[f] # "idle" => StepsLeft(f)' < StepsLeft(f)
  /\ fpc[f] # "idle" => StepsLeft(f)' <= StepsLeft(f)
  /\ fpc[f] = "idle" => StepsLeft(f)' \in {0, 3 + RetryCap}

LEMMA StepsLeftBounds ==
  ASSUME TypeOK, NEW f \in Flushers
  PROVE  /\ StepsLeft(f) \in 0 .. 3 + RetryCap
         /\ fpc[f] # "idle" => StepsLeft(f) >= 1
<1>1. /\ fpc[f] \in {"idle", "load", "send", "ack", "fail"} /\ attempt[f] \in 0 .. RetryCap
      /\ RetryCap \in Nat
  BY ReportingAssumption DEF TypeOK, ReportingAssumption
<1> QED BY <1>1 DEF StepsLeft

(* Returning ends it.                                                      *)
LEMMA ReturnEnds ==
  ASSUME TypeOK, NEW f \in Flushers, Return(f), fpc[f] # "idle"
  PROVE  FlushAdvances(f)
<1>1. fpc'[f] = "idle"  BY DEF Return, TypeOK
<1>2. StepsLeft(f)' = 0  BY <1>1 DEF StepsLeft
<1> QED BY <1>2, StepsLeftBounds DEF FlushAdvances

(* A failed attempt is counted, or is the last.                            *)
LEMMA RetryAdvances ==
  ASSUME TypeOK, NEW f \in Flushers, fpc[f] = "send", GiveUpOrRetry(f)
  PROVE  FlushAdvances(f)
<1>1. attempt[f] \in 0 .. RetryCap /\ RetryCap \in Nat /\ StepsLeft(f) = 2 + RetryCap - attempt[f]
  BY ReportingAssumption DEF TypeOK, StepsLeft, ReportingAssumption
<1>2. CASE attempt[f] < AllowedRetries(fconfig[f]) /\ attempt' = [attempt EXCEPT ![f] = @ + 1]
           /\ UNCHANGED fpc
  <2>1. attempt'[f] = attempt[f] + 1 /\ fpc'[f] = "send"  BY <1>2 DEF TypeOK
  <2>2. StepsLeft(f)' = 2 + RetryCap - (attempt[f] + 1)  BY <2>1 DEF StepsLeft
  <2> QED BY <1>1, <2>2 DEF FlushAdvances
<1>3. CASE fpc' = [fpc EXCEPT ![f] = "fail"] /\ UNCHANGED attempt
  <2>1. StepsLeft(f)' = 1  BY <1>3 DEF StepsLeft, TypeOK
  <2> QED BY <1>1, <2>1 DEF FlushAdvances
<1> QED BY <1>2, <1>3 DEF GiveUpOrRetry

(* Every step of the flush itself.                                         *)
LEMMA OwnStepAdvances ==
  ASSUME TypeOK, NEW f \in Flushers, Flush(f)
  PROVE  FlushAdvances(f)
<1>0. RetryCap \in Nat /\ fpc \in [Flushers -> {"idle", "load", "send", "ack", "fail"}]
      /\ attempt[f] \in 0 .. RetryCap
  BY ReportingAssumption DEF TypeOK, ReportingAssumption
<1>1. CASE FlushStart(f)
  <2>1. fpc[f] = "idle" /\ fpc'[f] = "load"  BY <1>0, <1>1 DEF FlushStart
  <2> QED BY <2>1 DEF FlushAdvances, StepsLeft
<1>2. CASE FlushLoad(f)
  <2>1. fpc[f] = "load" /\ StepsLeft(f) = 3 + RetryCap  BY <1>2 DEF FlushLoad, StepsLeft
  <2>2. fpc'[f] \in {"idle", "fail", "send"} /\ attempt'[f] = attempt[f]
    BY <1>0, <1>2 DEF FlushLoad, AfterLoad
  <2>3. StepsLeft(f)' \in {0, 1, 2 + RetryCap - attempt[f]}  BY <2>2 DEF StepsLeft
  <2> QED BY <1>0, <2>1, <2>3 DEF FlushAdvances
<1>3. CASE SendAccepted(f)
  <2>1. fpc[f] = "send" /\ fpc'[f] = "ack"  BY <1>0, <1>3 DEF SendAccepted
  <2>2. StepsLeft(f)' = 1 /\ StepsLeft(f) = 2 + RetryCap - attempt[f]  BY <2>1 DEF StepsLeft
  <2> QED BY <1>0, <2>1, <2>2 DEF FlushAdvances
<1>4. CASE Unauthorized(f) \/ SendFailed(f)
  BY <1>4, RetryAdvances DEF Unauthorized, SendFailed
<1>5. CASE FlushAck(f) \/ FlushFail(f) \/ FlushAborts(f)
  BY <1>5, ReturnEnds DEF FlushAck, FlushFail, FlushAborts
<1> QED BY <1>1, <1>2, <1>3, <1>4, <1>5 DEF Flush

(* Nobody else's step prolongs it.                                         *)
LEMMA OthersLeaveFlush ==
  ASSUME TypeOK, NEW f \in Flushers, [Next]_vars, ~Flush(f)
  PROVE  FlushAdvances(f)
<1>0. fpc \in [Flushers -> {"idle", "load", "send", "ack", "fail"}] /\ RetryCap \in Nat
      /\ attempt \in [Flushers -> 0 .. RetryCap]
  BY ReportingAssumption DEF TypeOK, ReportingAssumption
<1>1. ASSUME fpc'[f] = fpc[f], attempt'[f] = attempt[f] PROVE FlushAdvances(f)
  <2>1. StepsLeft(f)' = StepsLeft(f)  BY <1>1 DEF StepsLeft
  <2>2. fpc[f] = "idle" => StepsLeft(f)' = 0  BY <1>1 DEF StepsLeft
  <2> QED BY <2>1, <2>2, StepsLeftBounds DEF FlushAdvances
<1>2. ASSUME NEW g \in Flushers, Flush(g) PROVE fpc'[f] = fpc[f] /\ attempt'[f] = attempt[f]
  <2>1. g # f  BY <1>2
  <2>2. CASE FlushStart(g) \/ FlushLoad(g) \/ SendAccepted(g)
    BY <1>0, <2>1, <2>2 DEF FlushStart, FlushLoad, SendAccepted
  <2>3. CASE Unauthorized(g) \/ SendFailed(g)
    BY <1>0, <2>1, <2>3 DEF Unauthorized, SendFailed, GiveUpOrRetry
  <2>4. CASE FlushAck(g) \/ FlushFail(g) \/ FlushAborts(g)
    BY <1>0, <2>1, <2>4 DEF FlushAck, FlushFail, FlushAborts, Return
  <2> QED BY <1>2, <2>2, <2>3, <2>4 DEF Flush
<1>3. CASE Crash
  <2>1. fpc'[f] = "idle"  BY <1>3 DEF Crash
  <2>2. StepsLeft(f)' = 0  BY <2>1 DEF StepsLeft
  <2> QED BY <2>2, StepsLeftBounds DEF FlushAdvances
<1>4. ASSUME (\E v \in Verifiers : Verify(v)) \/ (\E c \in Configs : SetConfig(c)) \/ UNCHANGED vars
      PROVE  fpc'[f] = fpc[f] /\ attempt'[f] = attempt[f]
  BY <1>4 DEF Verify, QueueStart, QueueCheck, QueueInsert, QueueFails, SetConfig, flusherVars, vars
<1> QED BY <1>1, <1>2, <1>3, <1>4 DEF Next

(* However flushes overlap and whatever retries an operator saved, a flush *)
(* that has started takes at most RetryCap + 3 steps: each of its own      *)
(* brings its return nearer and no other step puts it off (the loop of     *)
(* flush).  set_network_status waits for it on this.                       *)
THEOREM FlushesEnd == Spec => [][\A f \in Flushers : FlushAdvances(f)]_vars
<1>1. TypeOK /\ [Next]_vars => [\A f \in Flushers : FlushAdvances(f)]_vars
  BY OwnStepAdvances, OthersLeaveFlush
<1> QED BY <1>1, TypeCorrect, PTL DEF Spec
-------------------------------------------------------------------------------
(* A row of an older format holds up a durable destination.                *)

\* Nothing has left the device, and no flush gets past the load.
Held ==
  /\ received = {}
  /\ queue = 1 .. inserted
  /\ \A f \in Flushers : fpc[f] \in {"idle", "load", "fail"}

\* Some row is of an older format, and no configuration sends without receipts.
OnlyDurable == LegacyRows > 0 /\ \A c \in Configs : c.destination # "generic"

(* Every batch has the first row, so a durable destination refuses it.     *)
LEMMA BatchRefused ==
  ASSUME TypeOK, Held, OnlyDurable, NEW c \in Configs
  PROVE  AfterLoad(c, PendingEvents) \in {"idle", "fail"}
<1>1. /\ LegacyRows \in Nat /\ inserted \in Nat /\ LegacyRows <= inserted
      /\ BatchSize \in Nat /\ BatchSize >= 1
  BY ReportingAssumption DEF TypeOK, ReportingAssumption
<1>2. 1 \in queue /\ 1 <= LegacyRows  BY <1>1 DEF Held, OnlyDurable
<1>3. {d \in queue : d < 1} = {}  BY <1>1 DEF Held
<1>4. Cardinality({d \in queue : d < 1}) = 0  BY <1>3, FS_EmptySet
<1>5. 1 \in PendingEvents  BY <1>1, <1>2, <1>4 DEF PendingEvents
<1>6. c.destination \in {"none", "durable", "invalid"}
  BY ReportingAssumption DEF OnlyDurable, ReportingAssumption, ReportingConfig
<1>7. \E e \in PendingEvents : e <= LegacyRows  BY <1>2, <1>5
<1> QED BY <1>6, <1>7 DEF AfterLoad, InvalidDestination, LegacyBatch

LEMMA NextHeld == OnlyDurable /\ TypeOK /\ Held /\ [Next]_vars => Held'
<1> SUFFICES ASSUME OnlyDurable, TypeOK, Held, [Next]_vars PROVE Held'  OBVIOUS
<1> USE DEF Held
<1>0. fpc \in [Flushers -> {"idle", "load", "send", "ack", "fail"}] /\ inserted \in Nat
  BY ReportingAssumption DEF TypeOK, ReportingAssumption
<1>1. ASSUME NEW v \in Verifiers, Verify(v) PROVE Held'
  <2>1. CASE QueueInsert(v)
    <3>1. queue' = 1 .. inserted'  BY <1>0, <2>1 DEF QueueInsert
    <3> QED BY <2>1, <3>1 DEF QueueInsert, flusherVars
  <2>2. CASE QueueStart(v) \/ QueueCheck(v) \/ QueueFails(v)
    BY <2>2 DEF QueueStart, QueueCheck, QueueFails, storageVars, flusherVars
  <2> QED BY <1>1, <2>1, <2>2 DEF Verify
<1>2. ASSUME NEW f \in Flushers, Flush(f) PROVE Held'
  <2>1. CASE FlushLoad(f)
    <3>1. fconfig[f] \in Configs  BY DEF TypeOK
    <3>2. fpc'[f] \in {"idle", "fail"} /\ \A g \in Flushers \ {f} : fpc'[g] = fpc[g]
      BY <1>0, <2>1, <3>1, BatchRefused DEF FlushLoad
    <3> QED BY <2>1, <3>2 DEF FlushLoad, storageVars
  <2>2. CASE FlushStart(f)
    BY <1>0, <2>2 DEF FlushStart, storageVars
  <2>3. CASE FlushFail(f) \/ FlushAborts(f)
    BY <1>0, <2>3 DEF FlushFail, FlushAborts, Return, storageVars
  <2>4. ~SendAccepted(f) /\ ~Unauthorized(f) /\ ~SendFailed(f) /\ ~FlushAck(f)
    BY DEF SendAccepted, Unauthorized, SendFailed, FlushAck
  <2> QED BY <1>2, <2>1, <2>2, <2>3, <2>4 DEF Flush
<1>3. CASE (\E c \in Configs : SetConfig(c)) \/ Crash \/ UNCHANGED vars
  BY <1>3 DEF SetConfig, Crash, storageVars, flusherVars, vars
<1> QED BY <1>1, <1>2, <1>3 DEF Next

(* While one row of an older format is queued and every configuration an   *)
(* operator saves is durable (or delivers nothing), no event ever leaves   *)
(* the device, however often it reconnects: from_request refuses the batch *)
(* as a whole, failed_batch keeps it in its place, and the next flush      *)
(* loads it again.  EventuallyRemoved needs its hypothesis for this.       *)
THEOREM LegacyRowsBlock ==
  ASSUME OnlyDurable
  PROVE  Spec => [](received = {} /\ queue = 1 .. inserted)
<1>1. Init => Held  BY DEF Init, Held
<1>2. OnlyDurable  OBVIOUS
<1>3. TypeOK /\ Held /\ [Next]_vars => Held'  BY <1>2, NextHeld
<1>4. Held => received = {} /\ queue = 1 .. inserted  BY DEF Held
<1> QED BY <1>1, <1>3, <1>4, TypeCorrect, PTL DEF Spec
===============================================================================
