------------------------------- MODULE Reporting ------------------------------
(***************************************************************************)
(* The audit reporter of crates/marty-reporting: verifications queue       *)
(* events in encrypted storage, reconnects flush the oldest ones to a      *)
(* remote endpoint, and an accepted batch is removed.  queue_event and     *)
(* flush take no lock across their awaits, so every await is the boundary  *)
(* of a step and any number of them interleave.                            *)
(*                                                                         *)
(* Events are numbered in the order of their rows.  The endpoint keeps     *)
(* whatever reaches it; a response may be lost, late or unacceptable.      *)
(***************************************************************************)
EXTENDS Integers, FiniteSets, FiniteSetsExt

CONSTANTS
  Verifiers,    \* concurrent verify_credential calls that queue an event
  Flushers,     \* concurrent set_network_status(true) calls that flush
  Configs,      \* the reporting configurations an operator may save
  MaxLimit,     \* the largest max_queue_size in Configs
  BatchSize,    \* rows one flush loads (100 in the code)
  RetryCap,     \* retries one flush may make at most (10 in the code)
  LegacyRows,   \* rows 1..LegacyRows predate the durable contract
  MaxEvents,    \* bound: rows ever inserted
  MaxCrashes    \* bound: crashes of the process

Event == 1 .. MaxEvents

(* The fields of ReportingConfig that decide control flow.  "generic" is a *)
(* plain HTTP or presigned destination, "durable" the receipt-validated    *)
(* offline contract, "invalid" one Destination::for_config refuses.        *)
ReportingConfig ==
  [enabled : BOOLEAN, local_only : BOOLEAN, max_queue_size : 0 .. MaxLimit,
   max_retries : Nat, destination : {"none", "generic", "durable", "invalid"}]

ASSUME ReportingAssumption ==
  /\ IsFiniteSet(Verifiers) /\ Verifiers # {}
  /\ MaxLimit \in Nat \ {0}
  /\ BatchSize \in Nat \ {0}
  /\ RetryCap \in Nat
  /\ MaxEvents \in Nat
  /\ MaxCrashes \in Nat
  /\ LegacyRows \in Nat /\ LegacyRows <= MaxLimit /\ LegacyRows <= MaxEvents
  /\ Configs \subseteq ReportingConfig

VARIABLES
  config,       \* Reporter.config
  queue,        \* rows of the durable queue
  errored,      \* queued rows that carry a delivery error
  inserted,     \* rows inserted so far: the next one is inserted + 1
  received,     \* rows the endpoint has stored
  vpc, limit,   \* per verifier: next step, max_queue_size it read
  fpc, fconfig, \* per flusher: next step, configuration it read
  batch,        \* per flusher: rows it is delivering
  attempt,      \* per flusher: the loop counter of its retries
  crashes       \* crashes so far

storageVars  == <<queue, errored, inserted>>
verifierVars == <<vpc, limit>>
flusherVars  == <<fpc, fconfig, batch, attempt>>
vars == <<config, storageVars, received, verifierVars, flusherVars, crashes>>

NoConfig == CHOOSE c \in Configs : TRUE   \* what an idle flusher's local holds

Init ==
  /\ config \in Configs
  /\ queue = 1 .. LegacyRows
  /\ errored = {}
  /\ inserted = LegacyRows
  /\ received = {}
  /\ vpc = [v \in Verifiers |-> "idle"]
  /\ limit = [v \in Verifiers |-> 0]
  /\ fpc = [f \in Flushers |-> "idle"]
  /\ fconfig = [f \in Flushers |-> NoConfig]
  /\ batch = [f \in Flushers |-> {}]
  /\ attempt = [f \in Flushers |-> 0]
  /\ crashes = 0

-------------------------------------------------------------------------------
(* Queueing an event.                                                      *)

\* queue_event clones the configuration; a disabled reporter refuses.
QueueStart(v) ==
  /\ vpc[v] = "idle"
  /\ config.enabled
  /\ vpc' = [vpc EXCEPT ![v] = "check"]
  /\ limit' = [limit EXCEPT ![v] = config.max_queue_size]
  /\ UNCHANGED <<config, storageVars, received, flusherVars, crashes>>

\* Wrong: the limit itself still has room.
HasRoomOffByOne(max) == Cardinality(queue) <= max
HasRoom(max) == Cardinality(queue) < max

\* queue_event compares the number of pending rows with the limit it read.
QueueCheck(v) ==
  /\ vpc[v] = "check"
  /\ vpc' = [vpc EXCEPT ![v] = IF HasRoom(limit[v]) THEN "insert" ELSE "idle"]
  /\ limit' = [limit EXCEPT ![v] = 0]
  /\ UNCHANGED <<config, storageVars, received, flusherVars, crashes>>

\* storage.queue_event appends the row.
QueueInsert(v) ==
  /\ vpc[v] = "insert"
  /\ inserted < MaxEvents
  /\ inserted' = inserted + 1
  /\ queue' = queue \cup {inserted'}
  /\ vpc' = [vpc EXCEPT ![v] = "idle"]
  /\ UNCHANGED <<config, errored, received, limit, flusherVars, crashes>>

\* A storage error of either await: the event is not queued.
QueueFails(v) ==
  /\ vpc[v] # "idle"
  /\ vpc' = [vpc EXCEPT ![v] = "idle"]
  /\ limit' = [limit EXCEPT ![v] = 0]
  /\ UNCHANGED <<config, storageVars, received, flusherVars, crashes>>

-------------------------------------------------------------------------------
(* Flushing the queue.                                                     *)

\* flush clones the configuration; disabled and local-only reporters return 0.
FlushStart(f) ==
  /\ fpc[f] = "idle"
  /\ config.enabled /\ ~config.local_only
  /\ fpc' = [fpc EXCEPT ![f] = "load"]
  /\ fconfig' = [fconfig EXCEPT ![f] = config]
  /\ UNCHANGED <<config, storageVars, received, verifierVars, batch, attempt, crashes>>

\* Wrong: the newest rows are sent first.
NewestRows == {e \in queue : Cardinality({d \in queue : d > e}) < BatchSize}

\* Wrong: a row whose delivery has failed is not loaded again.
UntriedRows ==
  {e \in queue \ errored : Cardinality({d \in queue \ errored : d < e}) < BatchSize}

\* get_pending_events: the oldest rows, BatchSize of them at most.
PendingEvents == {e \in queue : Cardinality({d \in queue : d < e}) < BatchSize}

\* Destination::for_config refuses what is neither generic nor exactly the contract.
InvalidDestination(c) == c.destination = "invalid"

\* ExpectedBatch::from_request refuses a durable batch with a row of an older format.
LegacyBatch(c, rows) == c.destination = "durable" /\ \E e \in rows : e <= LegacyRows

AfterLoad(c, rows) ==
  IF rows = {} \/ c.destination = "none" THEN "idle"
  ELSE IF InvalidDestination(c) \/ LegacyBatch(c, rows) THEN "fail"
  ELSE "send"

FlushLoad(f) ==
  /\ fpc[f] = "load"
  /\ LET next == AfterLoad(fconfig[f], PendingEvents)
     IN  /\ fpc' = [fpc EXCEPT ![f] = next]
         /\ batch' = [batch EXCEPT ![f] = IF next = "idle" THEN {} ELSE PendingEvents]
  /\ UNCHANGED <<config, storageVars, received, verifierVars, fconfig, attempt, crashes>>

\* The endpoint stores the batch and its answer passes every check.
SendAccepted(f) ==
  /\ fpc[f] = "send"
  /\ received' = received \cup batch[f]
  /\ fpc' = [fpc EXCEPT ![f] = "ack"]
  /\ UNCHANGED <<config, storageVars, verifierVars, fconfig, batch, attempt, crashes>>

\* Wrong: the operator's number of retries is taken as it is.
UncappedRetries(c) == c.max_retries
AllowedRetries(c) == Min({c.max_retries, RetryCap})

\* An attempt failed: the error is retryable (transport, 429, 5xx) or final.
GiveUpOrRetry(f) ==
  \/ /\ attempt[f] < AllowedRetries(fconfig[f])
     /\ attempt' = [attempt EXCEPT ![f] = @ + 1]
     /\ UNCHANGED fpc
  \/ /\ fpc' = [fpc EXCEPT ![f] = "fail"]
     /\ UNCHANGED attempt

\* authorize: the durable destination did not confirm its authority; nothing is sent.
Unauthorized(f) ==
  /\ fpc[f] = "send"
  /\ fconfig[f].destination = "durable"
  /\ GiveUpOrRetry(f)
  /\ UNCHANGED <<config, storageVars, received, verifierVars, fconfig, batch, crashes>>

\* No acknowledgement: the batch reached the endpoint (a lost or oversized answer,
\* a receipt that does not match) or it did not.
SendFailed(f) ==
  /\ fpc[f] = "send"
  /\ received' \in {received, received \cup batch[f]}
  /\ GiveUpOrRetry(f)
  /\ UNCHANGED <<config, storageVars, verifierVars, fconfig, batch, crashes>>

\* flush returns: its locals are gone.
Return(f) ==
  /\ fpc' = [fpc EXCEPT ![f] = "idle"]
  /\ fconfig' = [fconfig EXCEPT ![f] = NoConfig]
  /\ batch' = [batch EXCEPT ![f] = {}]
  /\ attempt' = [attempt EXCEPT ![f] = 0]

\* Wrong: an acknowledgement that empties the queue instead of removing the batch.
FlushAckEverything(f) ==
  /\ fpc[f] = "ack"
  /\ queue' = {}
  /\ errored' = {}
  /\ Return(f)
  /\ UNCHANGED <<config, inserted, received, verifierVars, crashes>>

\* acknowledge_queue_batch removes the whole batch, or fails and removes nothing
\* when another flush has removed one of its rows.
FlushAck(f) ==
  /\ fpc[f] = "ack"
  /\ queue' = IF batch[f] \subseteq queue THEN queue \ batch[f] ELSE queue
  /\ errored' = errored \cap queue'
  /\ Return(f)
  /\ UNCHANGED <<config, inserted, received, verifierVars, crashes>>

\* Wrong: a failure record that writes back the rows of the batch.
FlushFailUpsert(f) ==
  /\ fpc[f] = "fail"
  /\ queue' = queue \cup batch[f]
  /\ errored' = errored \cup batch[f]
  /\ Return(f)
  /\ UNCHANGED <<config, inserted, received, verifierVars, crashes>>

\* failed_batch: record_queue_batch_failure marks the rows that are still queued.
FlushFail(f) ==
  /\ fpc[f] = "fail"
  /\ errored' = errored \cup (batch[f] \cap queue)
  /\ Return(f)
  /\ UNCHANGED <<config, queue, inserted, received, verifierVars, crashes>>

\* A storage or client error, or a cancelled call: flush leaves no trace.
FlushAborts(f) ==
  /\ fpc[f] # "idle"
  /\ Return(f)
  /\ UNCHANGED <<config, storageVars, received, verifierVars, crashes>>

-------------------------------------------------------------------------------
(* The operator and the process.                                           *)

\* set_config replaces the live configuration; calls in flight keep their copy.
SetConfig(c) ==
  /\ config # c
  /\ config' = c
  /\ UNCHANGED <<storageVars, received, verifierVars, flusherVars, crashes>>

\* A crash forgets every call in flight; the queue is in SQLCipher storage.
Crash ==
  /\ crashes < MaxCrashes
  /\ crashes' = crashes + 1
  /\ vpc' = [v \in Verifiers |-> "idle"]
  /\ limit' = [v \in Verifiers |-> 0]
  /\ fpc' = [f \in Flushers |-> "idle"]
  /\ fconfig' = [f \in Flushers |-> NoConfig]
  /\ batch' = [f \in Flushers |-> {}]
  /\ attempt' = [f \in Flushers |-> 0]
  /\ UNCHANGED <<config, storageVars, received>>

Verify(v) == QueueStart(v) \/ QueueCheck(v) \/ QueueInsert(v) \/ QueueFails(v)
Flush(f) ==
  \/ FlushStart(f) \/ FlushLoad(f) \/ SendAccepted(f)
  \/ Unauthorized(f) \/ SendFailed(f) \/ FlushAck(f) \/ FlushFail(f) \/ FlushAborts(f)

Next ==
  \/ \E v \in Verifiers : Verify(v)
  \/ \E f \in Flushers : Flush(f)
  \/ \E c \in Configs : SetConfig(c)
  \/ Crash

Spec == Init /\ [][Next]_vars

(* A running flush goes on: every await of it has a timeout.  Storage and  *)
(* the endpoint are used again and again and work some time.  Nothing is   *)
(* assumed here about flushes being started.                               *)
Fairness ==
  \A f \in Flushers :
    /\ WF_vars(Flush(f) /\ fpc[f] # "idle")
    /\ SF_vars(FlushLoad(f)) /\ SF_vars(SendAccepted(f)) /\ SF_vars(FlushAck(f))

FairSpec == Spec /\ Fairness

-------------------------------------------------------------------------------
TypeOK ==
  /\ config \in Configs
  /\ queue \subseteq 1 .. inserted
  /\ errored \subseteq queue
  /\ inserted \in LegacyRows .. MaxEvents
  /\ received \subseteq 1 .. inserted
  /\ vpc \in [Verifiers -> {"idle", "check", "insert"}]
  /\ limit \in [Verifiers -> 0 .. MaxLimit]
  /\ fpc \in [Flushers -> {"idle", "load", "send", "ack", "fail"}]
  /\ fconfig \in [Flushers -> Configs]
  /\ batch \in [Flushers -> SUBSET (1 .. inserted)]
  /\ attempt \in [Flushers -> 0 .. RetryCap]
  /\ crashes \in 0 .. MaxCrashes

(* Every event ever queued is still stored on the device or has reached    *)
(* the endpoint, whatever flushes overlap, fail, retry or die: "Events are *)
(* deleted only after a successful HTTP response" (README).                *)
NoEventLost == \A e \in 1 .. inserted : e \in queue \/ e \in received

(* The endpoint never holds an event without every earlier one: batches    *)
(* are the oldest rows, and a refused batch keeps its place in the queue.  *)
DeliveredInOrder == \A e \in received : \A d \in 1 .. e : d \in received

(* The check of queue_event and its insert are two awaits apart, so the    *)
(* queue can pass max_queue_size, but by no more than one event for each   *)
(* other verification in flight.                                           *)
QueueOvershootBounded ==
  Cardinality(queue) < MaxLimit + Cardinality(Verifiers)

(* A row that has left the queue never comes back, so a flush that loses a *)
(* race against another one cannot resurrect what the other delivered.     *)
NeverRequeued ==
  [][\A e \in 1 .. inserted : e \notin queue => e \notin queue']_vars

(* What this module is for: the queue implements the audit trail.          *)
Trail == INSTANCE AuditTrail
           WITH recorded <- inserted, pending <- queue, delivered <- received
ImplementsAuditTrail == Trail!Spec

(* The device comes online again and again: set_network_status(true) is    *)
(* the only caller of flush.                                               *)
Reconnecting == []<><<\E f \in Flushers : FlushStart(f)>>_vars

(* The configuration delivers, and takes the format of the oldest rows.    *)
DestinationSuits ==
  /\ config.enabled /\ ~config.local_only
  /\ \/ config.destination = "generic"
     \/ config.destination = "durable" /\ ~LegacyBatch(config, PendingEvents)

(* If the device keeps coming back online, and from some time on has a     *)
(* configuration that takes the oldest rows, every queued event is         *)
(* delivered and removed: the ones behind a full batch, and the ones       *)
(* behind a row that one destination refuses for good.                     *)
EventuallyRemoved ==
  Reconnecting /\ <>[]DestinationSuits =>
    \A e \in Event : e \in queue ~> e \in received /\ e \notin queue
===============================================================================
