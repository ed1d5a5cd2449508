------------------------------ MODULE NetworkMode ------------------------------
(***************************************************************************)
(* The verification mode of the kiosk: host connectivity and the operator  *)
(* decide it in the web view (app-store.ts), set_network_status carries it *)
(* to the native runtime, and a transition to online flushes the audit     *)
(* queue.  The web view chains its requests in one promise, so that native *)
(* transitions follow one another; browser events and clicks arrive at any *)
(* moment of a transition.                                                 *)
(*                                                                         *)
(* The audit queue is used through what it promises, AuditTrail, which the *)
(* module Reporting implements.                                            *)
(***************************************************************************)
EXTENDS Integers, Sequences, FiniteSets

CONSTANTS
  MaxRequests,  \* bound: mode requests ever issued
  MaxEvents     \* bound: audit events ever recorded

ASSUME NetworkAssumption == MaxRequests \in Nat /\ MaxEvents \in Nat

VARIABLES
  hostOnline, offlineMode,   \* what the host reports, what the operator chose
  isOnline,                  \* the mode the web view shows
  networkBusy, networkError, \* a request is under way; an error is shown
  networkTransition,         \* the last request was confirmed
  networkRequests,           \* requests issued
  networkUpdates,            \* the promise chain: requests not yet settled
  stage,                     \* how far the first of them is
  failed,                    \* its reporting_error so far
  queue, reply,              \* pending events shown; a manual refresh in flight
  is_online,                 \* AppState.is_online
  recorded, pending, delivered   \* the audit queue and the remote endpoint

choiceVars  == <<hostOnline, offlineMode>>
shownVars   == <<isOnline, networkBusy, networkError, networkTransition>>
chainVars   == <<networkRequests, networkUpdates, stage, failed>>
refreshVars == <<queue, reply>>
trailVars   == <<recorded, pending, delivered>>
vars == <<choiceVars, shownVars, chainVars, refreshVars, is_online, trailVars>>

Unknown == -1     \* no queue status: not read, or it could not be read
NoReply == -2     \* no manual refresh in flight

Request == [request : 1 .. MaxRequests, online : BOOLEAN]

Trail == INSTANCE AuditTrail

Init ==
  /\ hostOnline = FALSE /\ offlineMode = FALSE
  /\ isOnline = FALSE
  /\ networkBusy = FALSE /\ networkError = FALSE
  /\ networkTransition = FALSE
  /\ networkRequests = 0 /\ networkUpdates = <<>>
  /\ stage = "idle" /\ failed = FALSE
  /\ queue = Unknown /\ reply = NoReply
  /\ is_online = FALSE
  /\ recorded = 0 /\ pending = {} /\ delivered = {}

-------------------------------------------------------------------------------
(* Requests of the host and the operator.                                  *)

\* Wrong: the host alone decides.
WantedByHost(host, offline) == host
Wanted(host, offline) == host /\ ~offline

\* applyNetworkMode appends to the promise chain the mode wanted now.
ApplyNetworkMode(host, offline) ==
  /\ networkRequests < MaxRequests
  /\ hostOnline' = host /\ offlineMode' = offline
  /\ networkRequests' = networkRequests + 1
  /\ networkUpdates' = Append(networkUpdates,
       [request |-> networkRequests + 1, online |-> Wanted(host, offline)])
  /\ networkBusy' = TRUE
  /\ networkError' = FALSE
  /\ UNCHANGED <<isOnline, networkTransition, stage, failed, refreshVars, trailVars>>

\* Wrong: going offline reaches the native runtime past the chain.
SetOnlineStatusUnchained(online) ==
  /\ ApplyNetworkMode(online, offlineMode)
  /\ is_online' = (is_online /\ online)

\* The online and offline events of the window, and the first rendering.
SetOnlineStatus(online) ==
  /\ ApplyNetworkMode(online, offlineMode)
  /\ UNCHANGED is_online

\* Wrong: the buttons stay enabled while a request is under way.
MayChooseWhileBusy(offline) == IF offline THEN ~offlineMode ELSE hostOnline

\* When the two buttons of VerificationModePanel are enabled.
MayChoose(offline) == ~networkBusy /\ IF offline THEN ~offlineMode ELSE hostOnline

SetOfflineMode(offline) ==
  /\ MayChoose(offline)
  /\ ApplyNetworkMode(hostOnline, offline)
  /\ UNCHANGED is_online

-------------------------------------------------------------------------------
(* One request of the chain: setNetworkStatus and the native command.      *)

First == Head(networkUpdates)

\* The promise before it has settled: the command is invoked.
Invoke ==
  /\ stage = "idle" /\ networkUpdates # <<>>
  /\ stage' = "invoked" /\ failed' = FALSE
  /\ UNCHANGED <<choiceVars, shownVars, networkRequests, networkUpdates, refreshVars,
                 is_online, trailVars>>

\* state.set_online; only a transition to online flushes.
SetOnline ==
  /\ stage = "invoked"
  /\ is_online' = First.online
  /\ stage' = IF First.online THEN "flush" ELSE "count"
  /\ UNCHANGED <<choiceVars, shownVars, networkRequests, networkUpdates, failed,
                 refreshVars, trailVars>>

\* The flush delivers events: some attempt of it reaches the endpoint.
FlushDelivers ==
  /\ stage = "flush"
  /\ Trail!Deliver
  /\ UNCHANGED <<choiceVars, shownVars, chainVars, refreshVars, is_online>>

\* The flush returns a count of acknowledged events ...
FlushAcknowledges ==
  /\ stage = "flush"
  /\ Trail!Forget /\ pending' # pending
  /\ stage' = "count"
  /\ UNCHANGED <<choiceVars, shownVars, networkRequests, networkUpdates, failed,
                 refreshVars, is_online>>

\* ... or zero (nothing pending, not enabled, local only), or an error.
FlushReturns(error) ==
  /\ stage = "flush"
  /\ stage' = "count" /\ failed' = error
  /\ UNCHANGED <<choiceVars, shownVars, networkRequests, networkUpdates, refreshVars,
                 is_online, trailVars>>

\* get_queue_status and applied_network_transition: the command never errs.
CountPending(error) ==
  /\ stage = "count"
  /\ stage' = "answer" /\ failed' = (failed \/ error)
  /\ UNCHANGED <<choiceVars, shownVars, networkRequests, networkUpdates, refreshVars,
                 is_online, trailVars>>

\* The answer arrives; the queue status is asked for.
Confirm ==
  /\ stage = "answer"
  /\ isOnline' = First.online
  /\ networkTransition' = TRUE
  /\ networkError' = failed
  /\ stage' = "refresh"
  /\ UNCHANGED <<choiceVars, networkBusy, networkRequests, networkUpdates, failed,
                 refreshVars, is_online, trailVars>>

\* Wrong: a request leaves the chain while its handler runs on.
SettleEarly ==
  /\ networkUpdates' = Tail(networkUpdates)
  /\ networkBusy' = IF First.request = networkRequests THEN FALSE ELSE networkBusy
  /\ UNCHANGED stage

\* The finally block: busy ends with the request issued last.
Settle ==
  /\ networkUpdates' = Tail(networkUpdates)
  /\ networkBusy' = IF First.request = networkRequests THEN FALSE ELSE networkBusy
  /\ stage' = "idle"

\* refreshQueue as the last part of a request; status is Unknown on an error.
ShowQueue(status) ==
  /\ queue' = status
  /\ networkError' = (networkError \/ status = Unknown)

Refresh(status) ==
  /\ stage = "refresh"
  /\ ShowQueue(status)
  /\ Settle
  /\ UNCHANGED <<choiceVars, isOnline, networkTransition, networkRequests, failed, reply,
                 is_online, trailVars>>

\* Wrong: an error leaves the chain without the finally block.
RejectedForGood ==
  /\ stage = "invoked"
  /\ networkTransition' = FALSE
  /\ networkError' = TRUE
  /\ networkUpdates' = Tail(networkUpdates) /\ stage' = "idle"
  /\ UNCHANGED <<choiceVars, isOnline, networkBusy, networkRequests, failed, refreshVars,
                 is_online, trailVars>>

\* The command could not be invoked: the catch block.
Rejected ==
  /\ stage = "invoked"
  /\ networkTransition' = FALSE
  /\ networkError' = TRUE
  /\ Settle
  /\ UNCHANGED <<choiceVars, isOnline, networkRequests, failed, refreshVars, is_online,
                 trailVars>>

-------------------------------------------------------------------------------
(* The refresh button, and verifications that record events.               *)

\* Clicked while nothing is under way, and answered by the native runtime.
RefreshQueue(status) ==
  /\ ~networkBusy
  /\ reply = NoReply
  /\ reply' = status
  /\ UNCHANGED <<choiceVars, shownVars, chainVars, queue, is_online, trailVars>>

\* The answer is shown, whatever has been requested meanwhile.
RefreshArrives ==
  /\ reply # NoReply
  /\ ShowQueue(reply)
  /\ reply' = NoReply
  /\ UNCHANGED <<choiceVars, isOnline, networkBusy, networkTransition, chainVars,
                 is_online, trailVars>>

RecordEvent ==
  /\ recorded < MaxEvents
  /\ Trail!Record
  /\ UNCHANGED <<choiceVars, shownVars, chainVars, refreshVars, is_online>>

Statuses == {Unknown, Cardinality(pending)}

Native ==
  \/ SetOnline
  \/ FlushDelivers \/ FlushAcknowledges
  \/ \E error \in BOOLEAN : FlushReturns(error) \/ CountPending(error)

Chain ==
  \/ Invoke \/ Native \/ Confirm \/ Rejected
  \/ \E status \in Statuses : Refresh(status)

Next ==
  \/ \E online \in BOOLEAN : SetOnlineStatus(online)
  \/ \E offline \in BOOLEAN : SetOfflineMode(offline)
  \/ Chain
  \/ \E status \in Statuses : RefreshQueue(status)
  \/ RefreshArrives
  \/ RecordEvent

Spec == Init /\ [][Next]_vars

(* A request that was issued runs on: the web view and the native runtime  *)
(* keep running, a flush has a bounded number of attempts with a timeout   *)
(* each, and a queue whose flush is tried again and again is delivered.    *)
Fairness ==
  /\ WF_vars(Invoke)
  /\ WF_vars(SetOnline \/ Rejected)
  /\ WF_vars(FlushAcknowledges \/ \E error \in BOOLEAN : FlushReturns(error))
  /\ WF_vars(\E error \in BOOLEAN : CountPending(error))
  /\ WF_vars(Confirm)
  /\ WF_vars(\E status \in Statuses : Refresh(status))
  /\ SF_vars(FlushDelivers /\ delivered' # delivered) /\ SF_vars(FlushAcknowledges)

FairSpec == Spec /\ Fairness

-------------------------------------------------------------------------------
TypeOK ==
  /\ hostOnline \in BOOLEAN /\ offlineMode \in BOOLEAN
  /\ isOnline \in BOOLEAN
  /\ networkBusy \in BOOLEAN /\ networkError \in BOOLEAN
  /\ networkTransition \in BOOLEAN
  /\ networkRequests \in 0 .. MaxRequests
  /\ networkUpdates \in Seq(Request)
  /\ stage \in {"idle", "invoked", "flush", "count", "answer", "refresh"}
  /\ stage # "idle" => networkUpdates # <<>>
  /\ failed \in BOOLEAN
  /\ queue \in Unknown .. MaxEvents /\ reply \in NoReply .. MaxEvents
  /\ is_online \in BOOLEAN
  /\ recorded \in 0 .. MaxEvents
  /\ pending \subseteq 1 .. recorded /\ delivered \subseteq 1 .. recorded

(* The mode is marked as updating exactly while a request is unsettled,    *)
(* however many requests overlap, succeed and fail.                        *)
BusyWhileUpdating == networkBusy <=> networkUpdates # <<>>

(* When nothing is under way and the last request was confirmed, the mode  *)
(* shown, the native mode and the mode wanted are one: "native state       *)
(* cannot finish out of order" (app-store.ts).                             *)
SettledModeInForce ==
  ~networkBusy /\ networkTransition =>
    /\ is_online = (hostOnline /\ ~offlineMode)
    /\ isOnline = is_online

(* The operator's offline mode stands against host events: while it is     *)
(* selected, no request, old or new, turns the native runtime online.      *)
OperatorOfflineHolds ==
  [][offlineMode => (is_online' => is_online)]_vars

(* Audit events leave the device only while the native runtime is online,  *)
(* since a transition to offline waits for the flush before it.            *)
DeliversOnlyOnline == [][delivered' # delivered => is_online]_vars

(* A queue status that is missing in a settled web view has an error shown *)
(* with it, unless no request was ever made: "not yet read" is the truth.  *)
UnknownIsExplained ==
  ~networkBusy /\ queue = Unknown => networkError \/ networkRequests = 0

(* A web view that is busy becomes idle again: the buttons come back.      *)
BusyEnds == networkBusy ~> ~networkBusy
===============================================================================
