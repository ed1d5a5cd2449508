------------------------------ MODULE AuditTrail ------------------------------
(***************************************************************************)
(* What the offline audit queue promises, with no queueing, batching or    *)
(* retrying in sight: events are recorded one after the other, a remote    *)
(* endpoint comes to hold an ever longer beginning of that record, and the *)
(* device forgets an event only once the endpoint holds it.                *)
(***************************************************************************)
EXTENDS Integers

VARIABLES
  recorded,   \* how many events have been recorded: they are 1..recorded
  pending,    \* the recorded events the device still stores
  delivered   \* the events the endpoint holds

vars == <<recorded, pending, delivered>>

Init ==
  /\ recorded \in Nat
  /\ pending = 1 .. recorded
  /\ delivered = {}

Record ==
  /\ recorded' = recorded + 1
  /\ pending' = pending \cup {recorded'}
  /\ UNCHANGED delivered

Deliver ==
  /\ delivered' \in SUBSET (1 .. recorded)
  /\ delivered \subseteq delivered'
  /\ \A e \in delivered' : 1 .. e \subseteq delivered'
  /\ UNCHANGED <<recorded, pending>>

Forget ==
  /\ pending' \in SUBSET pending
  /\ pending \ pending' \subseteq delivered
  /\ UNCHANGED <<recorded, delivered>>

Next == Record \/ Deliver \/ Forget

Spec == Init /\ [][Next]_vars
===============================================================================
