------------------------------ MODULE TrustLedger ------------------------------
(***************************************************************************)
(* What the trust store promises, with no imports, syncs or keys in sight: *)
(* each trust domain has a ledger of packages that only grows, by packages *)
(* of higher sequence under one recovery key, and the freshness clock      *)
(* shows the creation time of a package that was committed, or nothing.    *)
(***************************************************************************)
EXTENDS Integers, Sequences

CONSTANTS Domains, Packages, Never

VARIABLES
  ledger,   \* per domain: the packages committed, the last one active
  clock     \* creation time the freshness gate goes by

vars == <<ledger, clock>>

CreationTimes(l) ==
  {p.created : p \in {q \in Packages : \E d \in Domains : \E i \in DOMAIN l[d] : l[d][i] = q}}

Init ==
  /\ ledger = [d \in Domains |-> <<>>]
  /\ clock = Never

Succeeds(q, l) ==
  l # <<>> => /\ q.sequence > l[Len(l)].sequence
              /\ q.recovery = l[Len(l)].recovery

Commit(p) ==
  /\ Succeeds(p, ledger[p.domain])
  /\ ledger' = [ledger EXCEPT ![p.domain] = Append(@, p)]
  /\ clock' = p.created

\* The clock may fall back, but never to a time no package was created at.
FallBack ==
  /\ clock' \in {Never} \cup CreationTimes(ledger)
  /\ UNCHANGED ledger

Next == (\E p \in Packages : Commit(p)) \/ FallBack

Spec == Init /\ [][Next]_vars
===============================================================================
