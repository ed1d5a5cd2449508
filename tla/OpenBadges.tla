------------------------------- MODULE OpenBadges -------------------------------
(***************************************************************************)
(* Open Badges 3.0 verification                                            *)
(* (src-tauri/src/commands/verification/open_badges.rs) over the records   *)
(* that USB imports store: which methods are governed, which stapled       *)
(* status lists are admitted with which authority, and what is answered.   *)
(*                                                                         *)
(* A call reads the configuration, the clock, the records, the newest      *)
(* synchronization and the clock once more, at four different times, while *)
(* imports replace the records.  The cryptographic verifier is external    *)
(* code: it accepts or refuses, and reports on the status lists it is      *)
(* given.  A repeated status URL, and the shape of a result, are left out. *)
(***************************************************************************)
EXTENDS UsbPackage

CONSTANTS
  Calls,               \* verify_credential calls for an Open Badge, each made once
  NoText,              \* a member that is absent
  Base,                \* per identifier: the text before its '#', or NoText
  Requests,            \* what may be presented
  BadgeConfigs,        \* open_badge_trust configurations an operator may save
  Legacy,              \* methods stored without a package
  NoProvenance,
  MaxStatusEntries,    \* 32
  TrustCap, StatusCap  \* MAX_OPEN_BADGE_TRUST_AGE_HOURS, ..._STATUS_LIST_SIGNED_AGE_HOURS

Least(a, b) == IF a <= b THEN a ELSE b

\* get_open_badge_trust_records: the active methods' and the legacy ones.
RecordsOf(package) ==
  {[provenance |-> package.provenance, method |-> m] : m \in package.open_badge_methods}

Records ==
  (UNION {RecordsOf(stored[d]) : d \in {e \in Domains : stored[e] # NoPackage}})
    \cup {[provenance |-> NoProvenance, method |-> m] : m \in Legacy}

\* get_latest_open_badge_sync: the newest method's, or nothing.
NewestSync ==
  LET syncs == {r.method.synced_at : r \in Records} IN
  {t \in syncs : \A u \in syncs : u <= t}

-------------------------------------------------------------------------------
(* The request.                                                            *)

\* extract_ob3_proof_method_id, of one object.
NamedBy(proof) ==
  IF proof.verificationMethod # NoText THEN proof.verificationMethod
  ELSE IF proof.creator # NoText THEN proof.creator ELSE proof.id

\* The first proof that names a method.
MethodId(proofs) ==
  LET naming == SelectSeq(proofs, LAMBDA proof : NamedBy(proof) # NoText) IN
  IF naming = <<>> THEN NoText ELSE NamedBy(Head(naming))

\* extract_status_list_urls: more entries than the limit are as good as none.
StatusListUrls(request) ==
  IF Len(request.status) > MaxStatusEntries THEN {}
  ELSE {request.status[n].statusListCredential :
          n \in {k \in DOMAIN request.status :
                   request.status[k].type = "BitstringStatusListEntry"}}
       \ {NoText}

-------------------------------------------------------------------------------
(* Which records govern.                                                   *)

\* contains_private_jwk
ContainsPrivateJwk(o) ==
  \/ {"privateKeyJwk", "secretKeyJwk"} \cap DOMAIN o # {}
  \/ "publicKeyJwk" \in DOMAIN o /\ LET jwk == o.publicKeyJwk IN
       \/ "kty" \notin DOMAIN jwk \/ jwk.kty = "oct"
       \/ {"d", "k"} \cap DOMAIN jwk # {}

\* Wrong: the package's own expiry is forgotten.
UsableAfterExpiry(r, at, critical) ==
  LET v == r.provenance m == r.method IN
  /\ v # NoProvenance
  /\ v.created_at = m.synced_at
  /\ v.created_at <= v.imported_at /\ v.imported_at <= at
  /\ m.status = "active"
  /\ m.not_before <= at /\ at < m.not_after
  /\ at - m.synced_at < Least(critical, TrustCap)
  /\ m.document.id = m.id /\ m.document.controller = m.controller
  /\ ~ContainsPrivateJwk(m.document)

\* open_badge_governed_record_is_usable and open_badge_trust_record_is_usable
Usable(r, at, critical) ==
  LET v == r.provenance m == r.method IN
  /\ v # NoProvenance
  /\ v.created_at = m.synced_at
  /\ v.created_at <= at /\ at < v.expires_at /\ v.created_at < v.expires_at
  /\ v.created_at <= v.imported_at /\ v.imported_at <= at
  /\ m.status = "active"
  /\ m.not_before <= at /\ at < m.not_after /\ m.not_before < m.not_after
  /\ Least(critical, TrustCap) > 0
  /\ at - m.synced_at < Least(critical, TrustCap)
  /\ m.document.id = m.id /\ m.document.controller = m.controller
  /\ ~ContainsPrivateJwk(m.document)

Same(r, q) == r.method.id = q.method.id

\* open_badge_method_trusted, provenance_for_method: the method's own record,
\* or that of its DID document.
RecordFor(governed, id) ==
  LET named(x) == {r \in governed : r.method.id = x} IN
  IF named(id) # {} THEN named(id) ELSE named(Base[id])

\* Wrong: every governed method may vouch for every list.
AuthorityOfAll(governed, r) == governed

\* authority_documents: all that the same package governs.
Authority(governed, r) == {q \in governed : q.provenance = r.provenance}

\* The deadlines of build_authenticated_status_list.
FreshUntil(credential, r, cfg) ==
  Least(Least(credential.validUntil,
              credential.validFrom + Least(cfg.status_list_max_age_hours, StatusCap)),
        Least(r.provenance.created_at + Least(cfg.stale_critical_hours, TrustCap),
              r.provenance.expires_at))

StatusList(url, credential, r, governed, cfg) ==
  [url |-> url, credential |-> credential, signer |-> r,
   authority_documents |-> Authority(governed, r), fresh_until |-> FreshUntil(credential, r, cfg)]

\* build_authenticated_status_list, for the list at u signed by method r.
Admissible(u, r, request, governed, at, cfg) ==
  LET credential == request.document_store[u] IN
  /\ credential.issuer # NoText
  /\ r \in RecordFor(governed, MethodId(credential.proof))
  /\ credential.validFrom \in Nat /\ credential.validUntil \in Nat
  /\ credential.validFrom <= at /\ at < credential.validUntil
  /\ cfg.status_list_max_age_hours > 0 /\ cfg.stale_critical_hours > 0
  /\ FreshUntil(credential, r, cfg) > at

\* A list that fails is left out; only stapled credentials count.
StatusLists(request, governed, at, cfg) ==
  UNION {{StatusList(u, request.document_store[u], r, governed, cfg) :
            r \in {q \in governed : Admissible(u, q, request, governed, at, cfg)}} :
         u \in StatusListUrls(request) \cap DOMAIN request.document_store}

\* What the verifier reports of a list it was given.
Evidence ==
  [purpose : {"revocation", "suspension"}, outcome : {"Good", "Revoked", "Suspended", "Message"}]

\* open_badge_revocation_status
Revocation(checks, valid) ==
  IF \E check \in checks : check.outcome = "Revoked" THEN "Revoked"
  ELSE IF valid /\ \E check \in checks : check.purpose = "revocation" /\ check.outcome = "Good"
       THEN "Valid" ELSE "Unknown"

-------------------------------------------------------------------------------
VARIABLES
  pc, call        \* per call: next step, what it has read

vars == <<usbVars, pc, call>>

Unread ==
  [request |-> CHOOSE q \in Requests : TRUE, config |-> CHOOSE cfg \in BadgeConfigs : TRUE,
   checked_at |-> 0, records |-> {}, unread |-> {}, governed |-> {}, ambiguous |-> {},
   lists |-> {}, checks |-> {}, accepted |-> FALSE, newest |-> {}, judged_at |-> 0,
   status |-> "Invalid", revocation |-> "Unknown"]

Init ==
  /\ UsbInit
  /\ pc = [c \in Calls |-> "idle"]
  /\ call = [c \in Calls |-> Unread]

Goes(c, next, reading) ==
  /\ pc' = [pc EXCEPT ![c] = next]
  /\ call' = [call EXCEPT ![c] = reading]
  /\ UNCHANGED usbVars

\* Open Badges 2.0 is retired, and fail-open is refused.
Begin(c, request, cfg) ==
  /\ pc[c] = "idle"
  /\ request.version = "3.0" /\ cfg.policy # "fail_open"
  /\ Goes(c, "records",
          [Unread EXCEPT !.request = request, !.config = cfg, !.checked_at = clock])

ReadRecords(c) ==
  /\ pc[c] = "records"
  /\ Goes(c, "admit", [call[c] EXCEPT !.records = Records, !.unread = Records])

\* Wrong: the second record of an id replaces the first.
AdmitLast(c, r) ==
  LET b == call[c]
      read == [b EXCEPT !.unread = @ \ {r}]
      usable == Usable(r, b.checked_at, b.config.stale_critical_hours)
      same == {q \in b.governed : Same(q, r)} IN
  /\ pc[c] = "admit" /\ r \in b.unread
  /\ IF usable THEN Goes(c, "admit", [read EXCEPT !.governed = (@ \ same) \cup {r}])
     ELSE Goes(c, "admit", read)

\* The loop of build_governed_open_badge_store: a second usable record of an
\* id takes the first with it, and the id is closed.
Admit(c, r) ==
  LET b == call[c]
      read == [b EXCEPT !.unread = @ \ {r}]
      usable == Usable(r, b.checked_at, b.config.stale_critical_hours)
      same == {q \in b.governed : Same(q, r)} IN
  /\ pc[c] = "admit" /\ r \in b.unread
  /\ IF ~usable \/ r.method.id \in b.ambiguous THEN Goes(c, "admit", read)
     ELSE IF same # {}
     THEN Goes(c, "admit", [read EXCEPT !.governed = @ \ same,
                                        !.ambiguous = @ \cup {r.method.id}])
     ELSE Goes(c, "admit", [read EXCEPT !.governed = @ \cup {r}])

\* A method that is missing or not governed ends the call, without a check.
CheckTrust(c) ==
  LET b == call[c] IN
  /\ pc[c] = "admit" /\ b.unread = {}
  /\ Goes(c, IF RecordFor(b.governed, MethodId(b.request.proof)) # {} THEN "lists" ELSE "done", b)

BuildStatusLists(c) ==
  LET b == call[c] IN
  /\ pc[c] = "lists"
  /\ Goes(c, "verify",
          [b EXCEPT !.lists = StatusLists(b.request, b.governed, b.checked_at, b.config)])

\* verify_ob3_with_status_lists_async, over the governed documents: at most one
\* report per list.
VerifyProof(c) ==
  /\ pc[c] = "verify"
  /\ \E reports \in [call[c].lists -> {{}} \cup {{e} : e \in Evidence}], accepted \in BOOLEAN :
       Goes(c, "newest",
            [call[c] EXCEPT !.checks = UNION {reports[l] : l \in call[c].lists},
                            !.accepted = accepted])

ReadNewest(c) ==
  /\ pc[c] = "newest"
  /\ Goes(c, "classify", [call[c] EXCEPT !.newest = NewestSync])

\* classify_open_badge_trust_freshness; a warning does not change the answer.
Available(newest, at, cfg) ==
  \E t \in newest : t <= at /\ at - t < Least(cfg.stale_critical_hours, TrustCap)

Classify(c) ==
  LET b == call[c]
      valid == b.accepted /\ Available(b.newest, clock, b.config) IN
  /\ pc[c] = "classify"
  /\ Goes(c, "done",
          [b EXCEPT !.judged_at = clock, !.status = IF valid THEN "Valid" ELSE "Invalid",
                    !.revocation = Revocation(b.checks, valid)])

\* A request that is no credential, a storage or verifier error.
CallFails(c) ==
  /\ pc[c] # "done"
  /\ Goes(c, "done", Unread)

Call(c) ==
  \/ \E request \in Requests, cfg \in BadgeConfigs : Begin(c, request, cfg)
  \/ ReadRecords(c)
  \/ \E r \in call[c].unread : Admit(c, r)
  \/ CheckTrust(c) \/ BuildStatusLists(c) \/ VerifyProof(c) \/ ReadNewest(c) \/ Classify(c)
  \/ CallFails(c)

Next ==
  \/ UsbNext /\ UNCHANGED <<pc, call>>
  \/ \E c \in Calls : Call(c)

Spec == Init /\ [][Next]_vars

-------------------------------------------------------------------------------
CallSteps == {"idle", "records", "admit", "lists", "verify", "newest", "classify", "done"}

ASSUME BadgeAssumption ==
  /\ Requests # {} /\ BadgeConfigs # {}
  /\ \A cfg \in BadgeConfigs :
       cfg.stale_critical_hours \in Nat /\ cfg.status_list_max_age_hours \in Nat
  /\ TrustCap \in Nat /\ StatusCap \in Nat
  /\ NoText \notin Identifiers
  /\ \A m \in Legacy : m.synced_at \in Nat
  /\ Base \in [Identifiers \cup {NoText} -> Identifiers \cup {NoText}]

(* Imports and calls are somewhere in their sequence; a call governs by    *)
(* records it read, and admits lists under methods it governs by.          *)
TypeOK ==
  /\ UsbTypeOK
  /\ pc \in [Calls -> CallSteps]
  /\ DOMAIN call = Calls
  /\ \A c \in Calls :
       LET b == call[c] IN
       /\ DOMAIN b = DOMAIN Unread
       /\ b.checked_at \in 0 .. clock /\ b.judged_at \in 0 .. clock
       /\ b.governed \cup b.unread \subseteq b.records
       /\ b.request \in Requests /\ b.config \in BadgeConfigs
       /\ \A l \in b.lists : l.signer \in b.governed
       /\ b.status \in {"Valid", "Invalid"} /\ b.revocation \in {"Valid", "Revoked", "Unknown"}

\* A method of a package that has been imported by then, no earlier than it was
\* made, that has not expired and is not critically old.
InForce(r, at, cfg) ==
  /\ r.provenance # NoProvenance
  /\ r.method.status = "active" /\ r.method.not_before <= at /\ at < r.method.not_after
  /\ at < r.provenance.expires_at
  /\ r.provenance.created_at <= r.provenance.imported_at /\ r.provenance.imported_at <= at
  /\ at < r.provenance.created_at + Least(cfg.stale_critical_hours, TrustCap)

(* "Rejected ... record(s) with invalid lifecycle or binding metadata":    *)
(* whatever the order of the records, and whatever is imported meanwhile,  *)
(* exactly the methods in force whose id no other domain claims govern;    *)
(* that they are bound to their package is the import's doing.             *)
GovernedStoreIsExact ==
  \A c \in Calls :
    LET b == call[c]
        valid == {r \in b.records : InForce(r, b.checked_at, b.config)} IN
    pc[c] \notin {"idle", "records", "admit"} =>
      b.governed = {r \in valid : \A q \in valid : Same(q, r) => q = r}

(* "Open Badge verification method is not trusted": a badge is valid only  *)
(* under a method, or its DID document, that the holder of a pinned key    *)
(* issued as active, and only while some package is not critically stale.  *)
ValidBadgeRestsOnTrust ==
  \A c \in Calls :
    LET b == call[c] IN
    pc[c] = "done" /\ b.status = "Valid" =>
      /\ \E r \in RecordFor(b.governed, MethodId(b.request.proof)), i \in Issued :
           /\ r \in RecordsOf(VerifiedTrustPackage(i.package, i.key, r.provenance.imported_at))
           /\ r.method.status = "active" /\ b.checked_at < r.provenance.expires_at
      /\ \E t \in b.newest : b.judged_at - t < TrustCap

(* "A declared status list was not admitted as authenticated context": an  *)
(* admitted list is vouched for by methods of one unexpired package only,  *)
(* its signer's, is fresh when the call looks, and never outlives that     *)
(* package; without one a badge is not said to be unrevoked.               *)
StatusListsGoverned ==
  \A c \in Calls :
    LET b == call[c] IN
    /\ \A l \in b.lists :
         /\ l.signer \in l.authority_documents
         /\ \A q \in l.authority_documents : q.provenance = l.signer.provenance
         /\ b.checked_at < l.fresh_until /\ l.fresh_until <= l.signer.provenance.expires_at
         /\ l.fresh_until <= l.credential.validFrom + StatusCap
    /\ b.revocation = "Valid" => b.status = "Valid" /\ b.lists # {}

\* A method in force, but for the clock at the time of its import.
Fresh(r, at, cfg) ==
  /\ r.provenance # NoProvenance
  /\ r.method.status = "active" /\ r.method.not_before <= at /\ at < r.method.not_after
  /\ r.provenance.created_at <= at /\ r.provenance.imported_at <= at
  /\ at < r.provenance.expires_at
  /\ at < r.provenance.created_at + Least(cfg.stale_critical_hours, TrustCap)

(* "Package created_at is beyond the allowed clock skew" (usb.rs): within  *)
(* it a package is accepted, and its methods govern once their time comes. *)
SkewedMethodsBecomeUsable ==
  \A c \in Calls :
    pc[c] \notin {"idle", "records", "admit"} =>
      \A r \in call[c].records :
        Fresh(r, call[c].checked_at, call[c].config) =>
          \E q \in call[c].governed : Same(q, r)
===============================================================================
