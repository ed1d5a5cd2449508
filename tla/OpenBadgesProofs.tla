---------------------------- MODULE OpenBadgesProofs ----------------------------
(***************************************************************************)
(* Proofs about OpenBadges, for any packages, requests, configurations,    *)
(* clock and number of calls and imports.  The records a call has read are *)
(* those of signed packages (Genuine, by StoredIsSigned), and its loop     *)
(* keeps, of the records it has passed, those that stand alone (Known).    *)
(***************************************************************************)
EXTENDS OpenBadges, UsbPackageProofs

\* Of a set of records, those whose id no other claims.
Alone(S) == {r \in S : \A q \in S : Same(q, r) => q = r}
Claimed(S) == {r.method.id : r \in S \ Alone(S)}

\* A record of what a key holder issued.
Lists(i, r) ==
  /\ r \in RecordsOf(VerifiedTrustPackage(i.package, i.key, r.provenance.imported_at))
  /\ \A n \in DOMAIN MethodsOf(i.package) : MethodOk(MethodsOf(i.package)[n])
  /\ TimesOk(i.package, r.provenance.imported_at)
  /\ r.provenance.imported_at \in Nat

Genuine(r) ==
  /\ r.provenance = NoProvenance \/ \E i \in Issued : Lists(i, r)
  /\ r.method.synced_at \in Nat

UsableOf(b, S) == {r \in S : Usable(r, b.checked_at, b.config.stale_critical_hours)}

ListOK(l, b) ==
  /\ l.signer \in b.governed
  /\ l.authority_documents = Authority(b.governed, l.signer)
  /\ b.checked_at < l.fresh_until /\ l.fresh_until <= l.signer.provenance.expires_at
  /\ l.fresh_until <= l.credential.validFrom + StatusCap

Before(step) == step \in {"idle", "records"}
Looping(step) == step \in {"idle", "records", "admit"}

\* What a call at this step knows.
Known(step, b) ==
  /\ \A r \in b.records : Genuine(r)
  /\ Before(step) => b.governed = {} /\ b.ambiguous = {}
  /\ ~Before(step) =>
       /\ b.governed = Alone(UsableOf(b, b.records \ b.unread))
       /\ b.ambiguous = Claimed(UsableOf(b, b.records \ b.unread))
  /\ ~Looping(step) => b.unread = {}
  /\ Looping(step) \/ step = "lists" => b.lists = {} /\ b.checks = {}
  /\ \A l \in b.lists : ListOK(l, b)
  /\ step \in {"lists", "verify", "newest", "classify"} \/ b.status = "Valid" =>
       RecordFor(b.governed, MethodId(b.request.proof)) # {}
  /\ b.checks # {} => b.lists # {}
  /\ b.newest \subseteq Nat
  /\ step # "done" => b.status = "Invalid" /\ b.revocation = "Unknown"
  /\ b.status = "Valid" =>
       \E t \in b.newest : b.judged_at - t < Least(b.config.stale_critical_hours, TrustCap)
  /\ b.revocation = "Valid" => b.status = "Valid" /\ b.checks # {}

BadgeInv == TypeOK /\ StoredIsSigned /\ \A c \in Calls : Known(pc[c], call[c])

-------------------------------------------------------------------------------
(* The loop.                                                               *)

LEMMA AloneInSet == ASSUME NEW S PROVE Alone(S) \subseteq S
  BY DEF Alone

\* A new record whose id is closed.
LEMMA AddClosed ==
  ASSUME NEW S, NEW r, r \notin S, r.method.id \in Claimed(S)
  PROVE  Alone(S \cup {r}) = Alone(S) /\ Claimed(S \cup {r}) = Claimed(S)
<1>1. PICK q \in S : q \notin Alone(S) /\ q.method.id = r.method.id
  BY DEF Claimed
<1>2. PICK p \in S : Same(p, q) /\ p # q
  BY <1>1 DEF Alone
<1>3. Alone(S \cup {r}) = Alone(S)
  BY <1>1, <1>2 DEF Alone, Same
<1> QED
  BY <1>1, <1>3 DEF Claimed

\* A new record that meets another one.
LEMMA AddSecond ==
  ASSUME NEW S, NEW r, r \notin S, r.method.id \notin Claimed(S),
         {q \in Alone(S) : Same(q, r)} # {}
  PROVE  /\ Alone(S \cup {r}) = Alone(S) \ {q \in Alone(S) : Same(q, r)}
         /\ Claimed(S \cup {r}) = Claimed(S) \cup {r.method.id}
<1>1. PICK q \in Alone(S) : Same(q, r)
  OBVIOUS
<1>2. q \in S /\ q # r /\ q.method.id = r.method.id
  BY <1>1 DEF Alone, Same
<1>3. Alone(S \cup {r}) = Alone(S) \ {p \in Alone(S) : Same(p, r)}
  BY <1>2 DEF Alone, Same
<1>4. (S \cup {r}) \ Alone(S \cup {r}) = (S \ Alone(S)) \cup {r} \cup {p \in Alone(S) : Same(p, r)}
  BY <1>3, AloneInSet
<1> DEFINE T == {p \in Alone(S) : Same(p, r)}
           R == S \ Alone(S)
<1>5. \A p \in T : p.method.id = r.method.id
  BY DEF Same
<1>6. /\ Claimed(S \cup {r}) = {p.method.id : p \in R \cup {r} \cup T}
      /\ Claimed(S) = {p.method.id : p \in R}
  BY <1>4 DEF Claimed
<1> HIDE DEF T, R
<1>7. Claimed(S \cup {r}) = Claimed(S) \cup {r.method.id}
  BY <1>5, <1>6
<1> QED
  BY <1>3, <1>7

\* A new record of a new id.
LEMMA AddFirst ==
  ASSUME NEW S, NEW r, r \notin S, r.method.id \notin Claimed(S),
         {q \in Alone(S) : Same(q, r)} = {}
  PROVE  Alone(S \cup {r}) = Alone(S) \cup {r} /\ Claimed(S \cup {r}) = Claimed(S)
<1>1. \A q \in S : ~Same(q, r)
  BY DEF Claimed, Same
<1>2. Alone(S \cup {r}) = Alone(S) \cup {r}
  BY <1>1 DEF Alone, Same
<1>3. (S \cup {r}) \ Alone(S \cup {r}) = S \ Alone(S)
  BY <1>2
<1> QED
  BY <1>2, <1>3 DEF Claimed

-------------------------------------------------------------------------------
(* Records are those of signed packages.                                   *)

LEMMA RecordsGenuine ==
  ASSUME UsbTypeOK, StoredIsSigned
  PROVE  \A r \in Records : Genuine(r)
<1> SUFFICES ASSUME NEW r \in Records PROVE Genuine(r)
  OBVIOUS
<1>1. CASE \E m \in Legacy : r = [provenance |-> NoProvenance, method |-> m]
  BY <1>1, BadgeAssumption DEF Genuine
<1>2. ASSUME NEW d \in Domains, stored[d] # NoPackage, r \in RecordsOf(stored[d])
      PROVE  Genuine(r)
  <2>1. PICK i \in Issued : IsOf(stored[d], i)
    BY <1>2 DEF StoredIsSigned
  <2> DEFINE at == stored[d].provenance.imported_at
  <2>2. at \in Nat
    BY <1>2, UsbAssumption DEF UsbTypeOK, Time
  <2>3. r.provenance = stored[d].provenance
    BY <1>2 DEF RecordsOf
  <2>4. r \in RecordsOf(VerifiedTrustPackage(i.package, i.key, at))
    BY <1>2, <2>1 DEF IsOf
  <2>5. Lists(i, r)
    BY <2>1, <2>2, <2>3, <2>4 DEF IsOf, Lists
  <2>6. r.method.synced_at = i.package.created_at
    BY <2>4 DEF RecordsOf, VerifiedTrustPackage, VerificationMethod
  <2> QED
    BY <2>1, <2>5, <2>6 DEF Genuine, IsOf, TimesOk
<1>3. CASE r \in UNION {RecordsOf(stored[d]) : d \in {e \in Domains : stored[e] # NoPackage}}
  <2>1. PICK S \in {RecordsOf(stored[d]) : d \in {e \in Domains : stored[e] # NoPackage}} : r \in S
    BY <1>3
  <2>2. PICK d \in {e \in Domains : stored[e] # NoPackage} : S = RecordsOf(stored[d])
    BY <2>1
  <2> QED
    BY <1>2, <2>1, <2>2
<1>4. CASE r \in {[provenance |-> NoProvenance, method |-> m] : m \in Legacy}
  BY <1>1, <1>4
<1> QED
  <2> DEFINE A == UNION {RecordsOf(stored[d]) : d \in {e \in Domains : stored[e] # NoPackage}}
             B == {[provenance |-> NoProvenance, method |-> m] : m \in Legacy}
  <2>1. Records = A \cup B
    BY DEF Records
  <2>2. r \in A => Genuine(r)
    BY <1>3
  <2>3. r \in B => Genuine(r)
    BY <1>4
  <2> HIDE DEF A, B
  <2> QED
    BY <2>1, <2>2, <2>3

\* What the importer accepts, the verifier does not take for private.
LEMMA ImportedIsPublic ==
  ASSUME NEW o, MethodOk(o) PROVE ~ContainsPrivateJwk(o)
<1>1. ~HasPrivateKey(o) /\ KeyMaterialOk(o)
  BY DEF MethodOk
<1>2. ASSUME "publicKeyJwk" \in DOMAIN o
      PROVE  "kty" \in DOMAIN o.publicKeyJwk /\ o.publicKeyJwk.kty # "oct"
  <2>1. o.type \in DOMAIN KeyField /\ "publicKeyJwk" \in {KeyField[o.type]}
    BY <1>1, <1>2 DEF KeyMaterialOk, KeyFields
  <2>2. o.type = "JsonWebKey2020"
    BY <2>1 DEF KeyField
  <2>3. PublicJwkOk(o.publicKeyJwk)
    BY <1>1, <2>2 DEF KeyMaterialOk
  <2> QED
    BY <2>3 DEF PublicJwkOk, JwkMembers
<1> QED
  BY <1>1, <1>2 DEF HasPrivateKey, ContainsPrivateJwk

\* For a record of a signed package, the code's checks are InForce.
LEMMA UsableIsInForce ==
  ASSUME NEW r, Genuine(r), NEW at \in Nat, NEW cfg \in BadgeConfigs
  PROVE  Usable(r, at, cfg.stale_critical_hours) <=> InForce(r, at, cfg)
<1>1. CASE r.provenance = NoProvenance
  BY <1>1 DEF Usable, InForce
<1>2. CASE r.provenance # NoProvenance
  <2>1. PICK i \in Issued : Lists(i, r)
    BY <1>2 DEF Genuine
  <2> DEFINE v == r.provenance p == i.package
  <2>2. PICK n \in DOMAIN MethodsOf(p) : r.method = VerificationMethod(MethodsOf(p)[n], p.created_at)
    BY <2>1 DEF Lists, RecordsOf, VerifiedTrustPackage
  <2> DEFINE o == MethodsOf(p)[n]
  <2>3. r.provenance = Provenance(p, i.key, v.imported_at)
    BY <2>1 DEF Lists, RecordsOf, VerifiedTrustPackage
  <2>4. v.created_at = p.created_at /\ v.expires_at = p.expires_at
    BY <2>3 DEF Provenance
  <2>5. p.created_at \in Nat /\ p.expires_at \in Nat /\ p.created_at < p.expires_at
        /\ v.imported_at \in Nat
    BY <2>1 DEF Lists, TimesOk
  <2>6. MethodOk(o)
    BY <2>1, <2>2 DEF Lists
  <2>7. /\ r.method.id = o.id /\ r.method.document = o /\ r.method.controller = o.controller
        /\ r.method.not_before = NotBefore(o) /\ r.method.not_after = NotAfter(o)
        /\ r.method.synced_at = p.created_at
    BY <2>2 DEF VerificationMethod
  <2>8. NotBefore(o) < NotAfter(o) /\ ~ContainsPrivateJwk(o)
    BY <2>6, ImportedIsPublic DEF MethodOk
  <2>9. Least(cfg.stale_critical_hours, TrustCap) \in Nat
    BY BadgeAssumption DEF Least
  <2> HIDE DEF v, p, o
  <2> DEFINE age == Least(cfg.stale_critical_hours, TrustCap)
  <2>10. Usable(r, at, cfg.stale_critical_hours) <=>
           /\ v.created_at <= at /\ at < v.expires_at
           /\ v.created_at <= v.imported_at /\ v.imported_at <= at
           /\ r.method.status = "active"
           /\ r.method.not_before <= at /\ at < r.method.not_after
           /\ age > 0 /\ at - r.method.synced_at < age
    BY <1>2, <2>4, <2>5, <2>7, <2>8 DEF Usable, v
  <2>11. InForce(r, at, cfg) <=>
           /\ r.method.status = "active"
           /\ r.method.not_before <= at /\ at < r.method.not_after
           /\ at < v.expires_at
           /\ v.created_at <= v.imported_at /\ v.imported_at <= at
           /\ at < v.created_at + age
    BY <1>2 DEF InForce, v
  <2> HIDE DEF age
  <2>12. v.created_at <= v.imported_at /\ v.imported_at <= at =>
           /\ v.created_at <= at
           /\ at < v.created_at + age <=> (age > 0 /\ at - r.method.synced_at < age)
    BY <2>4, <2>5, <2>7, <2>9 DEF age
  <2> QED
    BY <2>10, <2>11, <2>12
<1> QED
  BY <1>1, <1>2

-------------------------------------------------------------------------------
(* Steps of calls.                                                         *)

\* A step of a call moves that call only.
LEMMA CallFrame ==
  ASSUME TypeOK, NEW c \in Calls, NEW next, NEW reading, Goes(c, next, reading)
  PROVE  /\ pc'[c] = next /\ call'[c] = reading
         /\ \A d \in Calls \ {c} : pc'[d] = pc[d] /\ call'[d] = call[d]
  BY DEF Goes, TypeOK

\* What TypeOK says of one call.
Typed(b) ==
  /\ DOMAIN b = DOMAIN Unread
  /\ b.checked_at \in 0 .. clock /\ b.judged_at \in 0 .. clock
  /\ b.governed \cup b.unread \subseteq b.records
  /\ b.request \in Requests /\ b.config \in BadgeConfigs
  /\ \A l \in b.lists : l.signer \in b.governed
  /\ b.status \in {"Valid", "Invalid"} /\ b.revocation \in {"Valid", "Revoked", "Unknown"}

LEMMA TypedCalls ==
  TypeOK <=> /\ UsbTypeOK /\ pc \in [Calls -> CallSteps] /\ DOMAIN call = Calls
             /\ \A c \in Calls : Typed(call[c])
  BY DEF TypeOK, Typed

\* A step that leaves a call typed, and knowing what it should, keeps BadgeInv.
LEMMA GoesKeeps ==
  ASSUME BadgeInv, NEW c \in Calls, NEW next \in CallSteps, NEW reading, Goes(c, next, reading),
         Typed(reading), Known(next, reading)
  PROVE  BadgeInv'
<1>0. TypeOK /\ StoredIsSigned /\ \A d \in Calls : Known(pc[d], call[d])
  BY DEF BadgeInv
<1>1. /\ pc'[c] = next /\ call'[c] = reading
      /\ \A d \in Calls \ {c} : pc'[d] = pc[d] /\ call'[d] = call[d]
  BY <1>0, CallFrame
<1>2. UNCHANGED usbVars
  BY DEF Goes
<1>3. UsbTypeOK' /\ StoredIsSigned' /\ clock' = clock
  BY <1>0, <1>2 DEF usbVars, UsbTypeOK, StoredIsSigned, TypeOK
<1>4. pc' \in [Calls -> CallSteps] /\ DOMAIN call' = Calls
  BY <1>0 DEF TypeOK, Goes
<1>5. \A d \in Calls : Known(pc'[d], call'[d])
  BY <1>0, <1>1
<1>6. \A d \in Calls : Typed(call[d])
  BY <1>0, TypedCalls
<1>7. ASSUME NEW d \in Calls PROVE Typed(call[d])'
  <2>1. CASE d = c
    BY <1>1, <1>3, <2>1 DEF Typed
  <2>2. CASE d # c
    BY <1>1, <1>3, <1>6, <2>2 DEF Typed
  <2> QED
    BY <2>1, <2>2
<1> QED
  BY <1>3, <1>4, <1>5, <1>7 DEF BadgeInv, TypeOK, Typed

LEMMA UnreadFields ==
  /\ DOMAIN Unread =
       {"request", "config", "checked_at", "records", "unread", "governed", "ambiguous", "lists",
        "checks", "accepted", "newest", "judged_at", "status", "revocation"}
  /\ Unread.records = {} /\ Unread.unread = {} /\ Unread.governed = {} /\ Unread.ambiguous = {}
  /\ Unread.lists = {} /\ Unread.checks = {} /\ Unread.newest = {}
  /\ Unread.checked_at = 0 /\ Unread.judged_at = 0
  /\ Unread.status = "Invalid" /\ Unread.revocation = "Unknown"
  /\ Unread.request \in Requests /\ Unread.config \in BadgeConfigs
  BY BadgeAssumption DEF Unread

LEMMA KnownNothing ==
  ASSUME NEW b, NEW step \in {"idle", "records", "done"},
         b.records = {}, b.unread = {}, b.governed = {}, b.ambiguous = {}, b.lists = {},
         b.checks = {}, b.newest = {}, b.status = "Invalid", b.revocation = "Unknown"
  PROVE  Known(step, b)
  BY DEF Known, Alone, Claimed, UsableOf, Before, Looping

LEMMA BeginKeeps ==
  ASSUME BadgeInv, NEW c \in Calls, NEW q \in Requests, NEW cfg \in BadgeConfigs, Begin(c, q, cfg)
  PROVE  BadgeInv'
<1> DEFINE d == [Unread EXCEPT !.request = q, !.config = cfg, !.checked_at = clock]
<1>1. Goes(c, "records", d)
  BY DEF Begin
<1>2. /\ DOMAIN d = DOMAIN Unread /\ d.request = q /\ d.config = cfg /\ d.checked_at = clock
      /\ d.records = {} /\ d.unread = {} /\ d.governed = {} /\ d.ambiguous = {} /\ d.lists = {}
      /\ d.checks = {} /\ d.newest = {} /\ d.judged_at = 0
      /\ d.status = "Invalid" /\ d.revocation = "Unknown"
  BY UnreadFields
<1> HIDE DEF d
<1>3. clock \in Nat
  BY UsbAssumption DEF BadgeInv, TypeOK, UsbTypeOK, Time
<1>4. Typed(d)
  BY <1>2, <1>3 DEF Typed
<1>5. Known("records", d)
  BY <1>2, KnownNothing
<1> QED
  BY <1>1, <1>4, <1>5, GoesKeeps DEF CallSteps

LEMMA FailsKeeps ==
  ASSUME BadgeInv, NEW c \in Calls, CallFails(c)
  PROVE  BadgeInv'
<1>1. Goes(c, "done", Unread)
  BY DEF CallFails
<1>2. clock \in Nat
  BY UsbAssumption DEF BadgeInv, TypeOK, UsbTypeOK, Time
<1>3. Typed(Unread)
  BY <1>2, UnreadFields DEF Typed
<1>4. Known("done", Unread)
  BY UnreadFields, KnownNothing
<1> QED
  BY <1>1, <1>3, <1>4, GoesKeeps DEF CallSteps

LEMMA ReadKeeps ==
  ASSUME BadgeInv, NEW c \in Calls, ReadRecords(c)
  PROVE  BadgeInv'
<1> DEFINE b == call[c] d == [call[c] EXCEPT !.records = Records, !.unread = Records]
<1>1. Goes(c, "admit", d) /\ pc[c] = "records"
  BY DEF ReadRecords
<1>2. Typed(b) /\ Known("records", b) /\ UsbTypeOK /\ StoredIsSigned
  BY <1>1, TypedCalls DEF BadgeInv
<1>3. /\ DOMAIN d = DOMAIN Unread /\ d.records = Records /\ d.unread = Records
      /\ d.request = b.request /\ d.config = b.config /\ d.checked_at = b.checked_at
      /\ d.governed = b.governed /\ d.ambiguous = b.ambiguous /\ d.lists = b.lists
      /\ d.checks = b.checks /\ d.newest = b.newest /\ d.judged_at = b.judged_at
      /\ d.status = b.status /\ d.revocation = b.revocation
  BY <1>2, UnreadFields DEF Typed
<1>4. \A r \in Records : Genuine(r)
  BY <1>2, RecordsGenuine
<1> HIDE DEF d, b
<1>5. b.governed = {} /\ b.ambiguous = {} /\ b.lists = {} /\ b.checks = {}
      /\ b.status = "Invalid" /\ b.revocation = "Unknown" /\ b.newest \subseteq Nat
  BY <1>2 DEF Known, Before, Looping
<1>6. Typed(d)
  BY <1>2, <1>3, <1>5 DEF Typed
<1>7. UsableOf(d, d.records \ d.unread) = {}
  BY <1>3 DEF UsableOf
<1>8. Known("admit", d)
  BY <1>3, <1>4, <1>5, <1>7 DEF Known, Before, Looping, Alone, Claimed
<1> QED
  BY <1>1, <1>6, <1>8, GoesKeeps DEF CallSteps

LEMMA AdmitKeeps ==
  ASSUME BadgeInv, NEW c \in Calls, NEW r \in call[c].unread, Admit(c, r)
  PROVE  BadgeInv'
<1> DEFINE b == call[c]
           read == [b EXCEPT !.unread = @ \ {r}]
           usable == Usable(r, b.checked_at, b.config.stale_critical_hours)
           same == {q \in b.governed : Same(q, r)}
           S == UsableOf(b, b.records \ b.unread)
<1>1. Typed(b) /\ Known("admit", b) /\ pc[c] = "admit"
  BY TypedCalls DEF BadgeInv, Admit
<1>2. b.governed = Alone(S) /\ b.ambiguous = Claimed(S)
  BY <1>1 DEF Known, Before
<1>3. r \in b.unread /\ b.unread \subseteq b.records /\ r \notin S /\ S \subseteq b.records
  BY <1>1 DEF Typed, UsableOf
<1>4. (b.records \ (b.unread \ {r})) = (b.records \ b.unread) \cup {r}
  BY <1>3
<1>5. UsableOf(b, b.records \ (b.unread \ {r})) = IF usable THEN S \cup {r} ELSE S
  BY <1>4 DEF UsableOf
<1>6. /\ b.lists = {} /\ b.checks = {} /\ b.status = "Invalid" /\ b.revocation = "Unknown"
      /\ b.newest \subseteq Nat /\ \A q \in b.records : Genuine(q)
  BY <1>1 DEF Known, Looping
\* Whatever the loop does with r, it is enough that it keeps Alone and Claimed.
<1>7. ASSUME NEW d, Goes(c, "admit", d), DOMAIN d = DOMAIN Unread,
             d.unread = b.unread \ {r}, d.records = b.records, d.request = b.request,
             d.config = b.config, d.checked_at = b.checked_at, d.lists = b.lists,
             d.checks = b.checks, d.newest = b.newest, d.judged_at = b.judged_at,
             d.status = b.status, d.revocation = b.revocation,
             d.governed = Alone(IF usable THEN S \cup {r} ELSE S),
             d.ambiguous = Claimed(IF usable THEN S \cup {r} ELSE S)
      PROVE  BadgeInv'
  <2>1. UsableOf(d, d.records \ d.unread) = IF usable THEN S \cup {r} ELSE S
    BY <1>5, <1>7 DEF UsableOf
  <2> DEFINE next == IF usable THEN S \cup {r} ELSE S
  <2>a. next \subseteq b.records
    BY <1>3
  <2>b. d.governed = Alone(next) /\ Alone(next) \subseteq next
    BY <1>7, AloneInSet
  <2>2. d.governed \subseteq d.records
    BY <1>7, <2>a, <2>b
  <2>3. Typed(d)
    BY <1>1, <1>3, <1>6, <1>7, <2>2 DEF Typed
  <2>4. Known("admit", d)
    BY <1>6, <1>7, <2>1 DEF Known, Before, Looping
  <2> QED
    BY <1>7, <2>3, <2>4, GoesKeeps DEF CallSteps
<1>8. CASE ~usable \/ r.method.id \in b.ambiguous
  <2>1. Goes(c, "admit", read)
    BY <1>8 DEF Admit
  <2>2. /\ DOMAIN read = DOMAIN Unread /\ read.unread = b.unread \ {r}
        /\ read.records = b.records /\ read.request = b.request /\ read.config = b.config
        /\ read.checked_at = b.checked_at /\ read.lists = b.lists /\ read.checks = b.checks
        /\ read.newest = b.newest /\ read.judged_at = b.judged_at /\ read.status = b.status
        /\ read.revocation = b.revocation /\ read.governed = b.governed
        /\ read.ambiguous = b.ambiguous
    BY <1>1, UnreadFields DEF Typed
  <2>3. /\ b.governed = Alone(IF usable THEN S \cup {r} ELSE S)
        /\ b.ambiguous = Claimed(IF usable THEN S \cup {r} ELSE S)
    BY <1>2, <1>3, <1>8, AddClosed
  <2> HIDE DEF read, usable, S, b
  <2> QED
    BY <1>7, <2>1, <2>2, <2>3
<1>9. CASE usable /\ r.method.id \notin b.ambiguous /\ same # {}
  <2> DEFINE d == [read EXCEPT !.governed = @ \ same, !.ambiguous = @ \cup {r.method.id}]
  <2>1. Goes(c, "admit", d)
    BY <1>9 DEF Admit
  <2>2. /\ DOMAIN d = DOMAIN Unread /\ d.unread = b.unread \ {r}
        /\ d.records = b.records /\ d.request = b.request /\ d.config = b.config
        /\ d.checked_at = b.checked_at /\ d.lists = b.lists /\ d.checks = b.checks
        /\ d.newest = b.newest /\ d.judged_at = b.judged_at /\ d.status = b.status
        /\ d.revocation = b.revocation /\ d.governed = b.governed \ same
        /\ d.ambiguous = b.ambiguous \cup {r.method.id}
    BY <1>1, UnreadFields DEF Typed
  <2>a. r.method.id \notin Claimed(S) /\ same = {q \in Alone(S) : Same(q, r)}
    BY <1>2, <1>9
  <2>b. /\ Alone(S \cup {r}) = d.governed
        /\ Claimed(S \cup {r}) = d.ambiguous
    <3> HIDE DEF S, d, b
    <3> QED
      BY <1>2, <1>3, <1>9, <2>2, <2>a, AddSecond
  <2>3. /\ d.governed = Alone(IF usable THEN S \cup {r} ELSE S)
        /\ d.ambiguous = Claimed(IF usable THEN S \cup {r} ELSE S)
    BY <1>9, <2>b
  <2> HIDE DEF d, read, usable, S, b, same
  <2> QED
    BY <1>7, <2>1, <2>2, <2>3
<1>10. CASE usable /\ r.method.id \notin b.ambiguous /\ same = {}
  <2> DEFINE d == [read EXCEPT !.governed = @ \cup {r}]
  <2>1. Goes(c, "admit", d)
    BY <1>10 DEF Admit
  <2>2. /\ DOMAIN d = DOMAIN Unread /\ d.unread = b.unread \ {r}
        /\ d.records = b.records /\ d.request = b.request /\ d.config = b.config
        /\ d.checked_at = b.checked_at /\ d.lists = b.lists /\ d.checks = b.checks
        /\ d.newest = b.newest /\ d.judged_at = b.judged_at /\ d.status = b.status
        /\ d.revocation = b.revocation /\ d.governed = b.governed \cup {r}
        /\ d.ambiguous = b.ambiguous
    BY <1>1, UnreadFields DEF Typed
  <2>a. r.method.id \notin Claimed(S) /\ same = {q \in Alone(S) : Same(q, r)}
    BY <1>2, <1>10
  <2>b. /\ Alone(S \cup {r}) = d.governed
        /\ Claimed(S \cup {r}) = d.ambiguous
    <3> HIDE DEF S, d, b
    <3> QED
      BY <1>2, <1>3, <1>10, <2>2, <2>a, AddFirst
  <2>3. /\ d.governed = Alone(IF usable THEN S \cup {r} ELSE S)
        /\ d.ambiguous = Claimed(IF usable THEN S \cup {r} ELSE S)
    BY <1>10, <2>b
  <2> HIDE DEF d, read, usable, S, b, same
  <2> QED
    BY <1>7, <2>1, <2>2, <2>3
<1> QED
  BY <1>8, <1>9, <1>10

LEMMA TrustKeeps ==
  ASSUME BadgeInv, NEW c \in Calls, CheckTrust(c)
  PROVE  BadgeInv'
<1> DEFINE b == call[c]
           next == IF RecordFor(b.governed, MethodId(b.request.proof)) # {} THEN "lists" ELSE "done"
<1>1. Goes(c, next, b) /\ pc[c] = "admit" /\ b.unread = {}
  BY DEF CheckTrust
<1>2. Typed(b) /\ Known("admit", b)
  BY <1>1, TypedCalls DEF BadgeInv
<1>3. Known(next, b)
  BY <1>1, <1>2 DEF Known, Before, Looping
<1> QED
  BY <1>1, <1>2, <1>3, GoesKeeps DEF CallSteps

\* An admitted list is fresh, and no longer than what it rests on.
LEMMA AdmittedListOK ==
  ASSUME NEW b, Typed(b), clock \in Nat, \A r \in b.records : Genuine(r),
         \A r \in b.governed : r.provenance # NoProvenance,
         NEW l \in StatusLists(b.request, b.governed, b.checked_at, b.config)
  PROVE  ListOK(l, b)
<1> DEFINE q == b.request g == b.governed cfg == b.config at == b.checked_at
<1>1. PICK u \in StatusListUrls(q) \cap DOMAIN q.document_store, r \in g :
        /\ Admissible(u, r, q, g, at, cfg)
        /\ l = StatusList(u, q.document_store[u], r, g, cfg)
  <2> DEFINE L(u) == {StatusList(u, q.document_store[u], r, g, cfg) :
                        r \in {p \in g : Admissible(u, p, q, g, at, cfg)}}
             U == StatusListUrls(q) \cap DOMAIN q.document_store
  <2>1. l \in UNION {L(u) : u \in U}
    BY DEF StatusLists
  <2> HIDE DEF L, U
  <2>2. PICK u \in U : l \in L(u)
    BY <2>1
  <2>3. PICK r \in g : /\ Admissible(u, r, q, g, at, cfg)
                       /\ l = StatusList(u, q.document_store[u], r, g, cfg)
    BY <2>2 DEF L
  <2> QED
    BY <2>2, <2>3 DEF U
<1> DEFINE cr == q.document_store[u]
<1>2. /\ l.signer = r /\ l.authority_documents = Authority(g, r) /\ l.credential = cr
      /\ l.fresh_until = FreshUntil(cr, r, cfg)
  BY <1>1 DEF StatusList
<1>3. PICK i \in Issued : Lists(i, r)
  BY <1>1 DEF Typed, Genuine
<1>4. r.provenance = Provenance(i.package, i.key, r.provenance.imported_at)
  BY <1>3 DEF Lists, RecordsOf, VerifiedTrustPackage
<1>5. r.provenance.created_at \in Nat /\ r.provenance.expires_at \in Nat
  BY <1>3, <1>4 DEF Lists, TimesOk, Provenance
<1>6. cr.validFrom \in Nat /\ cr.validUntil \in Nat /\ FreshUntil(cr, r, cfg) > at
  BY <1>1 DEF Admissible
<1>7. cfg.status_list_max_age_hours \in Nat /\ cfg.stale_critical_hours \in Nat
      /\ TrustCap \in Nat /\ StatusCap \in Nat
  BY BadgeAssumption DEF Typed
<1>8. at \in Nat
  BY DEF Typed
<1> HIDE DEF cr, at, cfg, g, q
<1>9. /\ FreshUntil(cr, r, cfg) \in Nat
      /\ FreshUntil(cr, r, cfg) <= r.provenance.expires_at
      /\ FreshUntil(cr, r, cfg) <= cr.validFrom + StatusCap
  BY <1>5, <1>6, <1>7 DEF FreshUntil, Least
<1>10. at < FreshUntil(cr, r, cfg)
  BY <1>6, <1>8, <1>9
<1> QED
  BY <1>1, <1>2, <1>9, <1>10 DEF ListOK, g, at

\* What governs is usable, so it comes from a signed package.
LEMMA GovernedGenuine ==
  ASSUME NEW b, NEW step, Known(step, b), ~Looping(step) \/ b.governed # {}, NEW r \in b.governed
  PROVE  r.provenance # NoProvenance /\ Usable(r, b.checked_at, b.config.stale_critical_hours)
<1>1. ~Before(step)
  BY DEF Known, Before, Looping
<1>2. r \in UsableOf(b, b.records \ b.unread)
  BY <1>1, AloneInSet DEF Known
<1> QED
  BY <1>2 DEF UsableOf, Usable

LEMMA ListsKeep ==
  ASSUME BadgeInv, NEW c \in Calls, BuildStatusLists(c)
  PROVE  BadgeInv'
<1> DEFINE b == call[c]
           L == StatusLists(b.request, b.governed, b.checked_at, b.config)
           d == [b EXCEPT !.lists = L]
<1>1. Goes(c, "verify", d) /\ pc[c] = "lists"
  BY DEF BuildStatusLists
<1>2. Typed(b) /\ Known("lists", b)
  BY <1>1, TypedCalls DEF BadgeInv
<1>3. /\ DOMAIN d = DOMAIN Unread /\ d.records = b.records /\ d.unread = b.unread
      /\ d.request = b.request /\ d.config = b.config /\ d.checked_at = b.checked_at
      /\ d.governed = b.governed /\ d.ambiguous = b.ambiguous /\ d.lists = L
      /\ d.checks = b.checks /\ d.newest = b.newest /\ d.judged_at = b.judged_at
      /\ d.status = b.status /\ d.revocation = b.revocation
  BY <1>2, UnreadFields DEF Typed
<1>4. clock \in Nat
  BY UsbAssumption DEF BadgeInv, TypeOK, UsbTypeOK, Time
<1>5. \A r \in b.governed : r.provenance # NoProvenance
  BY <1>2, GovernedGenuine
<1>6. \A l \in L : ListOK(l, b)
  BY <1>2, <1>4, <1>5, AdmittedListOK DEF Known
<1> HIDE DEF d, L, b
<1>7. \A l \in L : ListOK(l, d)
  BY <1>3, <1>6 DEF ListOK
<1>8. Typed(d)
  BY <1>2, <1>3, <1>6 DEF Typed, ListOK
<1>9. UsableOf(d, d.records \ d.unread) = UsableOf(b, b.records \ b.unread)
  BY <1>3 DEF UsableOf
<1>10. Known("verify", d)
  BY <1>2, <1>3, <1>7, <1>9 DEF Known, Before, Looping
<1> QED
  BY <1>1, <1>8, <1>10, GoesKeeps DEF CallSteps

LEMMA ProofKeeps ==
  ASSUME BadgeInv, NEW c \in Calls, VerifyProof(c)
  PROVE  BadgeInv'
<1> DEFINE b == call[c]
<1>1. pc[c] = "verify"
  BY DEF VerifyProof
<1>2. PICK reports \in [b.lists -> {{}} \cup {{e} : e \in Evidence}], accepted \in BOOLEAN :
        Goes(c, "newest",
             [b EXCEPT !.checks = UNION {reports[l] : l \in b.lists}, !.accepted = accepted])
  BY DEF VerifyProof
<1> DEFINE C == UNION {reports[l] : l \in b.lists}
           d == [b EXCEPT !.checks = C, !.accepted = accepted]
<1>3. Typed(b) /\ Known("verify", b)
  BY <1>1, TypedCalls DEF BadgeInv
<1>4. /\ DOMAIN d = DOMAIN Unread /\ d.records = b.records /\ d.unread = b.unread
      /\ d.request = b.request /\ d.config = b.config /\ d.checked_at = b.checked_at
      /\ d.governed = b.governed /\ d.ambiguous = b.ambiguous /\ d.lists = b.lists
      /\ d.checks = C /\ d.newest = b.newest /\ d.judged_at = b.judged_at
      /\ d.status = b.status /\ d.revocation = b.revocation
  BY <1>3, UnreadFields DEF Typed
<1>5. C # {} => b.lists # {}
  OBVIOUS
<1>6. Goes(c, "newest", d)
  BY <1>2
<1> HIDE DEF d, C, b
<1>7. Typed(d)
  BY <1>3, <1>4 DEF Typed
<1>8. UsableOf(d, d.records \ d.unread) = UsableOf(b, b.records \ b.unread)
  BY <1>4 DEF UsableOf
<1>9. \A l \in d.lists : ListOK(l, d)
  BY <1>3, <1>4 DEF Known, ListOK
<1>10. Known("newest", d)
  BY <1>3, <1>4, <1>5, <1>8, <1>9 DEF Known, Before, Looping
<1> QED
  BY <1>6, <1>7, <1>10, GoesKeeps DEF CallSteps

LEMMA NewestIsTime ==
  ASSUME UsbTypeOK, StoredIsSigned PROVE NewestSync \subseteq Nat
<1>1. \A r \in Records : r.method.synced_at \in Nat
  BY RecordsGenuine DEF Genuine
<1> QED
  BY <1>1 DEF NewestSync

LEMMA NewestKeeps ==
  ASSUME BadgeInv, NEW c \in Calls, ReadNewest(c)
  PROVE  BadgeInv'
<1> DEFINE b == call[c] d == [b EXCEPT !.newest = NewestSync]
<1>1. Goes(c, "classify", d) /\ pc[c] = "newest"
  BY DEF ReadNewest
<1>2. Typed(b) /\ Known("newest", b) /\ NewestSync \subseteq Nat
  BY <1>1, TypedCalls, NewestIsTime DEF BadgeInv
<1>3. /\ DOMAIN d = DOMAIN Unread /\ d.records = b.records /\ d.unread = b.unread
      /\ d.request = b.request /\ d.config = b.config /\ d.checked_at = b.checked_at
      /\ d.governed = b.governed /\ d.ambiguous = b.ambiguous /\ d.lists = b.lists
      /\ d.checks = b.checks /\ d.newest = NewestSync /\ d.judged_at = b.judged_at
      /\ d.status = b.status /\ d.revocation = b.revocation
  BY <1>2, UnreadFields DEF Typed
<1> HIDE DEF d, b
<1>4. Typed(d)
  BY <1>2, <1>3 DEF Typed
<1>5. UsableOf(d, d.records \ d.unread) = UsableOf(b, b.records \ b.unread)
  BY <1>3 DEF UsableOf
<1>6. \A l \in d.lists : ListOK(l, d)
  BY <1>2, <1>3 DEF Known, ListOK
<1>7. b.status = "Invalid" /\ b.revocation = "Unknown"
  BY <1>2 DEF Known
<1>8. Known("classify", d)
  BY <1>2, <1>3, <1>5, <1>6, <1>7 DEF Known, Before, Looping
<1> QED
  BY <1>1, <1>4, <1>8, GoesKeeps DEF CallSteps

LEMMA ClassifyKeeps ==
  ASSUME BadgeInv, NEW c \in Calls, Classify(c)
  PROVE  BadgeInv'
<1> DEFINE b == call[c]
           valid == b.accepted /\ Available(b.newest, clock, b.config)
           answer == IF valid THEN "Valid" ELSE "Invalid"
           rev == Revocation(b.checks, valid)
           d == [b EXCEPT !.judged_at = clock, !.status = answer, !.revocation = rev]
<1>1. Goes(c, "done", d) /\ pc[c] = "classify"
  BY DEF Classify
<1>2. Typed(b) /\ Known("classify", b)
  BY <1>1, TypedCalls DEF BadgeInv
<1>3. /\ DOMAIN d = DOMAIN Unread /\ d.records = b.records /\ d.unread = b.unread
      /\ d.request = b.request /\ d.config = b.config /\ d.checked_at = b.checked_at
      /\ d.governed = b.governed /\ d.ambiguous = b.ambiguous /\ d.lists = b.lists
      /\ d.checks = b.checks /\ d.newest = b.newest /\ d.judged_at = clock
      /\ d.status = answer /\ d.revocation = rev
  BY <1>2, UnreadFields DEF Typed
<1>4. clock \in Nat
  BY UsbAssumption DEF BadgeInv, TypeOK, UsbTypeOK, Time
<1>5. /\ answer \in {"Valid", "Invalid"} /\ rev \in {"Valid", "Revoked", "Unknown"}
      /\ rev = "Valid" => answer = "Valid" /\ b.checks # {}
      /\ answer = "Valid" =>
           \E t \in b.newest : clock - t < Least(b.config.stale_critical_hours, TrustCap)
  <2>1. answer = "Valid" <=> valid
    OBVIOUS
  <2>2. valid =>
           \E t \in b.newest : clock - t < Least(b.config.stale_critical_hours, TrustCap)
    BY DEF Available
  <2>3. rev \in {"Valid", "Revoked", "Unknown"} /\ (rev = "Valid" => valid /\ b.checks # {})
    <3> HIDE DEF valid, b
    <3> QED
      BY DEF Revocation
  <2>4. answer \in {"Valid", "Invalid"}
    OBVIOUS
  <2> HIDE DEF answer, rev, valid, b
  <2> QED
    BY <2>1, <2>2, <2>3, <2>4
<1> HIDE DEF d, b, valid, answer, rev
<1>6. Typed(d)
  BY <1>2, <1>3, <1>4, <1>5 DEF Typed
<1>7. UsableOf(d, d.records \ d.unread) = UsableOf(b, b.records \ b.unread)
  BY <1>3 DEF UsableOf
<1>8. \A l \in d.lists : ListOK(l, d)
  BY <1>2, <1>3 DEF Known, ListOK
<1>9. Known("done", d)
  BY <1>2, <1>3, <1>5, <1>7, <1>8 DEF Known, Before, Looping
<1> QED
  BY <1>1, <1>6, <1>9, GoesKeeps DEF CallSteps

-------------------------------------------------------------------------------
(* The invariant.                                                          *)

LEMMA ClockAdvances == UsbTypeOK /\ [UsbNext]_usbVars => clock' >= clock
<1> SUFFICES ASSUME UsbTypeOK, [UsbNext]_usbVars PROVE clock' >= clock
  OBVIOUS
<1>1. clock \in Nat
  BY UsbAssumption DEF UsbTypeOK, Time
<1>2. CASE Tick
  BY <1>1, <1>2 DEF Tick
<1>3. CASE SwapMedium \/ InstallKeys \/ UNCHANGED usbVars
  BY <1>1, <1>3 DEF SwapMedium, InstallKeys, usbVars
<1>4. CASE \E i \in Imports : Import(i)
  BY <1>1, <1>4 DEF Import, Open, ReadFile, LoadSigningKey, LoadRecoveryKey, Verify, Apply,
       ImportFails
<1> QED
  BY <1>2, <1>3, <1>4 DEF UsbNext

LEMMA UsbStepKeeps ==
  ASSUME BadgeInv, [UsbNext]_usbVars, UNCHANGED <<pc, call>>
  PROVE  BadgeInv'
<1>1. TypeOK /\ StoredIsSigned /\ \A c \in Calls : Known(pc[c], call[c])
  BY DEF BadgeInv
<1>2. UsbTypeOK
  BY <1>1 DEF TypeOK
<1>3. UsbTypeOK' /\ StoredIsSigned'
  BY <1>1, <1>2, UsbTypeStep, SignedStep
<1>4. clock \in Nat /\ clock' \in Nat /\ clock' >= clock
  BY <1>2, <1>3, ClockAdvances, UsbAssumption DEF UsbTypeOK, Time
<1>5. pc' \in [Calls -> CallSteps] /\ DOMAIN call' = Calls
  BY <1>1 DEF TypeOK
<1>6. ASSUME NEW c \in Calls PROVE Typed(call[c])'
  <2>1. Typed(call[c])
    BY <1>1, TypedCalls
  <2> QED
    BY <1>4, <2>1 DEF Typed
<1>7. \A c \in Calls : Known(pc'[c], call'[c])
  BY <1>1
<1> QED
  BY <1>3, <1>5, <1>6, <1>7 DEF BadgeInv, TypeOK, Typed

LEMMA BadgeInit == Init => BadgeInv
<1> SUFFICES ASSUME Init PROVE BadgeInv
  OBVIOUS
<1>1. UsbTypeOK /\ StoredIsSigned
  BY UsbTypeInit, SignedInit DEF Init
<1>2. clock \in Nat
  BY <1>1, UsbAssumption DEF UsbTypeOK, Time
<1>3. Typed(Unread)
  BY <1>2, UnreadFields DEF Typed
<1>4. Known("idle", Unread)
  BY UnreadFields, KnownNothing
<1>5. pc \in [Calls -> CallSteps] /\ DOMAIN call = Calls
      /\ \A c \in Calls : pc[c] = "idle" /\ call[c] = Unread
  BY DEF Init, CallSteps
<1>6. TypeOK
  BY <1>1, <1>3, <1>5, TypedCalls
<1> QED
  BY <1>1, <1>4, <1>5, <1>6 DEF BadgeInv

LEMMA BadgeStep == BadgeInv /\ [Next]_vars => BadgeInv'
<1> SUFFICES ASSUME BadgeInv, [Next]_vars PROVE BadgeInv'
  OBVIOUS
<1>1. CASE UsbNext /\ UNCHANGED <<pc, call>>
  BY <1>1, UsbStepKeeps
<1>2. CASE UNCHANGED vars
  BY <1>2, UsbStepKeeps DEF vars
<1>3. ASSUME NEW c \in Calls, Call(c) PROVE BadgeInv'
  <2>1. CASE \E q \in Requests, cfg \in BadgeConfigs : Begin(c, q, cfg)
    BY <2>1, BeginKeeps
  <2>2. CASE ReadRecords(c)
    BY <2>2, ReadKeeps
  <2>3. CASE \E r \in call[c].unread : Admit(c, r)
    BY <2>3, AdmitKeeps
  <2>4. CASE CheckTrust(c)
    BY <2>4, TrustKeeps
  <2>5. CASE BuildStatusLists(c)
    BY <2>5, ListsKeep
  <2>6. CASE VerifyProof(c)
    BY <2>6, ProofKeeps
  <2>7. CASE ReadNewest(c)
    BY <2>7, NewestKeeps
  <2>8. CASE Classify(c)
    BY <2>8, ClassifyKeeps
  <2>9. CASE CallFails(c)
    BY <2>9, FailsKeeps
  <2> QED
    BY <1>3, <2>1, <2>2, <2>3, <2>4, <2>5, <2>6, <2>7, <2>8, <2>9 DEF Call
<1> QED
  BY <1>1, <1>2, <1>3 DEF Next

LEMMA BadgeInvHolds == Spec => []BadgeInv
  BY BadgeInit, BadgeStep, PTL DEF Spec

-------------------------------------------------------------------------------
(* What follows from it.                                                   *)

LEMMA ExactFollows == BadgeInv => GovernedStoreIsExact
<1> SUFFICES ASSUME BadgeInv, NEW c \in Calls, pc[c] \notin {"idle", "records", "admit"}
             PROVE  LET b == call[c]
                        valid == {r \in b.records : InForce(r, b.checked_at, b.config)} IN
                    b.governed = {r \in valid : \A q \in valid : Same(q, r) => q = r}
  BY DEF GovernedStoreIsExact
<1> DEFINE b == call[c]
           valid == {r \in b.records : InForce(r, b.checked_at, b.config)}
<1>1. Typed(b) /\ Known(pc[c], b)
  BY TypedCalls DEF BadgeInv
<1>2. ~Looping(pc[c]) /\ ~Before(pc[c])
  BY DEF Looping, Before
<1> HIDE DEF b
<1>3. b.unread = {} /\ b.governed = Alone(UsableOf(b, b.records \ b.unread))
      /\ \A r \in b.records : Genuine(r)
  BY <1>1, <1>2 DEF Known
<1>4. b.checked_at \in Nat /\ b.config \in BadgeConfigs
  BY <1>1 DEF Typed
<1>5. UsableOf(b, b.records \ b.unread) = valid
  BY <1>3, <1>4, UsableIsInForce DEF UsableOf
<1>6. b.governed = Alone(valid)
  BY <1>3, <1>5
<1> HIDE DEF valid
<1>7. b.governed = {r \in valid : \A q \in valid : Same(q, r) => q = r}
  BY <1>6 DEF Alone
<1> QED
  BY <1>7 DEF b, valid

LEMMA ValidFollows == BadgeInv => ValidBadgeRestsOnTrust
<1> SUFFICES ASSUME BadgeInv, NEW c \in Calls, pc[c] = "done", call[c].status = "Valid"
             PROVE  LET b == call[c] IN
                    /\ \E r \in RecordFor(b.governed, MethodId(b.request.proof)), i \in Issued :
                         /\ r \in RecordsOf(VerifiedTrustPackage(i.package, i.key,
                                                                 r.provenance.imported_at))
                         /\ r.method.status = "active" /\ b.checked_at < r.provenance.expires_at
                    /\ \E t \in b.newest : b.judged_at - t < TrustCap
  BY DEF ValidBadgeRestsOnTrust
<1> DEFINE b == call[c]
<1>1. Typed(b) /\ Known("done", b) /\ b.status = "Valid"
  BY TypedCalls DEF BadgeInv
<1> HIDE DEF b
<1>2. RecordFor(b.governed, MethodId(b.request.proof)) # {}
  BY <1>1 DEF Known
<1>3. PICK r \in RecordFor(b.governed, MethodId(b.request.proof)) : TRUE
  BY <1>2
<1>4. r \in b.governed
  BY <1>3 DEF RecordFor
<1>5. r.provenance # NoProvenance /\ Usable(r, b.checked_at, b.config.stale_critical_hours)
  BY <1>1, <1>4, GovernedGenuine
<1>6. Genuine(r)
  BY <1>1, <1>4 DEF Known, Typed
<1>7. PICK i \in Issued : Lists(i, r)
  BY <1>5, <1>6 DEF Genuine
<1>8. /\ r \in RecordsOf(VerifiedTrustPackage(i.package, i.key, r.provenance.imported_at))
      /\ r.method.status = "active" /\ b.checked_at < r.provenance.expires_at
  BY <1>5, <1>7 DEF Lists, Usable
<1>9. \E t \in b.newest : b.judged_at - t < TrustCap
  <2>1. PICK t \in b.newest :
          b.judged_at - t < Least(b.config.stale_critical_hours, TrustCap)
    BY <1>1 DEF Known
  <2>2. t \in Nat /\ b.judged_at \in Nat
    BY <1>1 DEF Known, Typed
  <2>3. Least(b.config.stale_critical_hours, TrustCap) <= TrustCap
        /\ Least(b.config.stale_critical_hours, TrustCap) \in Nat /\ TrustCap \in Nat
    BY <1>1, BadgeAssumption DEF Typed, Least
  <2>4. b.judged_at - t < TrustCap
    BY <2>1, <2>2, <2>3
  <2> QED
    BY <2>4
<1> QED
  BY <1>3, <1>8, <1>9 DEF b

LEMMA ListsFollow == BadgeInv => StatusListsGoverned
<1> SUFFICES ASSUME BadgeInv, NEW c \in Calls
             PROVE  LET b == call[c] IN
                    /\ \A l \in b.lists :
                         /\ l.signer \in l.authority_documents
                         /\ \A q \in l.authority_documents : q.provenance = l.signer.provenance
                         /\ b.checked_at < l.fresh_until
                         /\ l.fresh_until <= l.signer.provenance.expires_at
                         /\ l.fresh_until <= l.credential.validFrom + StatusCap
                    /\ b.revocation = "Valid" => b.status = "Valid" /\ b.lists # {}
  BY DEF StatusListsGoverned
<1> DEFINE b == call[c]
<1>1. Known(pc[c], b)
  BY DEF BadgeInv
<1> HIDE DEF b
<1>2. \A l \in b.lists : ListOK(l, b)
  BY <1>1 DEF Known
<1>3. b.revocation = "Valid" => b.status = "Valid" /\ b.lists # {}
  BY <1>1 DEF Known
<1> QED
  BY <1>2, <1>3 DEF ListOK, Authority, b

\* For any packages, requests and clock: a call governs by records it has read,
\* and admits status lists under methods it governs by.
THEOREM TypeHolds == Spec => []TypeOK
<1>1. BadgeInv => TypeOK
  BY DEF BadgeInv
<1> QED
  BY <1>1, BadgeInvHolds, PTL

\* Whatever badge calls do meanwhile, a stored package is one that the holder of
\* its signer key issued, record for record.
THEOREM SignedHolds == Spec => []StoredIsSigned
<1>1. BadgeInv => StoredIsSigned
  BY DEF BadgeInv
<1> QED
  BY <1>1, BadgeInvHolds, PTL

\* The loop over the records admits the methods in force that no other domain
\* claims: neither the order of the records nor an import in between matters.
THEOREM GovernedHolds == Spec => []GovernedStoreIsExact
  BY ExactFollows, BadgeInvHolds, PTL

\* A valid answer rests on an active method of a package that the holder of its
\* signer key issued, and on a synchronization that is not critically old.
THEOREM ValidBadgeHolds == Spec => []ValidBadgeRestsOnTrust
  BY ValidFollows, BadgeInvHolds, PTL

\* An admitted status list is vouched for by one package, the one of its signer,
\* and is no longer fresh than that package.
THEOREM ListsHold == Spec => []StatusListsGoverned
  BY ListsFollow, BadgeInvHolds, PTL

-------------------------------------------------------------------------------
(* Packages made by a clock that is ahead.                                 *)

LEMMA ForwardFollows ==
  BadgeInv /\ [Next]_vars => [\A d \in Domains : GoesForward(d)]_stored
<1> SUFFICES ASSUME BadgeInv, [Next]_vars PROVE \A d \in Domains : GoesForward(d)
  OBVIOUS
<1>1. UsbTypeOK /\ StoredIsSigned
  BY DEF BadgeInv, TypeOK
<1>2. [UsbNext]_usbVars
  <2>1. CASE \E c \in Calls : Call(c)
    BY <2>1 DEF Call, Begin, ReadRecords, Admit, CheckTrust, BuildStatusLists, VerifyProof,
         ReadNewest, Classify, CallFails, Goes
  <2>2. CASE UNCHANGED vars
    BY <2>2 DEF vars
  <2> QED
    BY <2>1, <2>2 DEF Next
<1> QED
  BY <1>1, <1>2, ForwardStep

\* Badge calls leave the records alone: with them, too, the records of a domain
\* are replaced only by an issued package that succeeds the one in place.
THEOREM RecordsGoForward == Spec => [][\A d \in Domains : GoesForward(d)]_stored
  BY ForwardFollows, BadgeInvHolds, PTL DEF Spec

\* A package that was imported before the time it gives as its making.
Skewed(provenance) == provenance.imported_at < provenance.created_at

SkewedStayOut ==
  \A c \in Calls : \A r \in call[c].governed : ~Skewed(r.provenance)

LEMMA SkewedFollows == BadgeInv => SkewedStayOut
<1> SUFFICES ASSUME BadgeInv, NEW c \in Calls, NEW r \in call[c].governed
             PROVE  ~Skewed(r.provenance)
  BY DEF SkewedStayOut
<1>1. Typed(call[c]) /\ Known(pc[c], call[c])
  BY TypedCalls DEF BadgeInv
<1>2. Usable(r, call[c].checked_at, call[c].config.stale_critical_hours) /\ Genuine(r)
      /\ r.provenance # NoProvenance
  BY <1>1, GovernedGenuine DEF Known, Typed
<1>3. PICK i \in Issued : Lists(i, r)
  BY <1>2 DEF Genuine
<1>4. r.provenance.imported_at \in Nat /\ r.provenance.created_at \in Nat
  <2>1. r.provenance = Provenance(i.package, i.key, r.provenance.imported_at)
    BY <1>3 DEF Lists, RecordsOf, VerifiedTrustPackage
  <2>2. r.provenance.created_at = i.package.created_at
    BY <2>1 DEF Provenance
  <2> QED
    BY <1>3, <2>2 DEF Lists, TimesOk
<1> QED
  BY <1>2, <1>4 DEF Usable, Skewed

\* Whatever the clock has come to, a method of a package that was imported before
\* the time of its making, which the importer allows within its skew, never
\* governs (open_badge_governed_record_is_usable).
THEOREM SkewedStayOutHolds == Spec => []SkewedStayOut
  BY SkewedFollows, BadgeInvHolds, PTL

\* A domain whose records are those of a package that was skewed at its import.
HoldsSkewed(d, package) == stored[d] = package /\ Skewed(package.provenance)

LEMMA SkewedStep ==
  ASSUME NEW d \in Domains, NEW package, BadgeInv, [Next]_vars, HoldsSkewed(d, package),
         package # NoPackage
  PROVE  HoldsSkewed(d, package)' \/ Succeeds(package, stored'[d])
<1>1. GoesForward(d) \/ stored' = stored
  BY ForwardFollows
<1> QED
  BY <1>1 DEF HoldsSkewed, GoesForward

\* Its methods stay shut out: no passing of time and no second import of it helps,
\* the domain holds those records until a package succeeds it.
THEOREM SkewedUntilSucceeded ==
  ASSUME NEW d \in Domains, NEW package, package # NoPackage
  PROVE  Spec => [][HoldsSkewed(d, package) =>
                      HoldsSkewed(d, package)' \/ Succeeds(package, stored'[d])]_vars
<1>1. BadgeInv /\ [Next]_vars =>
        [HoldsSkewed(d, package) =>
           HoldsSkewed(d, package)' \/ Succeeds(package, stored'[d])]_vars
  BY SkewedStep
<1> QED
  BY <1>1, BadgeInvHolds, PTL DEF Spec
===============================================================================
