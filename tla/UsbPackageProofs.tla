---------------------------- MODULE UsbPackageProofs ----------------------------
(***************************************************************************)
(* Proofs about UsbPackage, for any packages, media, keys, domains, clock  *)
(* and number of imports.  What an import carries has passed the checks of *)
(* the step before (UsbTypeOK); a signature holds for one package only, as *)
(* long as its number is one that doubles tell apart (SamePayload).        *)
(***************************************************************************)
EXTENDS UsbPackage, TLAPS

\* Every step of an import moves that import only.
LEMMA AdvanceFrame ==
  ASSUME UsbTypeOK, NEW i \in Imports, NEW next, NEW reading, Advances(i, next, reading)
  PROVE  /\ ipc'[i] = next /\ ilocal'[i] = reading
         /\ \A j \in Imports \ {i} : ipc'[j] = ipc[j] /\ ilocal'[j] = ilocal[j]
  BY DEF Advances, UsbTypeOK

\* What a task has read at its step.
Carries(j) ==
  /\ ipc[j] \in {"signing", "recovery", "verify", "apply"} => ilocal[j].file \in Files
  /\ ipc[j] \in {"recovery", "verify", "apply"} => ilocal[j].signing \in Keys
  /\ ipc[j] = "apply" =>
       Verifies(ilocal[j].file, ilocal[j].signing, ilocal[j].recovery, ilocal[j].imported_at)
  /\ ilocal[j].imported_at <= clock

Locals ==
  [file : Files \cup {NoFile}, signing : Keys \cup {NoKey}, recovery : Keys \cup {NoKey},
   imported_at : Time]

LEMMA TypeParts ==
  UsbTypeOK <=>
    /\ clock \in Time /\ medium \in Files \cup {NoFile} /\ keys \in KeyFiles
    /\ ipc \in [Imports -> ImportSteps] /\ ilocal \in [Imports -> Locals]
    /\ \A j \in Imports : Carries(j)
    /\ DOMAIN stored = Domains
    /\ \A d \in Domains : stored[d] # NoPackage =>
         stored[d].provenance.trust_domain = d /\ stored[d].provenance.imported_at \in 0 .. clock
    /\ swaps \in 0 .. MaxSwaps
  BY DEF UsbTypeOK, Carries, Locals

LEMMA NothingTyped == Nothing \in Locals /\ Nothing.imported_at = 0
  BY UsbAssumption DEF Nothing, Locals, Time

LEMMA UsbTypeInit == UsbInit => UsbTypeOK
<1> SUFFICES ASSUME UsbInit PROVE UsbTypeOK
  OBVIOUS
<1>1. \A j \in Imports : Carries(j)
  BY NothingTyped DEF UsbInit, Carries
<1>2. ilocal \in [Imports -> Locals]
  BY NothingTyped DEF UsbInit
<1> QED
  BY <1>1, <1>2, TypeParts, UsbAssumption DEF UsbInit, ImportSteps, Time

\* A step that moves one import to a place whose needs are met, and changes
\* neither clock, keys nor what is stored.
LEMMA AdvanceTyped ==
  ASSUME UsbTypeOK, NEW i \in Imports, NEW next \in ImportSteps, NEW reading \in Locals,
         Advances(i, next, reading),
         UNCHANGED <<clock, medium, keys, swaps>>,
         next \in {"signing", "recovery", "verify", "apply"} => reading.file \in Files,
         next \in {"recovery", "verify", "apply"} => reading.signing \in Keys,
         next = "apply" =>
           Verifies(reading.file, reading.signing, reading.recovery, reading.imported_at),
         reading.imported_at <= clock,
         DOMAIN stored' = Domains,
         \A d \in Domains : stored'[d] # NoPackage =>
           /\ stored'[d].provenance.trust_domain = d
           /\ stored'[d].provenance.imported_at \in 0 .. clock
  PROVE  UsbTypeOK'
<1>1. ASSUME NEW j \in Imports PROVE Carries(j)'
  <2>1. Carries(j)
    BY TypeParts
  <2>2. CASE j = i
    BY <2>2, AdvanceFrame DEF Carries
  <2>3. CASE j # i
    BY <2>1, <2>3, AdvanceFrame DEF Carries
  <2> QED
    BY <2>2, <2>3
<1>2. ipc' \in [Imports -> ImportSteps] /\ ilocal' \in [Imports -> Locals]
  BY TypeParts DEF Advances
<1>3. clock' = clock /\ medium' = medium /\ keys' = keys /\ swaps' = swaps
  OBVIOUS
<1> QED
  BY <1>1, <1>2, <1>3, TypeParts DEF UsbTypeOK, Carries, Locals

LEMMA ImportTyped ==
  ASSUME UsbTypeOK, NEW i \in Imports, Import(i)
  PROVE  UsbTypeOK'
<1> USE DEF ImportSteps
<1>0. /\ Carries(i) /\ ilocal[i] \in Locals /\ clock \in Time
      /\ DOMAIN stored = Domains
      /\ \A d \in Domains : stored[d] # NoPackage =>
           stored[d].provenance.trust_domain = d /\ stored[d].provenance.imported_at \in 0 .. clock
  BY TypeParts
<1>00. clock \in Nat /\ 0 <= clock
  BY <1>0, UsbAssumption DEF Time
<1>1. CASE Open(i)
  <2>1. Advances(i, "read", Nothing) /\ UNCHANGED <<clock, medium, keys, stored, swaps>>
    BY <1>1 DEF Open
  <2> QED
    BY <1>0, <1>00, <2>1, NothingTyped, AdvanceTyped
<1>2. CASE ReadFile(i)
  <2> DEFINE reading == [ilocal[i] EXCEPT !.file = medium]
  <2>1. /\ Advances(i, "signing", reading) /\ UNCHANGED <<clock, medium, keys, stored, swaps>>
        /\ medium \in Files
    BY <1>2, TypeParts DEF ReadFile
  <2>2. reading \in Locals /\ reading.file = medium
        /\ reading.imported_at = ilocal[i].imported_at
    BY <1>0, <2>1 DEF Locals
  <2>3. reading.imported_at <= clock
    BY <1>0, <2>2 DEF Carries
  <2> HIDE DEF reading
  <2> QED
    BY <1>0, <2>1, <2>2, <2>3, AdvanceTyped
<1>3. CASE LoadSigningKey(i)
  <2> DEFINE reading == [ilocal[i] EXCEPT !.signing = DecodedKey(keys.signing)]
  <2>1. /\ Advances(i, "recovery", reading) /\ UNCHANGED <<clock, medium, keys, stored, swaps>>
        /\ DecodedKey(keys.signing) \in Keys /\ ipc[i] = "signing"
    BY <1>3 DEF LoadSigningKey
  <2>2. reading \in Locals /\ reading.file = ilocal[i].file /\ reading.signing \in Keys
        /\ reading.imported_at = ilocal[i].imported_at
    BY <1>0, <2>1 DEF Locals
  <2>3. reading.imported_at <= clock /\ reading.file \in Files
    BY <1>0, <2>1, <2>2 DEF Carries
  <2> HIDE DEF reading
  <2> QED
    BY <1>0, <2>1, <2>2, <2>3, AdvanceTyped
<1>4. CASE LoadRecoveryKey(i)
  <2> DEFINE reading == [ilocal[i] EXCEPT !.recovery = DecodedKey(keys.recovery)]
  <2>1. /\ Advances(i, "verify", reading) /\ UNCHANGED <<clock, medium, keys, stored, swaps>>
        /\ DecodedKey(keys.recovery) \in Keys /\ ipc[i] = "recovery"
    BY <1>4 DEF LoadRecoveryKey
  <2>2. reading \in Locals /\ reading.file = ilocal[i].file /\ reading.signing = ilocal[i].signing
        /\ reading.imported_at = ilocal[i].imported_at
    BY <1>0, <2>1 DEF Locals
  <2>3. reading.imported_at <= clock /\ reading.file \in Files /\ reading.signing \in Keys
    BY <1>0, <2>1, <2>2 DEF Carries
  <2> HIDE DEF reading
  <2> QED
    BY <1>0, <2>1, <2>2, <2>3, AdvanceTyped
<1>5. CASE Verify(i)
  <2> DEFINE reading == [ilocal[i] EXCEPT !.imported_at = clock]
  <2>1. /\ Advances(i, "apply", reading) /\ UNCHANGED <<clock, medium, keys, stored, swaps>>
        /\ Verifies(ilocal[i].file, ilocal[i].signing, ilocal[i].recovery, clock)
        /\ ipc[i] = "verify"
    BY <1>5 DEF Verify
  <2>2. reading \in Locals /\ reading.file = ilocal[i].file /\ reading.signing = ilocal[i].signing
        /\ reading.recovery = ilocal[i].recovery /\ reading.imported_at = clock
    BY <1>0, <2>1 DEF Locals
  <2>3. reading.imported_at <= clock /\ reading.file \in Files /\ reading.signing \in Keys
    BY <1>0, <1>00, <2>1, <2>2 DEF Carries
  <2>4. Verifies(reading.file, reading.signing, reading.recovery, reading.imported_at)
    BY <2>1, <2>2
  <2> HIDE DEF reading
  <2> QED
    BY <1>0, <2>1, <2>2, <2>3, <2>4, AdvanceTyped
<1>6. CASE Apply(i)
  <2> DEFINE l == ilocal[i]
             d == l.file.package.trust_domain
             new == VerifiedTrustPackage(l.file.package, l.signing, l.imported_at)
  <2>1. /\ Advances(i, "done", Nothing) /\ UNCHANGED <<clock, medium, keys, swaps>>
        /\ stored' = [stored EXCEPT ![d] = new] /\ ipc[i] = "apply"
    BY <1>6 DEF Apply
  <2>2. d \in Domains
    BY <1>0, <2>1 DEF Carries, Verifies, MetadataOk
  <2>3. new.provenance.trust_domain = d /\ new.provenance.imported_at = l.imported_at
    BY DEF VerifiedTrustPackage, Provenance
  <2>4. l.imported_at \in 0 .. clock
    BY <1>0 DEF Carries, Locals, Time
  <2> HIDE DEF new, d, l
  <2>5. /\ DOMAIN stored' = Domains
        /\ \A e \in Domains : stored'[e] # NoPackage =>
             stored'[e].provenance.trust_domain = e /\ stored'[e].provenance.imported_at \in 0 .. clock
    BY <1>0, <2>1, <2>2, <2>3, <2>4
  <2> QED
    BY <1>00, <2>1, <2>5, NothingTyped, AdvanceTyped
<1>7. CASE ImportFails(i)
  <2>1. Advances(i, "done", Nothing) /\ UNCHANGED <<clock, medium, keys, stored, swaps>>
    BY <1>7 DEF ImportFails
  <2> QED
    BY <1>0, <1>00, <2>1, NothingTyped, AdvanceTyped
<1> QED
  BY <1>1, <1>2, <1>3, <1>4, <1>5, <1>6, <1>7 DEF Import

LEMMA UsbTypeStep == UsbTypeOK /\ [UsbNext]_usbVars => UsbTypeOK'
<1> SUFFICES ASSUME UsbTypeOK, [UsbNext]_usbVars PROVE UsbTypeOK'
  OBVIOUS
<1>1. ASSUME NEW i \in Imports, Import(i) PROVE UsbTypeOK'
  BY <1>1, ImportTyped
<1>2. CASE SwapMedium
  BY <1>2, UsbAssumption, TypeParts DEF SwapMedium, UsbTypeOK
<1>3. CASE InstallKeys
  BY <1>3, UsbAssumption DEF InstallKeys, UsbTypeOK
<1>4. CASE Tick
  <2>1. clock \in Time /\ clock' = clock + 1 /\ clock' \in Time
    BY <1>4, UsbAssumption DEF Tick, UsbTypeOK, Time
  <2>2. \A j \in Imports : ilocal[j].imported_at \in Nat /\ ilocal[j].imported_at <= clock
    BY UsbAssumption DEF UsbTypeOK, Time
  <2>3. \A j \in Imports : ilocal[j].imported_at <= clock'
    BY <2>1, <2>2 DEF Time
  <2>4. \A d \in Domains : stored[d] # NoPackage =>
          stored[d].provenance.trust_domain = d /\ stored[d].provenance.imported_at \in 0 .. clock'
    BY <2>1 DEF UsbTypeOK, Time
  <2> QED
    BY <1>4, <2>1, <2>3, <2>4 DEF Tick, UsbTypeOK
<1>5. CASE UNCHANGED usbVars
  BY <1>5 DEF usbVars, UsbTypeOK
<1> QED
  BY <1>1, <1>2, <1>3, <1>4, <1>5 DEF UsbNext

(* The importer's type invariant: an import stores only what has passed    *)
(* every check, under a key that was pinned (import_from_usb).             *)
THEOREM UsbTypeHolds == UsbSpec => []UsbTypeOK
  BY UsbTypeInit, UsbTypeStep, PTL DEF UsbSpec

-------------------------------------------------------------------------------
\* Two numbers that write alike are one, if one of them is in range.
LEMMA DoublesAgree ==
  ASSUME NEW m \in Nat, NEW n \in Nat, m <= MaxSafeJsonInteger, Double(m) = Double(n)
  PROVE  m = n
<1>1. Double(m) = m
  BY UsbAssumption DEF Double
<1>2. CASE n <= MaxSafeJsonInteger + 1 \/ n % 2 = 0
  BY <1>1, <1>2 DEF Double
<1>3. CASE ~(n <= MaxSafeJsonInteger + 1) /\ ~(n % 2 = 0)
  <2>1. Double(n) \in {n + 1, n - 1}
    BY <1>3 DEF Double
  <2> QED
    BY <1>1, <1>3, <2>1, UsbAssumption
<1> QED
  BY <1>2, <1>3

\* A payload in range is that of one package.
LEMMA SamePayload ==
  ASSUME NEW p \in {f.package : f \in Files} \cup {i.package : i \in Issued},
         NEW q \in {f.package : f \in Files} \cup {i.package : i \in Issued},
         p.sequence <= MaxSafeJsonInteger, Payload(p) = Payload(q)
  PROVE  p = q
<1>1. /\ p = [x \in DOMAIN p |-> p[x]] /\ "sequence" \in DOMAIN p /\ p.sequence \in Nat
      /\ q = [x \in DOMAIN q |-> q[x]] /\ "sequence" \in DOMAIN q /\ q.sequence \in Nat
  BY PackagesAreObjects
<1> DEFINE P == Payload(p) Q == Payload(q)
<1>2. /\ DOMAIN P = DOMAIN p /\ P.sequence = Double(p.sequence)
      /\ \A x \in DOMAIN p : x # "sequence" => P[x] = p[x]
  BY <1>1 DEF Payload
<1>3. /\ DOMAIN Q = DOMAIN q /\ Q.sequence = Double(q.sequence)
      /\ \A x \in DOMAIN q : x # "sequence" => Q[x] = q[x]
  BY <1>1 DEF Payload
<1>4. P = Q
  OBVIOUS
<1> HIDE DEF P, Q
<1>5. p.sequence = q.sequence
  BY <1>1, <1>2, <1>3, <1>4, DoublesAgree
<1>6. DOMAIN p = DOMAIN q /\ \A x \in DOMAIN p : p[x] = q[x]
  BY <1>2, <1>3, <1>4, <1>5
<1> QED
  BY <1>1, <1>6

\* What has been verified was issued, package and key.
LEMMA VerifiedIsIssued ==
  ASSUME NEW f \in Files, NEW signing \in Keys, NEW recovery, NEW at,
         Verifies(f, signing, recovery, at)
  PROVE  \E i \in Issued : i.package = f.package /\ i.key = signing
<1>1. /\ f.signature = Signature(signing, f.package)
      /\ f.package.sequence <= MaxSafeJsonInteger
  BY UsbAssumption DEF Verifies, SignatureOk, MetadataOk
<1>2. f.signature.key = signing /\ f.signature.payload = Payload(f.package)
  BY <1>1 DEF Signature
<1>3. PICK i \in Issued : f.signature = Signature(i.key, i.package)
  BY <1>2, Unforgeable
<1>4. f.signature.key = i.key /\ f.signature.payload = Payload(i.package)
  BY <1>3 DEF Signature
<1>5. Payload(f.package) = Payload(i.package)
  BY <1>2, <1>4
<1>6. f.package = i.package
  BY <1>1, <1>5, SamePayload
<1> QED
  BY <1>2, <1>4, <1>6

LEMMA SignedStep == UsbTypeOK /\ StoredIsSigned /\ [UsbNext]_usbVars => StoredIsSigned'
<1> SUFFICES ASSUME UsbTypeOK, StoredIsSigned, [UsbNext]_usbVars PROVE StoredIsSigned'
  OBVIOUS
<1>1. CASE stored' = stored
  BY <1>1 DEF StoredIsSigned
<1>2. ASSUME NEW i \in Imports, Apply(i) PROVE StoredIsSigned'
  <2> DEFINE l == ilocal[i]
             p == l.file.package
             new == VerifiedTrustPackage(p, l.signing, l.imported_at)
  <2>1. stored' = [stored EXCEPT ![p.trust_domain] = new] /\ ipc[i] = "apply"
    BY <1>2 DEF Apply
  <2>2. l.file \in Files /\ l.signing \in Keys /\ DOMAIN stored = Domains
        /\ Verifies(l.file, l.signing, l.recovery, l.imported_at)
    BY <2>1, TypeParts DEF Carries
  <2>3. PICK s \in Issued : s.package = p /\ s.key = l.signing
    BY <2>2, VerifiedIsIssued
  <2>4. new.provenance.imported_at = l.imported_at
    BY DEF VerifiedTrustPackage, Provenance
  <2>5. IsOf(new, s)
    BY <2>2, <2>3, <2>4 DEF IsOf, Verifies
  <2> HIDE DEF new, p, l
  <2> SUFFICES ASSUME NEW d \in Domains, stored'[d] # NoPackage
               PROVE  \E t \in Issued : IsOf(stored'[d], t)
    BY DEF StoredIsSigned, IsOf
  <2>6. CASE d = p.trust_domain
    BY <2>1, <2>2, <2>3, <2>5, <2>6
  <2>7. CASE d # p.trust_domain
    BY <2>1, <2>2, <2>7 DEF StoredIsSigned
  <2> QED
    BY <2>6, <2>7
<1>3. ASSUME NEW i \in Imports, Import(i), ~Apply(i) PROVE stored' = stored
  BY <1>3 DEF Import, Open, ReadFile, LoadSigningKey, LoadRecoveryKey, Verify, ImportFails
<1>4. SwapMedium \/ InstallKeys \/ Tick \/ UNCHANGED usbVars => stored' = stored
  BY DEF SwapMedium, InstallKeys, Tick, usbVars
<1> QED
  BY <1>1, <1>2, <1>3, <1>4 DEF UsbNext

LEMMA SignedInit == UsbInit => StoredIsSigned
  BY DEF UsbInit, StoredIsSigned

(* Whatever the medium held and whenever it was exchanged, a stored        *)
(* package is, record for record, one that the holder of its signer key    *)
(* issued (verify_package_signature, validate_package_metadata).           *)
THEOREM StoredIsSignedHolds == UsbSpec => []StoredIsSigned
<1>1. UsbInit => UsbTypeOK /\ StoredIsSigned
  BY UsbTypeInit, SignedInit
<1>2. UsbTypeOK /\ StoredIsSigned /\ [UsbNext]_usbVars => (UsbTypeOK /\ StoredIsSigned)'
  BY UsbTypeStep, SignedStep
<1> QED
  BY <1>1, <1>2, PTL DEF UsbSpec

-------------------------------------------------------------------------------
(* What may replace the records of a domain.                               *)

GoesForward(d) ==
  stored'[d] # stored[d] =>
    /\ stored'[d] # NoPackage /\ \E i \in Issued : IsOf(stored'[d], i)
    /\ stored[d] # NoPackage => Succeeds(stored[d], stored'[d])

LEMMA ApplyGoesForward ==
  ASSUME UsbTypeOK, StoredIsSigned, NEW i \in Imports, Apply(i), NEW d \in Domains
  PROVE  GoesForward(d)
<1> DEFINE l == ilocal[i]
           e == l.file.package.trust_domain
           new == VerifiedTrustPackage(l.file.package, l.signing, l.imported_at)
<1>1. /\ stored' = [stored EXCEPT ![e] = new] /\ ipc[i] = "apply"
      /\ stored[e] # NoPackage => Succeeds(stored[e], new)
  BY DEF Apply
<1>2. /\ l.file \in Files /\ l.signing \in Keys /\ DOMAIN stored = Domains
      /\ Verifies(l.file, l.signing, l.recovery, l.imported_at)
      /\ ilocal[i] \in Locals
  BY <1>1, TypeParts DEF Carries
<1>3. PICK s \in Issued : s.package = l.file.package /\ s.key = l.signing
  BY <1>2, VerifiedIsIssued
<1>4. new.provenance.imported_at = l.imported_at
  BY DEF VerifiedTrustPackage, Provenance
<1>5. IsOf(new, s)
  BY <1>2, <1>3, <1>4 DEF IsOf, Verifies
<1>6. e \in Domains
  BY <1>2 DEF Verifies, MetadataOk
<1>7. new # NoPackage
  <2>1. l.file.signature.key = l.signing
    BY <1>2 DEF Verifies, SignatureOk, Signature
  <2>2. l.imported_at \in Time
    BY <1>2 DEF Locals
  <2> QED
    BY <1>2, <2>1, <2>2, UsbAssumption
<1> HIDE DEF new, e, l
<1>8. CASE d = e
  <2>1. stored'[d] = new
    BY <1>1, <1>2, <1>6, <1>8
  <2> QED
    BY <1>1, <1>5, <1>7, <1>8, <2>1 DEF GoesForward
<1>9. CASE d # e
  BY <1>1, <1>2, <1>9 DEF GoesForward
<1> QED
  BY <1>8, <1>9

LEMMA ForwardStep ==
  ASSUME UsbTypeOK, StoredIsSigned, [UsbNext]_usbVars, NEW d \in Domains
  PROVE  GoesForward(d)
<1>1. CASE stored' = stored
  BY <1>1 DEF GoesForward
<1>2. ASSUME NEW i \in Imports, Import(i), ~Apply(i) PROVE stored' = stored
  BY <1>2 DEF Import, Open, ReadFile, LoadSigningKey, LoadRecoveryKey, Verify, ImportFails
<1>3. SwapMedium \/ InstallKeys \/ Tick \/ UNCHANGED usbVars => stored' = stored
  BY DEF SwapMedium, InstallKeys, Tick, usbVars
<1> QED
  BY <1>1, <1>2, <1>3, ApplyGoesForward DEF UsbNext

LEMMA UsbInvHolds == UsbSpec => [](UsbTypeOK /\ StoredIsSigned)
  BY UsbTypeHolds, StoredIsSignedHolds, PTL

\* The records of a domain are replaced only by those of an issued package of a
\* higher sequence, under the same recovery key, whose signer the records in
\* place authorize (apply_trust_package_with_signer_policy).
THEOREM StoreGoesForward == UsbSpec => [][\A d \in Domains : GoesForward(d)]_usbVars
<1>1. UsbTypeOK /\ StoredIsSigned /\ [UsbNext]_usbVars => [\A d \in Domains : GoesForward(d)]_usbVars
  BY ForwardStep
<1> QED
  BY <1>1, UsbInvHolds, PTL DEF UsbSpec

\* A domain has come to this sequence, under this recovery key.
ReachedUnder(d, n, key) ==
  /\ stored[d] # NoPackage
  /\ stored[d].provenance.sequence >= n
  /\ stored[d].signer_policy.recovery_signer_key_id = key

\* What is stored carries an issued number, in range or not.
LEMMA StoredSequence ==
  ASSUME StoredIsSigned, NEW d \in Domains, stored[d] # NoPackage
  PROVE  stored[d].provenance.sequence \in Nat
<1>1. PICK i \in Issued : IsOf(stored[d], i)
  BY DEF StoredIsSigned
<1>2. stored[d] = VerifiedTrustPackage(i.package, i.key, stored[d].provenance.imported_at)
  BY <1>1 DEF IsOf
<1>3. stored[d].provenance.sequence = i.package.sequence
  BY <1>2 DEF VerifiedTrustPackage, Provenance
<1> QED
  BY <1>3, PackagesAreObjects

LEMMA ReachedStep ==
  ASSUME StoredIsSigned, StoredIsSigned', NEW d \in Domains, NEW n \in Nat, NEW key,
         GoesForward(d), ReachedUnder(d, n, key)
  PROVE  ReachedUnder(d, n, key)'
<1>1. CASE stored'[d] = stored[d]
  BY <1>1 DEF ReachedUnder
<1>2. CASE stored'[d] # stored[d]
  <2>1. /\ stored[d] # NoPackage /\ stored'[d] # NoPackage
        /\ Succeeds(stored[d], stored'[d])
    BY <1>2 DEF GoesForward, ReachedUnder
  <2>2. stored[d].provenance.sequence \in Nat
    BY <2>1, StoredSequence
  <2>3. stored'[d].provenance.sequence \in Nat
    <3>1. PICK i \in Issued : IsOf(stored'[d], i)
      BY <1>2 DEF GoesForward
    <3>2. stored'[d] = VerifiedTrustPackage(i.package, i.key, stored'[d].provenance.imported_at)
      BY <3>1 DEF IsOf
    <3>3. stored'[d].provenance.sequence = i.package.sequence
      BY <3>2 DEF VerifiedTrustPackage, Provenance
    <3> QED
      BY <3>3, PackagesAreObjects
  <2>4. stored'[d].provenance.sequence > stored[d].provenance.sequence
        /\ stored'[d].signer_policy.recovery_signer_key_id
             = stored[d].signer_policy.recovery_signer_key_id
    BY <2>1 DEF Succeeds
  <2> QED
    BY <2>1, <2>2, <2>3, <2>4 DEF ReachedUnder
<1> QED
  BY <1>1, <1>2

\* No import ever rolls a domain back or moves it to another recovery key, and
\* none leaves it without records: whatever media are presented and whatever key
\* files are installed in between.
THEOREM NoRollback ==
  ASSUME NEW d \in Domains, NEW n \in Nat, NEW key
  PROVE  UsbSpec => [](ReachedUnder(d, n, key) => []ReachedUnder(d, n, key))
<1>1. /\ UsbTypeOK /\ StoredIsSigned /\ (StoredIsSigned)' /\ [UsbNext]_usbVars
         /\ ReachedUnder(d, n, key)
      => ReachedUnder(d, n, key)'
  BY ForwardStep, ReachedStep
<1> QED
  BY <1>1, UsbInvHolds, PTL DEF UsbSpec
===============================================================================
