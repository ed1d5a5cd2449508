------------------------------- MODULE UsbPackage -------------------------------
(***************************************************************************)
(* Trust packages on USB media (crates/marty-sync/src/usb.rs): what an     *)
(* import reads, in which order, what it accepts, and which records it     *)
(* hands to the governed trust storage.  Which domain the configuration    *)
(* names and the freshness clock are TrustSync's.                          *)
(*                                                                         *)
(* The operator may exchange the medium and the pinned keys between any    *)
(* two steps.  A JSON value is what serde_json makes of it: an object is a *)
(* function from its member names; a key stands for its identity, a        *)
(* certificate for its digest.  Storage is external code: a package that   *)
(* succeeds the active one of its domain replaces its records at once.     *)
(***************************************************************************)
EXTENDS Integers, Sequences, FiniteSets

CONSTANTS
  Imports,               \* import_trust_anchors_usb calls, each made once
  Domains, NoPackage,
  Keys, NoKey,           \* Ed25519 keys, and the null next_signer_key_id
  Identifiers,           \* bounded texts without surrounding space or control characters
  Base58,                \* those of them that start with a z
  Certificates,          \* certificates that parse and are not too long
  Issued,                \* what the holders of keys have signed
  Files, NoFile,         \* what a medium may hold
  KeyFiles,              \* the pairs of key files an operator may install
  Comment, Garbage,      \* lines of a key file: passed over, and not base64
  MaxPackageBytes, MaxPackageEntries,
  MaxSafeJsonInteger,    \* 2^53 - 1
  Skew,                  \* MAX_PACKAGE_FUTURE_SKEW_SECONDS
  MaxTime,               \* bound: the wall clock stops here
  MaxSwaps               \* bound: exchanges of the medium or of the keys

Time == 0 .. MaxTime

Roles == {"iaca_certificates", "csca_certificates", "dsc_certificates"}
Required ==
  {"trust_domain", "sequence", "version", "created_at", "expires_at", "signer_key_id",
   "next_signer_key_id", "recovery_signer_key_id", "signing_cert", "signature"} \cup Roles

-------------------------------------------------------------------------------
(* Parsing, and the signature.                                             *)

\* StrictJsonVisitor: no object names a member twice.
Strict(f) ==
  \A m, n \in DOMAIN f.members : f.members[m] = f.members[n] => m = n

\* deny_unknown_fields; only the Open Badge methods may be left out.
SchemaOk(f) ==
  LET names == {f.members[n] : n \in DOMAIN f.members} IN
  Required \subseteq names /\ names \subseteq Required \cup {"open_badge_verification_methods"}

\* An integer as the IEEE 754 double that RFC 8785 writes, below 2^54.
Double(n) ==
  IF n <= MaxSafeJsonInteger + 1 \/ n % 2 = 0 THEN n
  ELSE IF (n + 1) % 4 = 0 THEN n + 1 ELSE n - 1

\* canonical_signed_payload: the package without its signature, members in no
\* order, numbers as doubles.
Payload(p) == [p EXCEPT !.sequence = Double(@)]

Signature(key, p) == [key |-> key, payload |-> Payload(p)]

SignatureOk(f, key) == f.signature = Signature(key, f.package)

\* decode_signing_public_key: the first line that is no comment, or nothing.
DecodedKey(lines) ==
  LET candidates == SelectSeq(lines, LAMBDA l : l # Comment) IN
  IF candidates = <<>> THEN NoKey ELSE Head(candidates)

-------------------------------------------------------------------------------
(* What an import checks of a package whose signature holds.               *)

\* Wrong: a sequence that doubles cannot tell from the next passes.
MetadataOfAnySequence(p, signing, recovery) ==
  /\ p.trust_domain \in Domains
  /\ p.sequence > 0
  /\ p.version \in Identifiers
  /\ p.signer_key_id = signing /\ p.recovery_signer_key_id = recovery
  /\ p.next_signer_key_id \notin {signing, recovery}

MetadataOk(p, signing, recovery) ==
  /\ p.trust_domain \in Domains
  /\ p.sequence \in 1 .. MaxSafeJsonInteger
  /\ p.version \in Identifiers
  /\ p.signer_key_id = signing /\ p.recovery_signer_key_id = recovery
  /\ p.next_signer_key_id \notin {signing, recovery}

Entries(p) ==
  Len(p.iaca_certificates) + Len(p.csca_certificates) + Len(p.dsc_certificates)
    + Len(p.open_badge_verification_methods)

TimesOk(p, at) ==
  /\ p.created_at \in Nat /\ p.expires_at \in Nat
  /\ p.created_at <= at + Skew
  /\ p.created_at < p.expires_at
  /\ at <= p.expires_at

HasText(o, member) == member \in DOMAIN o /\ o[member] \in Identifiers
MayHaveText(o, member) == member \in DOMAIN o => o[member] \in Identifiers
MayHaveTime(o, member) == member \in DOMAIN o => o[member] \in Nat

\* parse_certificate_entry
CertificateOk(e) ==
  /\ HasText(e, "jurisdiction")
  /\ \A member \in {"subject", "issuer", "serial"} : MayHaveText(e, member)
  /\ e.certificate_der_b64 \in Certificates
  /\ MayHaveTime(e, "not_before") /\ MayHaveTime(e, "not_after")
  /\ {"not_before", "not_after"} \subseteq DOMAIN e => e.not_before < e.not_after

\* Over all roles.
DistinctCertificates(p) ==
  \A r, q \in Roles : \A m \in DOMAIN p[r], n \in DOMAIN p[q] :
    p[r][m].certificate_der_b64 = p[q][n].certificate_der_b64 => r = q /\ m = n

\* parse_timestamp_alias: one of the two spellings, and a time.
HasTime(o, snake, camel) ==
  \E member \in {snake, camel} : {snake, camel} \cap DOMAIN o = {member} /\ o[member] \in Nat
TimeOf(o, snake, camel) == IF snake \in DOMAIN o THEN o[snake] ELSE o[camel]
NotBefore(o) == TimeOf(o, "not_before", "notBefore")
NotAfter(o)  == TimeOf(o, "not_after", "notAfter")

KeyFields == {"publicKeyJwk", "publicKeyBase58", "publicKeyMultibase", "publicKeyPem"}
KeyField ==
  [JsonWebKey2020 |-> "publicKeyJwk", Ed25519VerificationKey2018 |-> "publicKeyBase58",
   Ed25519VerificationKey2020 |-> "publicKeyMultibase", Multikey |-> "publicKeyMultibase"]
JwkMembers == [OKP |-> {"crv", "x"}, EC |-> {"crv", "x", "y"}, RSA |-> {"n", "e"}]

PublicJwkOk(jwk) ==
  /\ "kty" \in DOMAIN jwk /\ jwk.kty \in DOMAIN JwkMembers
  /\ \A member \in JwkMembers[jwk.kty] : HasText(jwk, member)

KeyMaterialOk(o) ==
  /\ "type" \in DOMAIN o /\ o.type \in DOMAIN KeyField
  /\ KeyFields \cap DOMAIN o = {KeyField[o.type]}
  /\ CASE o.type = "JsonWebKey2020" -> PublicJwkOk(o.publicKeyJwk)
       [] o.type = "Ed25519VerificationKey2018" -> o.publicKeyBase58 \in Identifiers
       [] OTHER -> o.publicKeyMultibase \in Base58

\* contains_private_key_material of marty-types.
HasPrivateKey(o) ==
  \/ {"privateKeyJwk", "secretKeyJwk"} \cap DOMAIN o # {}
  \/ "publicKeyJwk" \in DOMAIN o /\ {"d", "k"} \cap DOMAIN o.publicKeyJwk # {}

MethodOk(o) ==
  /\ HasText(o, "id") /\ HasText(o, "controller")
  /\ MayHaveText(o, "issuer") /\ MayHaveText(o, "kid")
  /\ "status" \in DOMAIN o /\ o.status \in {"active", "inactive", "revoked"}
  /\ HasTime(o, "not_before", "notBefore") /\ HasTime(o, "not_after", "notAfter")
  /\ NotBefore(o) < NotAfter(o)
  /\ ~HasPrivateKey(o)
  /\ KeyMaterialOk(o)

MethodsOf(p) == p.open_badge_verification_methods

DistinctMethods(p) ==
  \A m, n \in DOMAIN MethodsOf(p) : MethodsOf(p)[m].id = MethodsOf(p)[n].id => m = n

\* The checks of import_from_usb after the two keys are loaded.
Verifies(f, signing, recovery, at) ==
  LET p == f.package IN
  /\ SignatureOk(f, signing)
  /\ TimesOk(p, at)
  /\ MetadataOk(p, signing, recovery)
  /\ Entries(p) <= MaxPackageEntries
  /\ \A r \in Roles : \A n \in DOMAIN p[r] : CertificateOk(p[r][n])
  /\ DistinctCertificates(p)
  /\ \A n \in DOMAIN MethodsOf(p) : MethodOk(MethodsOf(p)[n])
  /\ DistinctMethods(p)

-------------------------------------------------------------------------------
(* The records of a package.                                               *)

Provenance(p, key, at) ==
  [trust_domain |-> p.trust_domain, sequence |-> p.sequence, created_at |-> p.created_at,
   expires_at |-> p.expires_at, signer_key_id |-> key, package_digest |-> Payload(p),
   imported_at |-> at]

TrustAnchor(e, role, created) ==
  [id |-> e.certificate_der_b64, anchor_type |-> role, entry |-> e, synced_at |-> created]

VerificationMethod(o, created) ==
  [id |-> o.id, document |-> o, controller |-> o.controller, not_before |-> NotBefore(o),
   not_after |-> NotAfter(o), status |-> o.status, synced_at |-> created]

SignerPolicy(p) ==
  [next_signer_key_id |-> p.next_signer_key_id,
   recovery_signer_key_id |-> p.recovery_signer_key_id]

VerifiedTrustPackage(p, key, at) ==
  [provenance |-> Provenance(p, key, at), signer_policy |-> SignerPolicy(p),
   anchors |->
     UNION {{TrustAnchor(p[r][n], r, p.created_at) : n \in DOMAIN p[r]} : r \in Roles},
   open_badge_methods |->
     {VerificationMethod(MethodsOf(p)[n], p.created_at) : n \in DOMAIN MethodsOf(p)}]

ASSUME UsbAssumption ==
  /\ NoPackage \notin {VerifiedTrustPackage(f.package, f.signature.key, at) :
                         f \in Files, at \in Time}
  /\ NoKey \notin Keys /\ NoFile \notin Files
  /\ Base58 \subseteq Identifiers
  /\ MaxTime \in Nat /\ MaxSwaps \in Nat /\ Skew \in Nat
  /\ MaxSafeJsonInteger \in Nat

\* Nobody signs for another: a signature that is somebody's was issued.
ASSUME Unforgeable ==
  \A f \in Files : f.signature.key \in Keys =>
    \E i \in Issued : f.signature = Signature(i.key, i.package)

\* Packages are JSON objects, and their sequence is an unsigned integer.
ASSUME PackagesAreObjects ==
  \A p \in {f.package : f \in Files} \cup {i.package : i \in Issued} :
    /\ p = [member \in DOMAIN p |-> p[member]]
    /\ "sequence" \in DOMAIN p /\ p.sequence \in Nat

VARIABLES
  clock,          \* wall clock
  medium,         \* the file on the medium
  keys,           \* the key files in place: lines of each
  ipc, ilocal,    \* per import: next step, what it has read
  stored,         \* per domain: the active package's records
  swaps           \* exchanges so far

usbVars == <<clock, medium, keys, ipc, ilocal, stored, swaps>>

Nothing == [file |-> NoFile, signing |-> NoKey, recovery |-> NoKey, imported_at |-> 0]

UsbInit ==
  /\ clock = 0
  /\ medium \in Files
  /\ keys \in KeyFiles
  /\ ipc = [i \in Imports |-> "exists"]
  /\ ilocal = [i \in Imports |-> Nothing]
  /\ stored = [d \in Domains |-> NoPackage]
  /\ swaps = 0

Advances(i, next, reading) ==
  /\ ipc' = [ipc EXCEPT ![i] = next]
  /\ ilocal' = [ilocal EXCEPT ![i] = reading]

\* The size is the metadata's, not that of the text read next.
Open(i) ==
  /\ ipc[i] = "exists"
  /\ medium # NoFile
  /\ medium.bytes \in 1 .. MaxPackageBytes
  /\ Advances(i, "read", Nothing)
  /\ UNCHANGED <<clock, medium, keys, stored, swaps>>

ReadFile(i) ==
  /\ ipc[i] = "read"
  /\ medium # NoFile
  /\ Strict(medium) /\ SchemaOk(medium)
  /\ Advances(i, "signing", [ilocal[i] EXCEPT !.file = medium])
  /\ UNCHANGED <<clock, medium, keys, stored, swaps>>

\* Wrong: whatever the first line says is the key.
LoadAnySigningKey(i) ==
  /\ ipc[i] = "signing"
  /\ Advances(i, "recovery", [ilocal[i] EXCEPT !.signing = DecodedKey(keys.signing)])
  /\ UNCHANGED <<clock, medium, keys, stored, swaps>>

LoadSigningKey(i) ==
  /\ ipc[i] = "signing"
  /\ DecodedKey(keys.signing) \in Keys
  /\ Advances(i, "recovery", [ilocal[i] EXCEPT !.signing = DecodedKey(keys.signing)])
  /\ UNCHANGED <<clock, medium, keys, stored, swaps>>

LoadRecoveryKey(i) ==
  /\ ipc[i] = "recovery"
  /\ DecodedKey(keys.recovery) \in Keys
  /\ Advances(i, "verify", [ilocal[i] EXCEPT !.recovery = DecodedKey(keys.recovery)])
  /\ UNCHANGED <<clock, medium, keys, stored, swaps>>

Verify(i) ==
  /\ ipc[i] = "verify"
  /\ Verifies(ilocal[i].file, ilocal[i].signing, ilocal[i].recovery, clock)
  /\ Advances(i, "apply", [ilocal[i] EXCEPT !.imported_at = clock])
  /\ UNCHANGED <<clock, medium, keys, stored, swaps>>

\* What the storage asks of a package that replaces another: a higher sequence,
\* the same recovery key, and a signer the other one authorizes; the recovery
\* key must name a signer to go on with.
Succeeds(old, new) ==
  LET before == old.provenance now == new.provenance
      was == old.signer_policy is == new.signer_policy IN
  /\ now.sequence > before.sequence
  /\ is.recovery_signer_key_id = was.recovery_signer_key_id
  /\ \/ now.signer_key_id \in {before.signer_key_id, was.next_signer_key_id}
     \/ now.signer_key_id = was.recovery_signer_key_id /\ is.next_signer_key_id # NoKey

\* The storage transaction, under the domain the package names.
Apply(i) ==
  LET l == ilocal[i] d == l.file.package.trust_domain
      new == VerifiedTrustPackage(l.file.package, l.signing, l.imported_at) IN
  /\ ipc[i] = "apply"
  /\ stored[d] # NoPackage => Succeeds(stored[d], new)
  /\ stored' = [stored EXCEPT ![d] = new]
  /\ Advances(i, "done", Nothing)
  /\ UNCHANGED <<clock, medium, keys, swaps>>

\* A file or storage error, or a check that failed: nothing was stored.
ImportFails(i) ==
  /\ ipc[i] # "done"
  /\ Advances(i, "done", Nothing)
  /\ UNCHANGED <<clock, medium, keys, stored, swaps>>

SwapMedium ==
  /\ swaps < MaxSwaps
  /\ \E f \in Files \cup {NoFile} : medium' = f
  /\ swaps' = swaps + 1
  /\ UNCHANGED <<clock, keys, ipc, ilocal, stored>>

InstallKeys ==
  /\ swaps < MaxSwaps
  /\ \E k \in KeyFiles : keys' = k
  /\ swaps' = swaps + 1
  /\ UNCHANGED <<clock, medium, ipc, ilocal, stored>>

Tick ==
  /\ clock < MaxTime
  /\ clock' = clock + 1
  /\ UNCHANGED <<medium, keys, ipc, ilocal, stored, swaps>>

Import(i) ==
  Open(i) \/ ReadFile(i) \/ LoadSigningKey(i) \/ LoadRecoveryKey(i) \/ Verify(i) \/ Apply(i)
    \/ ImportFails(i)

UsbNext == (\E i \in Imports : Import(i)) \/ SwapMedium \/ InstallKeys \/ Tick

UsbSpec == UsbInit /\ [][UsbNext]_usbVars

-------------------------------------------------------------------------------
ImportSteps == {"exists", "read", "signing", "recovery", "verify", "apply", "done"}

(* An import that is about to store has read a file whose signature holds  *)
(* under a pinned key, and domains hold their own packages.                *)
UsbTypeOK ==
  /\ clock \in Time
  /\ medium \in Files \cup {NoFile}
  /\ keys \in KeyFiles
  /\ ipc \in [Imports -> ImportSteps]
  /\ ilocal \in [Imports -> [file : Files \cup {NoFile}, signing : Keys \cup {NoKey},
                             recovery : Keys \cup {NoKey}, imported_at : Time]]
  /\ \A i \in Imports :
       LET l == ilocal[i] IN
       /\ ipc[i] \in {"signing", "recovery", "verify", "apply"} => l.file \in Files
       /\ ipc[i] \in {"recovery", "verify", "apply"} => l.signing \in Keys
       /\ ipc[i] = "apply" => Verifies(l.file, l.signing, l.recovery, l.imported_at)
       /\ l.imported_at <= clock
  /\ DOMAIN stored = Domains
  /\ \A d \in Domains : stored[d] # NoPackage =>
       stored[d].provenance.trust_domain = d /\ stored[d].provenance.imported_at \in 0 .. clock
  /\ swaps \in 0 .. MaxSwaps

\* Record for record what the key's holder signed.
IsOf(package, i) ==
  /\ package = VerifiedTrustPackage(i.package, i.key, package.provenance.imported_at)
  /\ \A n \in DOMAIN MethodsOf(i.package) : MethodOk(MethodsOf(i.package)[n])
  /\ DistinctMethods(i.package) /\ DistinctCertificates(i.package)
  /\ TimesOk(i.package, package.provenance.imported_at)

(* "Identity and digest are derived from the actual pinned key and these   *)
(* exact signed bytes" (usb.rs): whatever the medium held, and whenever it *)
(* or the keys were exchanged, a stored package is one that the holder of  *)
(* its signer key issued, record for record, none dropped or merged, and   *)
(* under the number it was issued with.                                    *)
StoredIsSigned ==
  \A d \in Domains : stored[d] # NoPackage => \E i \in Issued : IsOf(stored[d], i)
===============================================================================
