---------------------------- MODULE MCOpenBadges ----------------------------
(* Small instances of OpenBadges for TLC: two key holders, two domains.    *)
EXTENDS OpenBadges, TLC

CONSTANTS dA, dB, k1, k2, m1, m2, m3, doc, url, text, cert

MCSymmetry == Permutations(Imports)

\* m3 is a fragment of the DID document doc.
MCBase == [i \in Identifiers \cup {NoText} |-> IF i = m3 THEN doc ELSE NoText]

Method(id, status, notAfter) ==
  [id |-> id, controller |-> text, status |-> status, not_before |-> 0, notAfter |-> notAfter,
   type |-> "Multikey", publicKeyMultibase |-> text]

Certificate == [jurisdiction |-> text, certificate_der_b64 |-> cert]

PackageOf(domain, sequence, created, expires, methods) ==
  [trust_domain |-> domain, sequence |-> sequence, version |-> text, created_at |-> created,
   expires_at |-> expires, signer_key_id |-> k1, next_signer_key_id |-> NoKey,
   recovery_signer_key_id |-> k2, iaca_certificates |-> <<>>,
   csca_certificates |-> <<Certificate>>, dsc_certificates |-> <<>>,
   open_badge_verification_methods |-> methods]

\* One that expires, one from a clock that is ahead, one of another domain
\* that claims an id of the first, and one numbered out of range.
Early == PackageOf(dA, 1, 0, 2, <<Method(m1, "active", 9), Method(doc, "active", 9)>>)
Ahead == PackageOf(dA, 2, 1, 9, <<Method(m1, "active", 9), Method(doc, "revoked", 9)>>)
Other == PackageOf(dB, 1, 0, 9, <<Method(m1, "active", 9), Method(m2, "active", 2)>>)
Large == [Other EXCEPT !.sequence = 4]

MCIssued == {[key |-> k1, package |-> p] : p \in {Early, Ahead, Other, Large}}

FileOf(p, signed) ==
  [bytes |-> 1, package |-> p, signature |-> Signature(k1, signed),
   members |->
     <<"trust_domain", "sequence", "version", "created_at", "expires_at", "signer_key_id",
       "next_signer_key_id", "recovery_signer_key_id", "signing_cert", "signature",
       "iaca_certificates", "csca_certificates", "dsc_certificates",
       "open_badge_verification_methods">>]

\* The last one carries the signature of another.
MCFiles ==
  {FileOf(p, p) : p \in {Early, Ahead, Other}} \cup {FileOf([Large EXCEPT !.sequence = 5], Large)}

MCKeyFiles ==
  {[signing |-> <<Comment, k1>>, recovery |-> <<k2>>],
   [signing |-> <<Garbage, k1>>, recovery |-> <<k2>>]}

MCLegacy == {VerificationMethod(Method(m1, "active", 9), 0)}

Proof(id) == [verificationMethod |-> NoText, creator |-> id, id |-> text]

List(id) == [issuer |-> text, proof |-> <<Proof(id)>>, validFrom |-> 0, validUntil |-> 9]

Badge(id, signer) ==
  [version |-> "3.0", proof |-> <<[Proof(NoText) EXCEPT !.id = NoText], Proof(id)>>,
   status |-> <<[type |-> "BitstringStatusListEntry", statusListCredential |-> url]>>,
   document_store |-> (url :> List(signer))]

MCRequests == {Badge(m3, m2)}

MCBadgeConfigs ==
  {[policy |-> "fail_closed", stale_critical_hours |-> 9, status_list_max_age_hours |-> 1],
   [policy |-> "fail_closed", stale_critical_hours |-> 2, status_list_max_age_hours |-> 9]}
===============================================================================
