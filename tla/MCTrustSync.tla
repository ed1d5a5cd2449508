------------------------------ MODULE MCTrustSync -----------------------------
(* Small instances of TrustSync for TLC.                                   *)
EXTENDS TrustSync, TLC

CONSTANTS d1, d2, A, B, R   \* two domains; two operational keys, one recovery key

File(d, seq, from, to, by, successor) ==
  [domain |-> d, sequence |-> seq, created |-> from, expires |-> to,
   signer |-> by, next |-> successor, recovery |-> R]

\* A rotation from A to B, attempts of A to go on after it with and without a
\* new authorization, a recovery back to A, a package of another domain, and one of sequence 0.
MCPackages ==
  {File(d1, 1, 0, 2, A, B), File(d1, 2, 1, 2, B, NoKey), File(d1, 3, 1, 3, A, NoKey),
   File(d1, 2, 1, 2, R, A), File(d2, 1, 2, 3, B, NoKey), File(d2, 0, 0, 2, A, NoKey)}

\* Two packages of one domain and signer.
MCTwoPackages == {File(d1, 1, 0, 2, A, NoKey), File(d1, 2, 1, 2, A, NoKey)}

MCConfigs ==
  {[domain |-> d1, max_offline |-> 1, enable_usb_import |-> TRUE],
   [domain |-> d2, max_offline |-> 0, enable_usb_import |-> TRUE]}

MCOneConfig == {[domain |-> d1, max_offline |-> 1, enable_usb_import |-> TRUE]}

\* Each key as the signing key, and one wrong recovery key.
MCInstallable ==
  [signing : {A, B, R}, recovery : {R}] \cup {[signing |-> A, recovery |-> B]}
MCInstalledA == {[signing |-> A, recovery |-> R]}

MCSymmetry == Permutations(Importers) \cup Permutations(Syncers)
===============================================================================
