----------------------------- MODULE MCVerification -----------------------------
(***************************************************************************)
(* Instances of Verification for TLC.                                      *)
(***************************************************************************)
EXTENDS Verification, TLC

CONSTANTS c1, c2, d1, l1, l2, s1, s2

MCMaxOffline == c1 :> 1 @@ c2 :> 2

MCPackage(sequence, created, expires) ==
  [domain |-> d1, sequence |-> sequence, created |-> created, expires |-> expires,
   recovery |-> "key"]
MCPackages == {MCPackage(1, 0, 2), MCPackage(2, 1, 3)}

MCRequest(kind, challenge, session) ==
  [kind |-> kind, use_nfc |-> FALSE, perform_face_match |-> FALSE,
   liveness_challenge |-> challenge, session_id |-> session]

\* The trust instance: no challenges, on hardware that has no NFC.
MCTrustRequests ==
  {MCRequest("passport", NoChallenge, NoSession),
   [MCRequest("passport", NoChallenge, NoSession) EXCEPT !.perform_face_match = TRUE],
   [MCRequest("passport", NoChallenge, NoSession) EXCEPT !.use_nfc = TRUE]}

\* The liveness instance: no packages and no updates.
MCLivenessRequests ==
  {MCRequest("presentation", l1, s1), MCRequest("badge", l2, NoSession),
   MCRequest("unsupported", l2, s2), MCRequest("face", l1, NoSession)}

MCSymmetry == Permutations(Calls)
===============================================================================
