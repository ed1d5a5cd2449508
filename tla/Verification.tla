------------------------------ MODULE Verification ------------------------------
(***************************************************************************)
(* verify_credential and verify_face_match (src-tauri/src/commands):       *)
(* liveness challenges and the store that lets each be used once, the      *)
(* freshness gate, the verdict, the policy check, the stored event and the *)
(* queued report.  A call is one task; it gives way at every await, to     *)
(* other calls, to a package import, to an update of the settings.         *)
(*                                                                         *)
(* The configuration is ConfigUpdate's; trust packages arrive as           *)
(* TrustLedger allows, which TrustSync implements.  Calls that are refused *)
(* before they change anything are left out.                               *)
(***************************************************************************)
EXTENDS ConfigUpdate, Integers, Sequences, FiniteSets

CONSTANTS
  Calls,                  \* verifications, each made once
  Requests,               \* what they may be asked
  Challenges, NoChallenge, Sessions, NoSession,
  Domains, Packages, NoPackage,
  MaxOffline,             \* max_offline_hours of each configuration
  Reports,                \* the configurations with reporting enabled
  AuditAll,               \* the deployment profile's audit_all_events
  Complex,                \* hardware tier
  Ttl,                    \* life time of a challenge
  CleanupAt,              \* 100: more known challenges than this start a cleanup
  MaxTime                 \* bound: the wall clock stops here

Never == -1
Time  == 0 .. MaxTime
Statuses == {"Valid", "Invalid", "Failed"}
NoStatus == "none"

\* emrtd and dtc are "passport", oid4vp and sd-jwt "presentation"; "face" is
\* verify_face_match, which names no session.  Only an emrtd is read by NFC.
Request ==
  [kind : {"passport", "presentation", "badge", "unsupported", "face"},
   use_nfc : BOOLEAN, perform_face_match : BOOLEAN,
   liveness_challenge : Challenges \cup {NoChallenge},
   session_id : Sessions \cup {NoSession}]

Package == [domain : Domains, sequence : Nat, created : Nat, expires : Nat, recovery : {"key"}]

\* What a call has read so far.
Reading ==
  [request : Request, accepted : BOOLEAN, is_online : BOOLEAN,
   gate_limit : Nat, anchors : SUBSET Packages,
   limit : Nat, checked_at : Time, backing : Packages \cup {NoPackage},
   status : Statuses \cup {NoStatus}]

ASSUME VerificationAssumption ==
  /\ Requests \subseteq Request /\ Requests # {}
  /\ NoChallenge \notin Challenges /\ NoPackage \notin Packages
  /\ Packages \subseteq Package
  /\ MaxOffline \in [Configs -> Nat] /\ Reports \subseteq Configs
  /\ AuditAll \in BOOLEAN /\ Complex \in BOOLEAN
  /\ Ttl \in Nat /\ CleanupAt \in Nat /\ MaxTime \in Nat

VARIABLES
  now, is_online,         \* the wall clock; AppState.is_online
  ledger, clock,          \* trust packages per domain; the freshness clock
  issued,                 \* history: every challenge issued, signed by its process
  liveness_challenges,    \* AppState.liveness_challenges
  pc, call,               \* per call: next step, what it has read
  steady,                 \* history: calls no update of the settings ran beside
  events, reports         \* per call: stored event, queued report

trustVars  == <<ledger, clock>>
storeVars  == <<issued, liveness_challenges>>
worldVars  == <<now, is_online, trustVars>>
callVars   == <<pc, call, steady, events, reports>>
verifyVars == <<worldVars, storeVars, callVars>>
vars       == <<configVars, verifyVars>>

Ledger == INSTANCE TrustLedger

Unread ==
  [request |-> CHOOSE r \in Requests : TRUE, accepted |-> FALSE, is_online |-> FALSE,
   gate_limit |-> 0, anchors |-> {}, limit |-> 0, checked_at |-> 0,
   backing |-> NoPackage, status |-> NoStatus]

Init ==
  /\ ConfigInit
  /\ now = 0 /\ is_online = FALSE
  /\ Ledger!Init
  /\ issued = {}
  /\ liveness_challenges = [c \in Challenges |-> "unknown"]
  /\ pc = [v \in Calls |-> "new"]
  /\ call = [v \in Calls |-> Unread]
  /\ steady = {}
  /\ events = [v \in Calls |-> NoStatus]
  /\ reports = [v \in Calls |-> NoStatus]

Ended == {"returned", "failed", "disabled", "died"}
Steps == Ended \cup {"new", "consume", "mode", "limit", "gate", "anchors", "verify", "face",
                     "policy", "store", "decide", "queue"}
Running(v) == pc[v] \notin Ended \cup {"new"}

\* A step of one call: it goes on to `next`, knowing `reading`.
Goes(v, next, reading) ==
  /\ pc' = [pc EXCEPT ![v] = next]
  /\ call' = [call EXCEPT ![v] = reading]
  /\ UNCHANGED <<configVars, worldVars, issued>>

-------------------------------------------------------------------------------
(* Liveness challenges.                                                    *)

Expired(c) == \E i \in issued : i.id = c /\ i.expires <= now
Known == {c \in Challenges : liveness_challenges[c] # "unknown"}

\* Wrong: a cleanup drops whatever is older.
KeptNothing == {}
Kept == IF Cardinality(Known) > CleanupAt THEN {c \in Known : ~Expired(c)} ELSE Known

\* issue_liveness_challenge: signed with the secret of this process.
Issue(c, s) ==
  /\ running
  /\ \A i \in issued : i.id # c
  /\ issued' = issued \cup {[id |-> c, session |-> s, expires |-> now + Ttl, boot |-> crashes]}
  /\ liveness_challenges' =
       [d \in Challenges |-> IF d = c THEN "open"
                             ELSE IF d \in Kept THEN liveness_challenges[d] ELSE "unknown"]
  /\ UNCHANGED <<configVars, worldVars, callVars>>

\* validate_liveness_challenge before its await: signature, expiry, session.
Presentable(r) ==
  \E i \in issued :
    /\ i.id = r.liveness_challenge
    /\ i.boot = crashes
    /\ now <= i.expires
    /\ r.kind = "face" \/ r.session_id \in {NoSession, i.session}

\* Wrong: a challenge that was cleaned up is taken for unused.
ConsumeUnknown(v) ==
  LET c == call[v].request.liveness_challenge IN
  /\ pc[v] = "consume"
  /\ liveness_challenges[c] # "used"
  /\ liveness_challenges' = [liveness_challenges EXCEPT ![c] = "used"]
  /\ Goes(v, "mode", [call[v] EXCEPT !.accepted = TRUE])
  /\ UNCHANGED <<steady, events, reports>>

\* consume_liveness_challenge, under its write lock.
Consume(v) ==
  LET c == call[v].request.liveness_challenge IN
  /\ pc[v] = "consume"
  /\ liveness_challenges[c] = "open"
  /\ liveness_challenges' = [liveness_challenges EXCEPT ![c] = "used"]
  /\ Goes(v, "mode", [call[v] EXCEPT !.accepted = TRUE])
  /\ UNCHANGED <<steady, events, reports>>

-------------------------------------------------------------------------------
(* One call.                                                               *)

Supported(r) == Complex \/ (~r.use_nfc /\ r.kind \notin {"unsupported", "face"})

Begin(v, r) ==
  /\ running /\ pc[v] = "new"
  /\ Supported(r)
  /\ r.liveness_challenge # NoChallenge => Presentable(r)
  /\ Goes(v, IF r.liveness_challenge # NoChallenge THEN "consume" ELSE "mode",
          [call[v] EXCEPT !.request = r])
  /\ steady' = IF Idle /\ ~mixed THEN steady \cup {v} ELSE steady
  /\ UNCHANGED <<liveness_challenges, events, reports>>

\* verify_face_match goes to its provider; verify_credential reads the mode.
ReadMode(v) ==
  /\ pc[v] = "mode"
  /\ Goes(v, CASE call[v].request.kind = "passport" -> "limit"
               [] call[v].request.kind = "face" -> "face"
               [] OTHER -> "verify",
          [call[v] EXCEPT !.is_online = is_online])
  /\ UNCHANGED <<liveness_challenges, steady, events, reports>>

\* ensure_csca_cache_fresh reads the engine's configuration,
GateLimit(v) ==
  /\ pc[v] = "limit"
  /\ Goes(v, "gate", [call[v] EXCEPT !.gate_limit = MaxOffline[engine]])
  /\ UNCHANGED <<liveness_challenges, steady, events, reports>>

\* then the synchronization state.
Gate(v) ==
  /\ pc[v] = "gate"
  /\ clock # Never /\ clock <= now /\ now - clock <= call[v].gate_limit
  /\ Goes(v, "anchors", call[v])
  /\ UNCHANGED <<liveness_challenges, steady, events, reports>>

Active == {ledger[d][Len(ledger[d])] : d \in {e \in Domains : ledger[e] # <<>>}}

ReadAnchors(v) ==
  /\ pc[v] = "anchors"
  /\ Goes(v, "verify", [call[v] EXCEPT !.anchors = Active])
  /\ UNCHANGED <<liveness_challenges, steady, events, reports>>

\* Wrong: the package's own expiry is left to the gate, which does not know it.
UsableUnexpired(p, limit) == p.created <= now /\ now - p.created <= limit

\* governed_csca_record_is_usable
Usable(p, limit) ==
  /\ p.created <= now
  /\ p.created < p.expires /\ now < p.expires
  /\ now - p.created <= limit

\* Wrong: an adapter that is missing makes a status of its own.
WithBiometricsMissing(r, status) ==
  IF r.liveness_challenge # NoChallenge THEN "Unavailable" ELSE status

\* Face matching has no provider, no PAD adapter passes: what is asked for
\* and cannot be had spoils the verdict, liveness last.
WithBiometrics(r, status) ==
  IF r.liveness_challenge # NoChallenge THEN "Invalid"
  ELSE IF r.perform_face_match THEN "Failed" ELSE status

Concludes(v, reading, verdict) ==
  LET status == WithBiometrics(reading.request, verdict) IN
  /\ Goes(v, IF status = "Valid" THEN "policy" ELSE "store", [reading EXCEPT !.status = status])
  /\ UNCHANGED <<liveness_challenges, steady, events, reports>>

\* The application's configuration and clock are read after the anchors; a
\* chain is valid only when it ends in a usable one.
PassportVerified(v) ==
  /\ pc[v] = "verify" /\ call[v].request.kind = "passport"
  /\ \E p \in call[v].anchors :
       /\ Usable(p, MaxOffline[config])
       /\ Concludes(v, [call[v] EXCEPT !.limit = MaxOffline[config], !.checked_at = now,
                                       !.backing = p], "Valid")

PassportRejected(v) ==
  /\ pc[v] = "verify" /\ call[v].request.kind = "passport"
  /\ \E verdict \in {"Invalid", "Failed"} : Concludes(v, call[v], verdict)

\* Only the credentials API can find a presentation valid; on the device, the
\* holder's proof is all that is checked, and never enough.
PresentationVerdicts(online) == {"Invalid", "Failed"} \cup (IF online THEN {"Valid"} ELSE {})

VerifyPresentation(v) ==
  /\ pc[v] = "verify" /\ call[v].request.kind = "presentation"
  /\ \E verdict \in PresentationVerdicts(call[v].is_online) : Concludes(v, call[v], verdict)

VerifyBadge(v) ==
  /\ pc[v] = "verify" /\ call[v].request.kind = "badge"
  /\ \E verdict \in {"Valid", "Invalid"} : Concludes(v, call[v], verdict)

Unsupported(v) ==
  /\ pc[v] = "verify" /\ call[v].request.kind = "unsupported"
  /\ Concludes(v, call[v], "Failed")

\* evaluate_policy_constraints: violations, or policies that cannot be read.
PolicyCheck(v) ==
  /\ pc[v] = "policy"
  /\ \E verdict \in Statuses : Goes(v, "store", [call[v] EXCEPT !.status = verdict])
  /\ UNCHANGED <<liveness_challenges, steady, events, reports>>

Store(v) ==
  /\ pc[v] = "store"
  /\ events' = [events EXCEPT ![v] = call[v].status]
  /\ Goes(v, "decide", call[v])
  /\ UNCHANGED <<liveness_challenges, steady, reports>>

Decide(v) ==
  /\ pc[v] = "decide"
  /\ Goes(v, IF config \in Reports /\ AuditAll THEN "queue" ELSE "returned", call[v])
  /\ UNCHANGED <<liveness_challenges, steady, events, reports>>

\* Reporter.queue_event goes by the reporter's own configuration.
Queue(v) ==
  /\ pc[v] = "queue" /\ reporter \in Reports
  /\ reports' = [reports EXCEPT ![v] = call[v].status]
  /\ Goes(v, "returned", call[v])
  /\ UNCHANGED <<liveness_challenges, steady, events>>

QueueDisabled(v) ==
  /\ pc[v] = "queue" /\ reporter \notin Reports
  /\ Goes(v, "disabled", call[v])
  /\ UNCHANGED <<liveness_challenges, steady, events, reports>>

\* Wrong: the verdict is returned although its report could not be queued.
CallFailsUnreported(v) ==
  /\ pc[v] \in {"consume", "gate", "anchors", "verify", "face", "store", "queue"}
  /\ Goes(v, IF pc[v] = "queue" THEN "returned" ELSE "failed", call[v])
  /\ UNCHANGED <<liveness_challenges, steady, events, reports>>

\* A used challenge, a closed gate, malformed input, storage, a full queue.
CallFails(v) ==
  /\ pc[v] \in {"consume", "gate", "anchors", "verify", "face", "store", "queue"}
  /\ Goes(v, "failed", call[v])
  /\ UNCHANGED <<liveness_challenges, steady, events, reports>>

FaceMatched(v) ==
  /\ pc[v] = "face"
  /\ Goes(v, "returned", call[v])
  /\ UNCHANGED <<liveness_challenges, steady, events, reports>>

Verify(v) ==
  \/ \E r \in Requests : Begin(v, r)
  \/ Consume(v) \/ ReadMode(v) \/ GateLimit(v) \/ Gate(v) \/ ReadAnchors(v)
  \/ PassportVerified(v) \/ PassportRejected(v)
  \/ VerifyPresentation(v) \/ VerifyBadge(v) \/ Unsupported(v)
  \/ PolicyCheck(v) \/ Store(v) \/ Decide(v) \/ Queue(v) \/ QueueDisabled(v)
  \/ CallFails(v) \/ FaceMatched(v)

-------------------------------------------------------------------------------
(* What goes on beside the calls.                                          *)

Import ==
  /\ running
  /\ (\E p \in Packages : Ledger!Commit(p)) \/ Ledger!FallBack
  /\ UNCHANGED <<configVars, now, is_online, storeVars, callVars>>

SetOnline ==
  /\ running
  /\ is_online' = ~is_online
  /\ UNCHANGED <<configVars, now, trustVars, storeVars, callVars>>

Tick ==
  /\ now < MaxTime
  /\ now' = now + 1
  /\ UNCHANGED <<configVars, is_online, trustVars, storeVars, callVars>>

UpdateConfig ==
  /\ \E u \in Updaters : Update(u)
  /\ steady' = {}
  /\ UNCHANGED <<worldVars, storeVars, pc, call, events, reports>>

\* A new process knows no challenge and starts offline.
ProcessCrash ==
  /\ Crash
  /\ liveness_challenges' = [c \in Challenges |-> "unknown"]
  /\ pc' = [v \in Calls |-> IF Running(v) THEN "died" ELSE pc[v]]
  /\ is_online' = FALSE
  /\ UNCHANGED <<now, trustVars, issued, call, steady, events, reports>>

ProcessStart == Start /\ UNCHANGED verifyVars

Next ==
  \/ \E v \in Calls : Verify(v)
  \/ \E c \in Challenges, s \in Sessions : Issue(c, s)
  \/ Import \/ SetOnline \/ Tick
  \/ UpdateConfig \/ ProcessCrash \/ ProcessStart

Spec == Init /\ [][Next]_vars

-------------------------------------------------------------------------------
(* Every call is somewhere in its sequence, and has read what its step     *)
(* needs.                                                                  *)
TypeOK ==
  /\ ConfigTypeOK
  /\ now \in Time /\ is_online \in BOOLEAN
  /\ ledger \in [Domains -> Seq(Packages)] /\ clock \in Nat \cup {Never}
  /\ issued \subseteq [id : Challenges, session : Sessions, expires : Nat, boot : 0 .. MaxCrashes]
  /\ liveness_challenges \in [Challenges -> {"unknown", "open", "used"}]
  /\ pc \in [Calls -> Steps]
  /\ call \in [Calls -> Reading]
  /\ steady \subseteq Calls
  /\ events \in [Calls -> Statuses \cup {NoStatus}]
  /\ reports \in [Calls -> Statuses \cup {NoStatus}]

(* "Replay protection: challenge must be issued by this instance and       *)
(* unused" (liveness.rs): no two calls are let through on one challenge,   *)
(* not concurrently, not after a cleanup, not after a restart.             *)
ChallengeAcceptedOnce ==
  \A v, w \in Calls :
    call[v].accepted /\ call[w].accepted
    /\ call[v].request.liveness_challenge = call[w].request.liveness_challenge => v = w

(* The other side of it: until it expires, a challenge of this process     *)
(* stays open exactly as long as no call was let through on it; a cleanup  *)
(* for one that is issued later takes none away.                           *)
ChallengesStayUsable ==
  \A i \in issued : i.boot = crashes /\ now < i.expires =>
    (liveness_challenges[i.id] = "open" <=>
       \A v \in Calls : call[v].accepted => call[v].request.liveness_challenge # i.id)

(* README: "Passport and DTC verification consume this same governed       *)
(* store".  A passport is on record as valid only if a package that was    *)
(* committed, unexpired and no older than a saved configuration allows     *)
(* when it was used stands behind it, whatever was imported, synchronized  *)
(* or saved meanwhile, and nothing was asked for that could not be had.    *)
PassportsAreBacked ==
  \A v \in Calls :
    events[v] = "Valid" /\ call[v].request.kind = "passport" =>
      /\ \E p \in Packages :
           /\ p = call[v].backing
           /\ \E d \in Domains : \E n \in 1 .. Len(ledger[d]) : ledger[d][n] = p
           /\ p.created <= call[v].checked_at /\ call[v].checked_at < p.expires
           /\ \E c \in saved : call[v].checked_at - p.created <= MaxOffline[c]
      /\ call[v].request.liveness_challenge = NoChallenge
      /\ ~call[v].request.perform_face_match

(* The gate goes by the engine's copy of the configuration, the record     *)
(* check and the decision to report by the application's, the queue by the *)
(* reporter's: a call beside no update sees one configuration throughout.  *)
GovernedByOneConfig ==
  \A v \in steady :
    /\ pc[v] # "disabled"
    /\ call[v].backing # NoPackage => call[v].limit = call[v].gate_limit

(* What was returned and what was queued for audit say what is on record,  *)
(* and nothing is queued that is not on record.  Where reports are wanted, *)
(* a call beside no update is answered with its verdict only if its report *)
(* is queued: a full queue is never passed over in silence.                *)
ResultsAgree ==
  \A v \in Calls :
    /\ reports[v] # NoStatus => reports[v] = events[v]
    /\ pc[v] = "returned" => events[v] = call[v].status
    /\ v \in steady /\ pc[v] = "returned" /\ call[v].request.kind # "face"
       /\ config \in Reports /\ AuditAll => reports[v] = events[v]
===============================================================================
