--------------------------- MODULE VerificationProofs ---------------------------
(***************************************************************************)
(* What Verification keeps, for any calls, challenges, packages and        *)
(* configurations: a challenge lets one call through, a valid passport is  *)
(* backed, an undisturbed call sees one configuration, and record, report  *)
(* and answer agree; settings and trust store move beside it as their own  *)
(* modules have it, and a superseded package backs nothing any more.       *)
(***************************************************************************)
EXTENDS Verification, ConfigUpdateProofs

Committed == {p \in Packages : \E d \in Domains : \E n \in 1 .. Len(ledger[d]) : ledger[d][n] = p}

Early == {"consume", "mode", "limit", "gate", "anchors", "verify", "face"}
Gated == {"gate", "anchors", "verify"}   \* of a passport: the limit is read

\* Nothing is read, decided or recorded before its step.
ProgressInv ==
  \A v \in Calls :
    /\ pc[v] = "new" => ~call[v].accepted /\ call[v].backing = NoPackage
    /\ pc[v] = "consume" =>
         ~call[v].accepted /\ call[v].request.liveness_challenge \in Challenges
    /\ pc[v] \in Early \cup {"new"} => call[v].status = NoStatus /\ call[v].backing = NoPackage
    /\ pc[v] = "face" => call[v].request.kind = "face"
    /\ pc[v] = "policy" => call[v].status = "Valid"
    /\ Running(v) => running

\* Every challenge was issued once, by a process that knows it or is gone.
IssuedInv ==
  /\ \A i, j \in issued : i.id = j.id => i = j
  /\ \A i \in issued : i.boot <= crashes
  /\ \A c \in Challenges : liveness_challenges[c] # "unknown" => \E i \in issued : i.id = c

\* A challenge that let a call through is not open any more.
AcceptedInv ==
  \A v \in Calls : call[v].accepted =>
    /\ call[v].request.liveness_challenge \in Challenges
    /\ liveness_challenges[call[v].request.liveness_challenge] # "open"
    /\ \E i \in issued : i.id = call[v].request.liveness_challenge

\* Anchors stay committed; the verdict on a passport stays justified.
Backed(v) ==
  /\ call[v].anchors \subseteq Committed
  /\ call[v].status = "Valid" /\ call[v].request.kind = "passport" =>
       /\ call[v].backing \in Committed
       /\ call[v].backing.created <= call[v].checked_at
       /\ call[v].checked_at < call[v].backing.expires
       /\ \E c \in saved : call[v].checked_at - call[v].backing.created <= MaxOffline[c]
       /\ call[v].request.liveness_challenge = NoChallenge
       /\ ~call[v].request.perform_face_match

BackedInv == \A v \in Calls : Backed(v)

\* What an undisturbed call has read is still in force, and would be again
\* after a restart.
SteadyInv ==
  \A v \in steady :
    /\ pc[v] # "new" /\ pc[v] # "disabled"
    /\ Idle /\ ~mixed /\ file \in {config, Empty}
    /\ pc[v] \in Gated /\ call[v].request.kind = "passport" =>
         call[v].gate_limit = MaxOffline[config]
    /\ pc[v] = "queue" => config \in Reports
    /\ pc[v] = "returned" /\ call[v].request.kind # "face" /\ config \in Reports /\ AuditAll =>
         reports[v] = call[v].status
    /\ call[v].backing # NoPackage => call[v].limit = call[v].gate_limit

\* The record is written once, with the final status.
RecordInv ==
  \A v \in Calls :
    /\ pc[v] \in Early \cup {"new", "policy", "store"} => events[v] = NoStatus
    /\ pc[v] \in {"decide", "queue", "returned"} => events[v] = call[v].status
    /\ events[v] # NoStatus => events[v] = call[v].status
    /\ reports[v] # NoStatus => reports[v] = events[v]

VInv == /\ TypeOK /\ ProgressInv /\ IssuedInv /\ AcceptedInv
        /\ ChallengeAcceptedOnce /\ ChallengesStayUsable
        /\ BackedInv /\ SteadyInv /\ RecordInv

\* A step lets no call through.
SameAccepted ==
  \A w \in Calls :
    /\ call'[w].accepted = call[w].accepted
    /\ call[w].accepted =>
         call'[w].request.liveness_challenge = call[w].request.liveness_challenge

-------------------------------------------------------------------------------
(* The configuration moves only as ConfigUpdate has it.                    *)
LEMMA ConfigSteps == [Next]_vars => [ConfigNext]_configVars
<1> SUFFICES ASSUME [Next]_vars PROVE [ConfigNext]_configVars  OBVIOUS
<1>1. ASSUME NEW v \in Calls, Verify(v) PROVE UNCHANGED configVars
  BY <1>1 DEF Verify, Begin, Consume, ReadMode, GateLimit, Gate, ReadAnchors, PassportVerified,
     PassportRejected, VerifyPresentation, VerifyBadge, Unsupported, Concludes, PolicyCheck,
     Store, Decide, Queue, QueueDisabled, CallFails, FaceMatched, Goes
<1>2. CASE \E c \in Challenges, s \in Sessions : Issue(c, s)  BY <1>2 DEF Issue
<1>3. CASE Import \/ SetOnline \/ Tick  BY <1>3 DEF Import, SetOnline, Tick
<1>4. CASE UpdateConfig  BY <1>4 DEF UpdateConfig, ConfigNext
<1>5. CASE ProcessCrash \/ ProcessStart  BY <1>5 DEF ProcessCrash, ProcessStart, ConfigNext
<1>6. CASE UNCHANGED vars  BY <1>6 DEF vars
<1> QED BY <1>1, <1>2, <1>3, <1>4, <1>5, <1>6 DEF Next

LEMMA ConfigHolds == Spec => []IInv
<1>1. Init => ConfigInit  BY DEF Init
<1>2. Spec => ConfigSpec  BY <1>1, ConfigSteps, PTL DEF Spec, ConfigSpec
<1> QED BY <1>2, InvHolds, PTL

(* An update leaves the process up and forgets no save.                    *)
LEMMA UpdateKeeps ==
  ASSUME UpdateConfig
  PROVE  running' = running /\ crashes' = crashes /\ saved \subseteq saved'
BY DEF UpdateConfig, Update, UpdateStart, SaveEmpties, SaveWrites, SaveFails, SetReporter, SetEngine,
   SetConfig, copies, history

(* Packages stay committed.                                                *)
LEMMA CommittedGrows ==
  ASSUME TypeOK, [Next]_vars
  PROVE  Committed \subseteq Committed'
<1>1. CASE UNCHANGED ledger  BY <1>1 DEF Committed
<1>2. ASSUME NEW p \in Packages, Ledger!Commit(p) PROVE Committed \subseteq Committed'
  <2> SUFFICES ASSUME NEW q \in Packages, NEW d \in Domains, NEW n \in 1 .. Len(ledger[d]),
                      ledger[d][n] = q
               PROVE  n \in 1 .. Len(ledger'[d]) /\ ledger'[d][n] = q
    BY DEF Committed
  <2>1. ledger \in [Domains -> Seq(Packages)]  BY DEF TypeOK
  <2>2. ledger' = [ledger EXCEPT ![p.domain] = Append(@, p)]  BY <1>2 DEF Ledger!Commit
  <2>3. CASE d = p.domain  BY <2>1, <2>2, <2>3
  <2>4. CASE d # p.domain  BY <2>1, <2>2, <2>4
  <2> QED BY <2>3, <2>4
<1>3. CASE Import  BY <1>1, <1>2, <1>3 DEF Import, Ledger!FallBack
<1>4. CASE ~Import
  BY <1>1, <1>4 DEF Next, vars, verifyVars, worldVars, trustVars, Verify, Begin, Consume, ReadMode,
     GateLimit, Gate, ReadAnchors, PassportVerified, PassportRejected, VerifyPresentation,
     VerifyBadge, Unsupported, Concludes, PolicyCheck, Store, Decide, Queue, QueueDisabled,
     CallFails, FaceMatched, Goes, Issue, SetOnline, Tick, UpdateConfig, ProcessCrash, ProcessStart
<1> QED BY <1>3, <1>4

LEMMA ActiveCommitted == ASSUME TypeOK PROVE Active \subseteq Committed
<1> SUFFICES ASSUME NEW d \in Domains, ledger[d] # <<>>
             PROVE  ledger[d][Len(ledger[d])] \in Committed
  BY DEF Active
<1>1. ledger[d] \in Seq(Packages)  BY DEF TypeOK
<1>2. Len(ledger[d]) \in 1 .. Len(ledger[d])  BY <1>1
<1>3. ledger[d][Len(ledger[d])] \in Packages  BY <1>1, <1>2
<1> QED BY <1>2, <1>3 DEF Committed

(* A reading stays one, whatever is added to it.                           *)
LEMMA Readings ==
  ASSUME VerificationAssumption, NEW x \in Reading
  PROVE  /\ \A r \in Requests : [x EXCEPT !.request = r] \in Reading
         /\ [x EXCEPT !.accepted = TRUE] \in Reading
         /\ \A b \in BOOLEAN : [x EXCEPT !.is_online = b] \in Reading
         /\ \A n \in Nat : [x EXCEPT !.gate_limit = n] \in Reading
         /\ \A A \in SUBSET Packages : [x EXCEPT !.anchors = A] \in Reading
         /\ \A s \in Statuses : [x EXCEPT !.status = s] \in Reading
         /\ \A n \in Nat, t \in Time, p \in Packages, s \in Statuses :
              [[x EXCEPT !.limit = n, !.checked_at = t, !.backing = p] EXCEPT !.status = s] \in Reading
BY DEF VerificationAssumption, Reading

(* A step of a call keeps the types if what it goes on with has one.       *)
LEMMA GoesTyped ==
  ASSUME TypeOK, NEW v \in Calls, NEW next \in Steps, NEW reading \in Reading, Goes(v, next, reading),
         liveness_challenges' \in [Challenges -> {"unknown", "open", "used"}],
         steady' \subseteq Calls,
         events' \in [Calls -> Statuses \cup {NoStatus}],
         reports' \in [Calls -> Statuses \cup {NoStatus}]
  PROVE  TypeOK'
<1>1. pc' \in [Calls -> Steps]  BY DEF TypeOK, Goes
<1>2. call' \in [Calls -> Reading]  BY DEF TypeOK, Goes
<1>3. UNCHANGED <<configVars, worldVars, issued>>  BY DEF Goes
<1>4. ConfigTypeOK'  BY <1>3 DEF TypeOK, ConfigTypeOK, configVars, copies, updateVars, history
<1> QED BY <1>1, <1>2, <1>3, <1>4 DEF TypeOK, worldVars, trustVars

(* A conclusion keeps the types.                                           *)
LEMMA ConcludesTyped ==
  ASSUME TypeOK, NEW v \in Calls, NEW reading, NEW verdict \in Statuses,
         \A s \in Statuses : [reading EXCEPT !.status = s] \in Reading,
         Concludes(v, reading, verdict)
  PROVE  TypeOK'
<1> DEFINE s == WithBiometrics(reading.request, verdict)
<1>1. s \in Statuses  BY DEF WithBiometrics, Statuses
<1>2. [reading EXCEPT !.status = s] \in Reading  BY <1>1
<1>3. (IF s = "Valid" THEN "policy" ELSE "store") \in Steps  BY DEF Steps
<1>4. /\ Goes(v, IF s = "Valid" THEN "policy" ELSE "store", [reading EXCEPT !.status = s])
      /\ UNCHANGED <<liveness_challenges, steady, events, reports>>
  BY DEF Concludes
<1>5. /\ liveness_challenges' \in [Challenges -> {"unknown", "open", "used"}]
      /\ steady' \subseteq Calls
      /\ events' \in [Calls -> Statuses \cup {NoStatus}]
      /\ reports' \in [Calls -> Statuses \cup {NoStatus}]
  BY <1>4 DEF TypeOK
<1> HIDE DEF s
<1> QED BY <1>2, <1>3, <1>4, <1>5, GoesTyped

(* What is active is a set of packages.                                    *)
LEMMA ActiveTyped == ASSUME TypeOK PROVE Active \subseteq Packages
BY ActiveCommitted DEF Committed

(* Every step of a call keeps the types.                                   *)
LEMMA VerifyTyped ==
  ASSUME TypeOK, NEW v \in Calls, Verify(v)
  PROVE  TypeOK'
<1>1. call[v] \in Reading  BY DEF TypeOK
<1>2. /\ liveness_challenges \in [Challenges -> {"unknown", "open", "used"}]
      /\ steady \subseteq Calls
      /\ events \in [Calls -> Statuses \cup {NoStatus}]
      /\ reports \in [Calls -> Statuses \cup {NoStatus}]
  BY DEF TypeOK
<1>3. MaxOffline[engine] \in Nat /\ MaxOffline[config] \in Nat
  BY VerificationAssumption DEF VerificationAssumption, TypeOK, ConfigTypeOK
<1>4. now \in Time /\ is_online \in BOOLEAN  BY DEF TypeOK
<1>5. call[v].status \in Statuses \cup {NoStatus}  BY <1>1 DEF Reading
<1> USE VerificationAssumption, <1>1, <1>2
<1>6. ASSUME NEW r \in Requests, Begin(v, r) PROVE TypeOK'
  <2>1. (IF r.liveness_challenge # NoChallenge THEN "consume" ELSE "mode") \in Steps  BY DEF Steps
  <2>2. [call[v] EXCEPT !.request = r] \in Reading  BY Readings
  <2>3. steady' \subseteq Calls  BY <1>6 DEF Begin
  <2> QED BY <1>6, <2>1, <2>2, <2>3, GoesTyped DEF Begin
<1>7. ASSUME Consume(v) PROVE TypeOK'
  <2>1. [call[v] EXCEPT !.accepted = TRUE] \in Reading  BY Readings
  <2>2. liveness_challenges' \in [Challenges -> {"unknown", "open", "used"}]
    BY <1>7 DEF Consume
  <2> QED BY <1>7, <2>1, <2>2, GoesTyped DEF Consume, Steps
<1>8. ASSUME ReadMode(v) PROVE TypeOK'
  <2>1. [call[v] EXCEPT !.is_online = is_online] \in Reading  BY <1>4, Readings
  <2> DEFINE next == CASE call[v].request.kind = "passport" -> "limit"
                       [] call[v].request.kind = "face" -> "face"
                       [] OTHER -> "verify"
  <2>2. next \in Steps  BY DEF Steps
  <2>3. Goes(v, next, [call[v] EXCEPT !.is_online = is_online])  BY <1>8 DEF ReadMode
  <2> HIDE DEF next
  <2> QED BY <1>8, <2>1, <2>2, <2>3, GoesTyped DEF ReadMode
<1>9. ASSUME GateLimit(v) PROVE TypeOK'
  <2>1. [call[v] EXCEPT !.gate_limit = MaxOffline[engine]] \in Reading  BY <1>3, Readings
  <2> QED BY <1>9, <2>1, GoesTyped DEF GateLimit, Steps
<1>10. ASSUME ReadAnchors(v) PROVE TypeOK'
  <2>1. [call[v] EXCEPT !.anchors = Active] \in Reading  BY Readings, ActiveTyped
  <2> QED BY <1>10, <2>1, GoesTyped DEF ReadAnchors, Steps
<1>11. ASSUME Gate(v) \/ QueueDisabled(v) \/ CallFails(v) \/ FaceMatched(v) PROVE TypeOK'
  BY <1>11, GoesTyped DEF Gate, QueueDisabled, CallFails, FaceMatched, Steps, Ended
<1>12. ASSUME Decide(v) PROVE TypeOK'
  <2>1. (IF config \in Reports /\ AuditAll THEN "queue" ELSE "returned") \in Steps
    BY DEF Steps, Ended
  <2> QED BY <1>12, <2>1, GoesTyped DEF Decide
<1>13. ASSUME PassportVerified(v) PROVE TypeOK'
  <2>1. PICK p \in call[v].anchors :
          Concludes(v, [call[v] EXCEPT !.limit = MaxOffline[config], !.checked_at = now,
                                       !.backing = p], "Valid")
    BY <1>13 DEF PassportVerified
  <2>2. p \in Packages  BY <2>1 DEF Reading
  <2>3. \A s \in Statuses :
          [[call[v] EXCEPT !.limit = MaxOffline[config], !.checked_at = now, !.backing = p]
             EXCEPT !.status = s] \in Reading
    BY <1>3, <1>4, <2>2, Readings
  <2>4. "Valid" \in Statuses  BY DEF Statuses
  <2> QED BY <2>1, <2>3, <2>4, ConcludesTyped
<1>14. ASSUME PassportRejected(v) \/ VerifyPresentation(v) \/ VerifyBadge(v) \/ Unsupported(v)
       PROVE  TypeOK'
  <2>1. PICK verdict \in Statuses : Concludes(v, call[v], verdict)
    BY <1>14 DEF PassportRejected, VerifyPresentation, PresentationVerdicts, VerifyBadge,
       Unsupported, Statuses
  <2>2. \A s \in Statuses : [call[v] EXCEPT !.status = s] \in Reading  BY Readings
  <2> QED BY <2>1, <2>2, ConcludesTyped
<1>15. ASSUME PolicyCheck(v) PROVE TypeOK'
  <2>1. PICK s \in Statuses : Goes(v, "store", [call[v] EXCEPT !.status = s])
    BY <1>15 DEF PolicyCheck
  <2>2. [call[v] EXCEPT !.status = s] \in Reading  BY Readings
  <2> QED BY <1>15, <2>1, <2>2, GoesTyped DEF PolicyCheck, Steps
<1>16. ASSUME Store(v) PROVE TypeOK'
  <2>1. events' \in [Calls -> Statuses \cup {NoStatus}]  BY <1>5, <1>16 DEF Store
  <2> QED BY <1>16, <2>1, GoesTyped DEF Store, Steps
<1>17. ASSUME Queue(v) PROVE TypeOK'
  <2>1. reports' \in [Calls -> Statuses \cup {NoStatus}]  BY <1>5, <1>17 DEF Queue
  <2> QED BY <1>17, <2>1, GoesTyped DEF Queue, Steps, Ended
<1> QED BY <1>6, <1>7, <1>8, <1>9, <1>10, <1>11, <1>12, <1>13, <1>14, <1>15, <1>16, <1>17 DEF Verify

(* Every step keeps the types.                                             *)
LEMMA VTypeStep ==
  ASSUME TypeOK, ConfigTypeOK', [Next]_vars
  PROVE  TypeOK'
<1> USE VerificationAssumption DEF VerificationAssumption, TypeOK
<1>1. ASSUME NEW v \in Calls, Verify(v) PROVE TypeOK'
  BY <1>1, VerifyTyped
<1>2. ASSUME NEW c \in Challenges, NEW s \in Sessions, Issue(c, s) PROVE TypeOK'
  <2>1. crashes \in 0 .. MaxCrashes /\ crashes' = crashes  BY <1>2 DEF Issue, ConfigTypeOK, configVars
  <2>2. now + Ttl \in Nat  BY DEF Time
  <2>3. issued' \subseteq [id : Challenges, session : Sessions, expires : Nat, boot : 0 .. MaxCrashes]
    BY <1>2, <2>1, <2>2 DEF Issue
  <2>4. liveness_challenges' \in [Challenges -> {"unknown", "open", "used"}]  BY <1>2 DEF Issue
  <2> QED BY <1>2, <2>3, <2>4 DEF Issue, worldVars, trustVars, callVars
<1>3. CASE Import
  <2>1. UNCHANGED <<now, is_online, storeVars, callVars>>  BY <1>3 DEF Import
  <2>2. ASSUME NEW p \in Packages, Ledger!Commit(p)
        PROVE  ledger' \in [Domains -> Seq(Packages)] /\ clock' \in Nat \cup {Never}
    <3>1. ledger' = [ledger EXCEPT ![p.domain] = Append(ledger[p.domain], p)]
      BY <2>2 DEF Ledger!Commit
    <3>2. p.domain \in Domains  BY DEF Package
    <3>3. Append(ledger[p.domain], p) \in Seq(Packages)  BY <3>2
    <3>4. ledger' \in [Domains -> Seq(Packages)]  BY <3>1, <3>2, <3>3
    <3>5. clock' \in Nat  BY <2>2 DEF Ledger!Commit, Package
    <3> QED BY <3>4, <3>5
  <2>3. ASSUME Ledger!FallBack
        PROVE  ledger' \in [Domains -> Seq(Packages)] /\ clock' \in Nat \cup {Never}
    BY <2>3 DEF Ledger!FallBack, Ledger!CreationTimes, Package
  <2>4. ledger' \in [Domains -> Seq(Packages)] /\ clock' \in Nat \cup {Never}
    BY <1>3, <2>2, <2>3 DEF Import
  <2> QED BY <2>1, <2>4 DEF storeVars, callVars
<1>4. CASE SetOnline  BY <1>4 DEF SetOnline, trustVars, storeVars, callVars
<1>5. CASE Tick  BY <1>5 DEF Tick, Time, trustVars, storeVars, callVars
<1>6. CASE UpdateConfig  BY <1>6 DEF UpdateConfig, worldVars, trustVars, storeVars
<1>7. CASE ProcessCrash
  <2>1. pc' \in [Calls -> Steps]  BY <1>7 DEF ProcessCrash, Steps, Ended
  <2>2. liveness_challenges' \in [Challenges -> {"unknown", "open", "used"}] /\ is_online' \in BOOLEAN
    BY <1>7 DEF ProcessCrash
  <2> QED BY <1>7, <2>1, <2>2 DEF ProcessCrash, trustVars
<1>8. CASE ProcessStart
  BY <1>8 DEF ProcessStart, verifyVars, worldVars, trustVars, storeVars, callVars
<1>9. CASE UNCHANGED vars
  BY <1>9 DEF vars, verifyVars, worldVars, trustVars, storeVars, callVars
<1> QED BY <1>1, <1>2, <1>3, <1>4, <1>5, <1>6, <1>7, <1>8, <1>9 DEF Next

(* Nothing is read, decided or recorded early.                             *)
LEMMA ProgressStep ==
  ASSUME TypeOK, ProgressInv, [Next]_vars
  PROVE  ProgressInv'
<1> USE DEF ProgressInv, TypeOK, Steps, Ended, Running, Early, Reading, Request, Statuses, NoStatus,
           configVars, verifyVars, worldVars, storeVars, callVars, trustVars, history, copies, updateVars
<1>1. ASSUME NEW v \in Calls, NEW r \in Requests, Begin(v, r) PROVE ProgressInv'
  BY <1>1, VerificationAssumption DEF Begin, Goes, VerificationAssumption
<1>2. ASSUME NEW v \in Calls, Consume(v) PROVE ProgressInv'
  BY <1>2 DEF Consume, Goes
<1>3. ASSUME NEW v \in Calls, ReadMode(v) PROVE ProgressInv'
  BY <1>3 DEF ReadMode, Goes
<1>4. ASSUME NEW v \in Calls, GateLimit(v) PROVE ProgressInv'
  BY <1>4 DEF GateLimit, Goes
<1>5. ASSUME NEW v \in Calls, Gate(v) PROVE ProgressInv'
  BY <1>5 DEF Gate, Goes
<1>6. ASSUME NEW v \in Calls, ReadAnchors(v) PROVE ProgressInv'
  BY <1>6 DEF ReadAnchors, Goes
<1>7. ASSUME NEW v \in Calls, PassportVerified(v) PROVE ProgressInv'
  BY <1>7 DEF PassportVerified, Concludes, WithBiometrics, Goes
<1>8. ASSUME NEW v \in Calls, PassportRejected(v) PROVE ProgressInv'
  BY <1>8 DEF PassportRejected, Concludes, WithBiometrics, Goes
<1>9. ASSUME NEW v \in Calls, VerifyPresentation(v) PROVE ProgressInv'
  BY <1>9 DEF VerifyPresentation, PresentationVerdicts, Concludes, WithBiometrics, Goes
<1>10. ASSUME NEW v \in Calls, VerifyBadge(v) PROVE ProgressInv'
  BY <1>10 DEF VerifyBadge, Concludes, WithBiometrics, Goes
<1>11. ASSUME NEW v \in Calls, Unsupported(v) PROVE ProgressInv'
  BY <1>11 DEF Unsupported, Concludes, WithBiometrics, Goes
<1>12. ASSUME NEW v \in Calls, PolicyCheck(v) PROVE ProgressInv'
  BY <1>12 DEF PolicyCheck, Goes
<1>13. ASSUME NEW v \in Calls, Store(v) PROVE ProgressInv'
  BY <1>13 DEF Store, Goes
<1>14. ASSUME NEW v \in Calls, Decide(v) PROVE ProgressInv'
  BY <1>14 DEF Decide, Goes
<1>15. ASSUME NEW v \in Calls, Queue(v) PROVE ProgressInv'
  BY <1>15 DEF Queue, Goes
<1>16. ASSUME NEW v \in Calls, QueueDisabled(v) PROVE ProgressInv'
  BY <1>16 DEF QueueDisabled, Goes
<1>17. ASSUME NEW v \in Calls, CallFails(v) PROVE ProgressInv'
  BY <1>17 DEF CallFails, Goes
<1>18. ASSUME NEW v \in Calls, FaceMatched(v) PROVE ProgressInv'
  BY <1>18 DEF FaceMatched, Goes
<1>19. ASSUME NEW c \in Challenges, NEW s \in Sessions, Issue(c, s) PROVE ProgressInv'
  BY <1>19 DEF Issue
<1>20. CASE Import  BY <1>20 DEF Import, Ledger!Commit, Ledger!FallBack
<1>21. CASE SetOnline  BY <1>21 DEF SetOnline
<1>22. CASE Tick  BY <1>22 DEF Tick
<1>23. CASE UpdateConfig  BY <1>23, UpdateKeeps DEF UpdateConfig
<1>24. CASE ProcessCrash  BY <1>24 DEF ProcessCrash, Crash
<1>25. CASE ProcessStart  BY <1>25 DEF ProcessStart, Start
<1>26. CASE UNCHANGED vars  BY <1>26 DEF vars
<1> QED BY <1>1, <1>2, <1>3, <1>4, <1>5, <1>6, <1>7, <1>8, <1>9, <1>10, <1>11, <1>12, <1>13, <1>14,
           <1>15, <1>16, <1>17, <1>18, <1>19, <1>20, <1>21, <1>22, <1>23, <1>24, <1>25, <1>26 DEF Next,
           Verify

(* A challenge is issued once, by the process that runs.                   *)
LEMMA IssuedStep ==
  ASSUME TypeOK, IssuedInv, [Next]_vars
  PROVE  IssuedInv'
<1> USE DEF IssuedInv, TypeOK, configVars, verifyVars, worldVars, storeVars, callVars, trustVars,
           history, copies, updateVars
<1>1. ASSUME NEW v \in Calls, NEW r \in Requests, Begin(v, r) PROVE IssuedInv'
  BY <1>1 DEF Begin, Goes
<1>2. ASSUME NEW v \in Calls, Consume(v) PROVE IssuedInv'
  BY <1>2 DEF Consume, Goes
<1>3. ASSUME NEW v \in Calls, ReadMode(v) PROVE IssuedInv'
  BY <1>3 DEF ReadMode, Goes
<1>4. ASSUME NEW v \in Calls, GateLimit(v) PROVE IssuedInv'
  BY <1>4 DEF GateLimit, Goes
<1>5. ASSUME NEW v \in Calls, Gate(v) PROVE IssuedInv'
  BY <1>5 DEF Gate, Goes
<1>6. ASSUME NEW v \in Calls, ReadAnchors(v) PROVE IssuedInv'
  BY <1>6 DEF ReadAnchors, Goes
<1>7. ASSUME NEW v \in Calls, PassportVerified(v) PROVE IssuedInv'
  BY <1>7 DEF PassportVerified, Concludes, WithBiometrics, Goes
<1>8. ASSUME NEW v \in Calls, PassportRejected(v) PROVE IssuedInv'
  BY <1>8 DEF PassportRejected, Concludes, WithBiometrics, Goes
<1>9. ASSUME NEW v \in Calls, VerifyPresentation(v) PROVE IssuedInv'
  BY <1>9 DEF VerifyPresentation, PresentationVerdicts, Concludes, WithBiometrics, Goes
<1>10. ASSUME NEW v \in Calls, VerifyBadge(v) PROVE IssuedInv'
  BY <1>10 DEF VerifyBadge, Concludes, WithBiometrics, Goes
<1>11. ASSUME NEW v \in Calls, Unsupported(v) PROVE IssuedInv'
  BY <1>11 DEF Unsupported, Concludes, WithBiometrics, Goes
<1>12. ASSUME NEW v \in Calls, PolicyCheck(v) PROVE IssuedInv'
  BY <1>12 DEF PolicyCheck, Goes
<1>13. ASSUME NEW v \in Calls, Store(v) PROVE IssuedInv'
  BY <1>13 DEF Store, Goes
<1>14. ASSUME NEW v \in Calls, Decide(v) PROVE IssuedInv'
  BY <1>14 DEF Decide, Goes
<1>15. ASSUME NEW v \in Calls, Queue(v) PROVE IssuedInv'
  BY <1>15 DEF Queue, Goes
<1>16. ASSUME NEW v \in Calls, QueueDisabled(v) PROVE IssuedInv'
  BY <1>16 DEF QueueDisabled, Goes
<1>17. ASSUME NEW v \in Calls, CallFails(v) PROVE IssuedInv'
  BY <1>17 DEF CallFails, Goes
<1>18. ASSUME NEW v \in Calls, FaceMatched(v) PROVE IssuedInv'
  BY <1>18 DEF FaceMatched, Goes
<1>19. ASSUME NEW c \in Challenges, NEW s \in Sessions, Issue(c, s) PROVE IssuedInv'
  <2> DEFINE new == [id |-> c, session |-> s, expires |-> now + Ttl, boot |-> crashes]
  <2>1. issued' = issued \cup {new} /\ crashes' = crashes /\ \A i \in issued : i.id # c
    BY <1>19 DEF Issue
  <2>2. new.id = c /\ new.boot = crashes  OBVIOUS
  <2>3. crashes \in Nat  BY ConfigAssumption DEF ConfigAssumption, ConfigTypeOK
  <2>4. \A d \in Challenges : liveness_challenges'[d] # "unknown" =>
          d = c \/ liveness_challenges[d] # "unknown"
    BY <1>19 DEF Issue, Kept, Known
  <2> HIDE DEF new
  <2> QED BY <2>1, <2>2, <2>3, <2>4
<1>20. CASE Import  BY <1>20 DEF Import, Ledger!Commit, Ledger!FallBack
<1>21. CASE SetOnline  BY <1>21 DEF SetOnline
<1>22. CASE Tick  BY <1>22 DEF Tick
<1>23. CASE UpdateConfig  BY <1>23, UpdateKeeps DEF UpdateConfig
<1>24. CASE ProcessCrash
  <2>1. crashes \in Nat /\ crashes' = crashes + 1  BY <1>24, ConfigAssumption DEF ProcessCrash, Crash,
           ConfigAssumption, ConfigTypeOK
  <2>2. \A i \in issued : i.boot \in Nat  BY ConfigAssumption DEF ConfigAssumption
  <2> QED BY <1>24, <2>1, <2>2 DEF ProcessCrash
<1>25. CASE ProcessStart  BY <1>25 DEF ProcessStart, Start
<1>26. CASE UNCHANGED vars  BY <1>26 DEF vars
<1> QED BY <1>1, <1>2, <1>3, <1>4, <1>5, <1>6, <1>7, <1>8, <1>9, <1>10, <1>11, <1>12, <1>13, <1>14,
           <1>15, <1>16, <1>17, <1>18, <1>19, <1>20, <1>21, <1>22, <1>23, <1>24, <1>25, <1>26 DEF Next,
           Verify

(* A challenge that let a call through stays used.                         *)
LEMMA AcceptedStep ==
  ASSUME TypeOK, ProgressInv, IssuedInv, AcceptedInv, [Next]_vars
  PROVE  AcceptedInv'
<1> USE DEF AcceptedInv, ProgressInv, TypeOK, Reading, Request, configVars, verifyVars, worldVars,
           storeVars, callVars, trustVars, history, copies, updateVars
<1>1. ASSUME NEW v \in Calls, NEW r \in Requests, Begin(v, r) PROVE AcceptedInv'
  BY <1>1, VerificationAssumption DEF Begin, Goes, VerificationAssumption
<1>2. ASSUME NEW v \in Calls, Consume(v) PROVE AcceptedInv'
  <2> DEFINE c == call[v].request.liveness_challenge
  <2>1. c \in Challenges /\ \E i \in issued : i.id = c
    BY <1>2 DEF Consume, IssuedInv
  <2>2. issued' = issued /\ \A d \in Challenges :
          liveness_challenges'[d] = IF d = c THEN "used" ELSE liveness_challenges[d]
    BY <1>2 DEF Consume, Goes
  <2>3. \A w \in Calls : /\ call'[w].request = call[w].request
                         /\ call'[w].accepted => w = v \/ call[w].accepted
    BY <1>2 DEF Consume, Goes
  <2>4. \A w \in Calls : call[w].accepted =>
          /\ call[w].request.liveness_challenge \in Challenges
          /\ liveness_challenges[call[w].request.liveness_challenge] # "open"
          /\ \E i \in issued : i.id = call[w].request.liveness_challenge
    OBVIOUS
  <2>5. ASSUME NEW w \in Calls, call'[w].accepted
        PROVE  /\ call[w].request.liveness_challenge \in Challenges
               /\ liveness_challenges'[call[w].request.liveness_challenge] # "open"
               /\ \E i \in issued : i.id = call[w].request.liveness_challenge
    <3>1. CASE w = v  BY <2>1, <2>2, <3>1
    <3>2. CASE call[w].accepted  BY <2>2, <2>4, <3>2
    <3> QED BY <2>3, <2>5, <3>1, <3>2
  <2> QED BY <2>2, <2>3, <2>5
<1>3. ASSUME NEW v \in Calls, ReadMode(v) PROVE AcceptedInv'
  BY <1>3 DEF ReadMode, Goes
<1>4. ASSUME NEW v \in Calls, GateLimit(v) PROVE AcceptedInv'
  BY <1>4 DEF GateLimit, Goes
<1>5. ASSUME NEW v \in Calls, Gate(v) PROVE AcceptedInv'
  BY <1>5 DEF Gate, Goes
<1>6. ASSUME NEW v \in Calls, ReadAnchors(v) PROVE AcceptedInv'
  BY <1>6 DEF ReadAnchors, Goes
<1>7. ASSUME NEW v \in Calls, PassportVerified(v) PROVE AcceptedInv'
  BY <1>7 DEF PassportVerified, Concludes, WithBiometrics, Goes
<1>8. ASSUME NEW v \in Calls, PassportRejected(v) PROVE AcceptedInv'
  BY <1>8 DEF PassportRejected, Concludes, WithBiometrics, Goes
<1>9. ASSUME NEW v \in Calls, VerifyPresentation(v) PROVE AcceptedInv'
  BY <1>9 DEF VerifyPresentation, PresentationVerdicts, Concludes, WithBiometrics, Goes
<1>10. ASSUME NEW v \in Calls, VerifyBadge(v) PROVE AcceptedInv'
  BY <1>10 DEF VerifyBadge, Concludes, WithBiometrics, Goes
<1>11. ASSUME NEW v \in Calls, Unsupported(v) PROVE AcceptedInv'
  BY <1>11 DEF Unsupported, Concludes, WithBiometrics, Goes
<1>12. ASSUME NEW v \in Calls, PolicyCheck(v) PROVE AcceptedInv'
  BY <1>12 DEF PolicyCheck, Goes
<1>13. ASSUME NEW v \in Calls, Store(v) PROVE AcceptedInv'
  BY <1>13 DEF Store, Goes
<1>14. ASSUME NEW v \in Calls, Decide(v) PROVE AcceptedInv'
  BY <1>14 DEF Decide, Goes
<1>15. ASSUME NEW v \in Calls, Queue(v) PROVE AcceptedInv'
  BY <1>15 DEF Queue, Goes
<1>16. ASSUME NEW v \in Calls, QueueDisabled(v) PROVE AcceptedInv'
  BY <1>16 DEF QueueDisabled, Goes
<1>17. ASSUME NEW v \in Calls, CallFails(v) PROVE AcceptedInv'
  BY <1>17 DEF CallFails, Goes
<1>18. ASSUME NEW v \in Calls, FaceMatched(v) PROVE AcceptedInv'
  BY <1>18 DEF FaceMatched, Goes
<1>19. ASSUME NEW c \in Challenges, NEW s \in Sessions, Issue(c, s) PROVE AcceptedInv'
  BY <1>19 DEF Issue, Kept, Known
<1>20. CASE Import  BY <1>20 DEF Import, Ledger!Commit, Ledger!FallBack
<1>21. CASE SetOnline  BY <1>21 DEF SetOnline
<1>22. CASE Tick  BY <1>22 DEF Tick
<1>23. CASE UpdateConfig  BY <1>23 DEF UpdateConfig
<1>24. CASE ProcessCrash  BY <1>24 DEF ProcessCrash, Crash
<1>25. CASE ProcessStart  BY <1>25 DEF ProcessStart, Start
<1>26. CASE UNCHANGED vars  BY <1>26 DEF vars
<1> QED BY <1>1, <1>2, <1>3, <1>4, <1>5, <1>6, <1>7, <1>8, <1>9, <1>10, <1>11, <1>12, <1>13, <1>14,
           <1>15, <1>16, <1>17, <1>18, <1>19, <1>20, <1>21, <1>22, <1>23, <1>24, <1>25, <1>26 DEF Next,
           Verify

(* Nobody is let through by a step other than Consume.                     *)
LEMMA OnlyConsumeAccepts ==
  ASSUME TypeOK, ProgressInv, NEW v \in Calls, Verify(v)
  PROVE  \/ Consume(v)
         \/ SameAccepted /\ UNCHANGED <<issued, liveness_challenges, crashes, now>>
<1> DEFINE Same == SameAccepted /\ UNCHANGED <<issued, liveness_challenges, crashes, now>>
<1>1. call \in [Calls -> Reading]  BY DEF TypeOK
<1> USE <1>1 DEF SameAccepted, Reading, Goes, configVars, worldVars
<1>2. ASSUME NEW r \in Requests, Begin(v, r) PROVE Same  BY <1>2 DEF Begin, ProgressInv
<1>3. ASSUME ReadMode(v) PROVE Same  BY <1>3 DEF ReadMode
<1>4. ASSUME GateLimit(v) PROVE Same  BY <1>4 DEF GateLimit
<1>5. ASSUME Gate(v) \/ Store(v) \/ Decide(v) PROVE Same  BY <1>5 DEF Gate, Store, Decide
<1>6. ASSUME ReadAnchors(v) PROVE Same  BY <1>6 DEF ReadAnchors
<1>7. ASSUME PassportVerified(v) PROVE Same  BY <1>7 DEF PassportVerified, Concludes
<1>8. ASSUME PassportRejected(v) PROVE Same  BY <1>8 DEF PassportRejected, Concludes
<1>9. ASSUME VerifyPresentation(v) PROVE Same  BY <1>9 DEF VerifyPresentation, Concludes
<1>10. ASSUME VerifyBadge(v) \/ Unsupported(v) PROVE Same
  BY <1>10 DEF VerifyBadge, Unsupported, Concludes
<1>11. ASSUME PolicyCheck(v) PROVE Same  BY <1>11 DEF PolicyCheck
<1>12. ASSUME Queue(v) \/ QueueDisabled(v) \/ CallFails(v) \/ FaceMatched(v) PROVE Same
  BY <1>12 DEF Queue, QueueDisabled, CallFails, FaceMatched
<1> QED
  BY <1>2, <1>3, <1>4, <1>5, <1>6, <1>7, <1>8, <1>9, <1>10, <1>11, <1>12 DEF Verify

(* While nobody is let through and nothing issued, no challenge is lost.   *)
LEMMA UsableFrame ==
  ASSUME TypeOK, ChallengesStayUsable, SameAccepted,
         UNCHANGED <<issued, liveness_challenges, crashes>>, now' \in Nat, now <= now'
  PROVE  ChallengesStayUsable'
<1> SUFFICES ASSUME NEW i \in issued, i.boot = crashes, now' < i.expires
             PROVE  liveness_challenges[i.id] = "open" <=>
                      \A w \in Calls : call'[w].accepted => call'[w].request.liveness_challenge # i.id
  BY DEF ChallengesStayUsable
<1>1. i.expires \in Nat /\ now \in Nat  BY VerificationAssumption DEF TypeOK, Time, VerificationAssumption
<1>2. now < i.expires  BY <1>1
<1>3. liveness_challenges[i.id] = "open" <=>
        \A w \in Calls : call[w].accepted => call[w].request.liveness_challenge # i.id
  BY <1>2 DEF ChallengesStayUsable
<1> QED BY <1>3 DEF SameAccepted

(* A challenge stays open until a call is let through or it expires.       *)
LEMMA UsableStep ==
  ASSUME TypeOK, TypeOK', ProgressInv, IssuedInv, AcceptedInv, ChallengesStayUsable, [Next]_vars
  PROVE  ChallengesStayUsable'
<1>1. now \in Nat /\ now' \in Nat /\ now <= now
  BY VerificationAssumption DEF TypeOK, Time, VerificationAssumption
<1>2. ASSUME NEW v \in Calls, Verify(v), ~Consume(v) PROVE ChallengesStayUsable'
  BY <1>1, <1>2, OnlyConsumeAccepts, UsableFrame
<1>3. ASSUME NEW v \in Calls, Consume(v) PROVE ChallengesStayUsable'
  <2> DEFINE c == call[v].request.liveness_challenge
  <2>1. UNCHANGED <<issued, crashes, now>>  BY <1>3 DEF Consume, Goes, configVars, worldVars
  <2>2. \A d \in Challenges :
          liveness_challenges'[d] = IF d = c THEN "used" ELSE liveness_challenges[d]
    BY <1>3 DEF Consume, TypeOK
  <2>3. /\ call'[v].accepted
        /\ \A w \in Calls : call'[w].request = call[w].request
        /\ \A w \in Calls : w # v => call'[w].accepted = call[w].accepted
    <3>1. call' = [call EXCEPT ![v] = [call[v] EXCEPT !.accepted = TRUE]]  BY <1>3 DEF Consume, Goes
    <3>2. call \in [Calls -> Reading] /\ call[v] \in Reading  BY DEF TypeOK
    <3>3. call'[v] = [call[v] EXCEPT !.accepted = TRUE]  BY <3>1, <3>2
    <3>4. call'[v].accepted = TRUE /\ call'[v].request = call[v].request  BY <3>2, <3>3 DEF Reading
    <3>5. \A w \in Calls : w # v => call'[w] = call[w]  BY <3>1, <3>2
    <3> QED BY <3>4, <3>5
  <2> SUFFICES ASSUME NEW i \in issued, i.boot = crashes, now < i.expires
               PROVE  liveness_challenges'[i.id] = "open" <=>
                        \A w \in Calls : call'[w].accepted => call'[w].request.liveness_challenge # i.id
    BY <2>1 DEF ChallengesStayUsable
  <2>4. liveness_challenges[i.id] = "open" <=>
          \A w \in Calls : call[w].accepted => call[w].request.liveness_challenge # i.id
    BY DEF ChallengesStayUsable
  <2>5. i.id \in Challenges  BY DEF TypeOK
  <2>6. ~call[v].accepted  BY <1>3 DEF Consume, ProgressInv
  <2>7. c = call[v].request.liveness_challenge  OBVIOUS
  <2> HIDE DEF c
  <2>8. CASE i.id = c  BY <2>2, <2>3, <2>5, <2>7, <2>8
  <2>9. CASE i.id # c
    <3>1. liveness_challenges'[i.id] = liveness_challenges[i.id]  BY <2>2, <2>5, <2>9
    <3> QED BY <2>3, <2>4, <2>6, <2>7, <2>9, <3>1
  <2> QED BY <2>8, <2>9
<1>4. ASSUME NEW c \in Challenges, NEW s \in Sessions, Issue(c, s) PROVE ChallengesStayUsable'
  <2> DEFINE new == [id |-> c, session |-> s, expires |-> now + Ttl, boot |-> crashes]
  <2>1. UNCHANGED <<crashes, now, call>>  BY <1>4 DEF Issue, configVars, worldVars, callVars
  <2>2. issued' = issued \cup {new} /\ \A i \in issued : i.id # c  BY <1>4 DEF Issue
  <2>3. \A d \in Challenges : liveness_challenges'[d] =
          IF d = c THEN "open" ELSE IF d \in Kept THEN liveness_challenges[d] ELSE "unknown"
    BY <1>4 DEF Issue
  <2>4. ASSUME NEW i \in issued, i.boot = crashes, now < i.expires
        PROVE  liveness_challenges'[i.id] = "open" <=>
                 \A w \in Calls : call[w].accepted => call[w].request.liveness_challenge # i.id
    <3>1. i.id \in Challenges /\ i.id # c /\ i.expires \in Nat
      BY <2>2, VerificationAssumption DEF TypeOK
    <3>2. ~Expired(i.id)
      <4> SUFFICES ASSUME NEW j \in issued, j.id = i.id, j.expires <= now PROVE FALSE  BY DEF Expired
      <4>1. j = i  BY DEF IssuedInv
      <4> QED BY <1>1, <2>4, <3>1, <4>1
    <3>3. liveness_challenges[i.id] = "open" => i.id \in Kept  BY <3>1, <3>2 DEF Kept, Known
    <3>4. liveness_challenges'[i.id] = "open" <=> liveness_challenges[i.id] = "open"
      BY <2>3, <3>1, <3>3
    <3> QED BY <2>4, <3>4 DEF ChallengesStayUsable
  <2>5. new.id = c /\ liveness_challenges'[c] = "open"  BY <2>3
  <2>6. \A w \in Calls : call[w].accepted => call[w].request.liveness_challenge # c
    BY <2>2 DEF AcceptedInv
  <2> HIDE DEF new
  <2> QED BY <2>1, <2>2, <2>4, <2>5, <2>6 DEF ChallengesStayUsable
<1>5. ASSUME Import \/ SetOnline \/ Tick \/ UpdateConfig \/ ProcessStart \/ UNCHANGED vars
      PROVE  ChallengesStayUsable'
  <2>1. UNCHANGED <<issued, liveness_challenges, crashes, call>>
    BY <1>5, UpdateKeeps DEF Import, SetOnline, Tick, UpdateConfig, ProcessStart, Start, vars,
       configVars, verifyVars, storeVars, callVars, updateVars
  <2>2. now <= now'
    BY <1>1, <1>5 DEF Import, SetOnline, Tick, UpdateConfig, ProcessStart, vars, verifyVars, worldVars
  <2> QED BY <1>1, <2>1, <2>2, UsableFrame DEF SameAccepted
<1>6. CASE ProcessCrash
  <2>1. crashes' = crashes + 1 /\ issued' = issued  BY <1>6 DEF ProcessCrash, Crash
  <2>2. crashes \in Nat /\ \A i \in issued : i.boot \in Nat
    BY ConfigAssumption DEF ConfigAssumption, TypeOK, ConfigTypeOK
  <2> QED BY <2>1, <2>2 DEF IssuedInv, ChallengesStayUsable
<1> QED BY <1>2, <1>3, <1>4, <1>5, <1>6 DEF Next

(* A second call finds the challenge used.                                 *)
LEMMA OnceStep ==
  ASSUME TypeOK, ProgressInv, AcceptedInv, ChallengeAcceptedOnce, [Next]_vars
  PROVE  ChallengeAcceptedOnce'
<1>1. ASSUME SameAccepted PROVE ChallengeAcceptedOnce'
  BY <1>1 DEF SameAccepted, ChallengeAcceptedOnce
<1>2. ASSUME NEW v \in Calls, Verify(v), ~Consume(v) PROVE ChallengeAcceptedOnce'
  BY <1>1, <1>2, OnlyConsumeAccepts
<1>3. ASSUME NEW v \in Calls, Consume(v) PROVE ChallengeAcceptedOnce'
  <2>1. call' = [call EXCEPT ![v] = [call[v] EXCEPT !.accepted = TRUE]]  BY <1>3 DEF Consume, Goes
  <2>2. call \in [Calls -> Reading] /\ call[v] \in Reading  BY DEF TypeOK
  <2>3. call'[v].request = call[v].request  BY <2>1, <2>2 DEF Reading
  <2>4. \A w \in Calls : w # v => call'[w] = call[w]  BY <2>1, <2>2
  <2>5. liveness_challenges[call[v].request.liveness_challenge] = "open"  BY <1>3 DEF Consume
  <2>6. \A w \in Calls : w # v /\ call[w].accepted =>
          call[w].request.liveness_challenge # call[v].request.liveness_challenge
    BY <2>5 DEF AcceptedInv
  <2> QED BY <2>3, <2>4, <2>6 DEF ChallengeAcceptedOnce
<1>4. CASE ~\E v \in Calls : Verify(v)
  <2>1. UNCHANGED call
    BY <1>4 DEF Next, vars, verifyVars, callVars, Issue, Import, SetOnline, Tick, UpdateConfig,
       ProcessCrash, ProcessStart
  <2> QED BY <1>1, <2>1 DEF SameAccepted
<1> QED BY <1>2, <1>3, <1>4

(* No save is forgotten.                                                   *)
LEMMA SavedGrows == ASSUME [ConfigNext]_configVars PROVE saved \subseteq saved'
BY DEF ConfigNext, Crash, Start, configVars, Update, UpdateStart, SaveEmpties, SaveWrites, SaveFails,
   SetReporter, SetEngine, SetConfig, copies, history

(* A verdict stays backed while the call does not revise it.               *)
LEMMA BackedFrame ==
  ASSUME NEW v \in Calls, Backed(v), Committed \subseteq Committed', saved \subseteq saved',
         call'[v].anchors = call[v].anchors, call'[v].request = call[v].request,
         call'[v].backing = call[v].backing, call'[v].checked_at = call[v].checked_at,
         call'[v].status = call[v].status
  PROVE  Backed(v)'
BY DEF Backed

(* A call that has no verdict, or one on anything else, owes its anchors.  *)
LEMMA BackedAnyway ==
  ASSUME NEW v \in Calls, Backed(v), Committed \subseteq Committed',
         call'[v].anchors = call[v].anchors,
         call'[v].status # "Valid" \/ call'[v].request.kind # "passport"
  PROVE  Backed(v)'
BY DEF Backed

(* A step of a call leaves its own verdict backed.                         *)
LEMMA VerifyBacked ==
  ASSUME TypeOK, ProgressInv, ActiveWasSaved, NEW v \in Calls, Backed(v), Verify(v),
         Committed \subseteq Committed', saved \subseteq saved'
  PROVE  Backed(v)'
<1>1. call \in [Calls -> Reading] /\ call[v] \in Reading  BY DEF TypeOK
<1>2. ASSUME Consume(v) \/ ReadMode(v) \/ GateLimit(v) \/ Gate(v) \/ Store(v) \/ Decide(v)
             \/ Queue(v) \/ QueueDisabled(v) \/ CallFails(v) \/ FaceMatched(v)
      PROVE  Backed(v)'
  <2>1. /\ call'[v].anchors = call[v].anchors /\ call'[v].request = call[v].request
        /\ call'[v].backing = call[v].backing /\ call'[v].checked_at = call[v].checked_at
        /\ call'[v].status = call[v].status
    BY <1>1, <1>2 DEF Consume, ReadMode, GateLimit, Gate, Store, Decide, Queue, QueueDisabled,
       CallFails, FaceMatched, Goes, Reading
  <2> QED BY <2>1, BackedFrame
<1>3. ASSUME NEW r \in Requests, Begin(v, r) PROVE Backed(v)'
  <2>1. call'[v].anchors = call[v].anchors /\ call'[v].status = NoStatus
    BY <1>1, <1>3 DEF Begin, Goes, Reading, ProgressInv
  <2> QED BY <2>1, BackedAnyway DEF NoStatus
<1>4. ASSUME ReadAnchors(v) PROVE Backed(v)'
  <2>1. call'[v].anchors = Active /\ call'[v].status = NoStatus
    BY <1>1, <1>4 DEF ReadAnchors, Goes, Reading, ProgressInv, Early
  <2>2. Active \subseteq Committed'  BY ActiveCommitted
  <2> QED BY <2>1, <2>2 DEF Backed, NoStatus
<1>5. ASSUME PassportVerified(v) PROVE Backed(v)'
  <2>1. PICK p \in call[v].anchors :
          /\ Usable(p, MaxOffline[config])
          /\ Concludes(v, [call[v] EXCEPT !.limit = MaxOffline[config], !.checked_at = now,
                                          !.backing = p], "Valid")
    BY <1>5 DEF PassportVerified
  <2>2. /\ call'[v].anchors = call[v].anchors /\ call'[v].request = call[v].request
        /\ call'[v].backing = p /\ call'[v].checked_at = now
        /\ call'[v].status = WithBiometrics(call[v].request, "Valid")
    BY <1>1, <2>1 DEF Concludes, Goes, Reading
  <2>3. p \in Committed'  BY DEF Backed
  <2>4. p.created <= now /\ now < p.expires /\ now - p.created <= MaxOffline[config]
    BY <2>1 DEF Usable
  <2>5. config \in saved'  BY DEF ActiveWasSaved
  <2>6. call'[v].status = "Valid" =>
          call[v].request.liveness_challenge = NoChallenge /\ ~call[v].request.perform_face_match
    BY <2>2 DEF WithBiometrics
  <2>7. call'[v].anchors \subseteq Committed'  BY <2>2 DEF Backed
  <2> QED BY <2>2, <2>3, <2>4, <2>5, <2>6, <2>7 DEF Backed
<1>6. ASSUME PassportRejected(v) PROVE Backed(v)'
  <2>1. PICK verdict \in {"Invalid", "Failed"} : Concludes(v, call[v], verdict)
    BY <1>6 DEF PassportRejected
  <2>2. call'[v].anchors = call[v].anchors /\ call'[v].status # "Valid"
    BY <1>1, <2>1 DEF Concludes, Goes, Reading, WithBiometrics
  <2> QED BY <2>2, BackedAnyway
<1>7. ASSUME VerifyPresentation(v) \/ VerifyBadge(v) \/ Unsupported(v) PROVE Backed(v)'
  <2>1. call'[v].anchors = call[v].anchors /\ call'[v].request.kind # "passport"
    BY <1>1, <1>7 DEF VerifyPresentation, VerifyBadge, Unsupported, Concludes, Goes, Reading
  <2> QED BY <2>1, BackedAnyway
<1>8. ASSUME PolicyCheck(v) PROVE Backed(v)'
  <2>1. /\ call'[v].anchors = call[v].anchors /\ call'[v].request = call[v].request
        /\ call'[v].backing = call[v].backing /\ call'[v].checked_at = call[v].checked_at
        /\ call[v].status = "Valid"
    BY <1>1, <1>8 DEF PolicyCheck, Goes, Reading, ProgressInv
  <2>2. CASE call'[v].status = "Valid"  BY <2>1, <2>2, BackedFrame
  <2>3. CASE call'[v].status # "Valid"  BY <2>1, <2>3, BackedAnyway
  <2> QED BY <2>2, <2>3
<1> QED BY <1>2, <1>3, <1>4, <1>5, <1>6, <1>7, <1>8 DEF Verify

(* Every verdict stays backed, whatever happens beside its call.           *)
LEMMA BackedStep ==
  ASSUME TypeOK, ProgressInv, ActiveWasSaved, BackedInv, [Next]_vars
  PROVE  BackedInv'
<1>1. Committed \subseteq Committed'  BY CommittedGrows
<1>2. saved \subseteq saved'  BY ConfigSteps, SavedGrows
<1>3. ASSUME NEW v \in Calls, Verify(v), NEW w \in Calls PROVE Backed(w)'
  <2>1. Backed(v) /\ Backed(w)  BY DEF BackedInv
  <2>2. CASE w = v  BY <1>1, <1>2, <1>3, <2>1, <2>2, VerifyBacked
  <2>3. CASE w # v
    <3>1. call'[w] = call[w]
      BY <1>3, <2>3 DEF TypeOK, Verify, Begin, Consume, ReadMode, GateLimit, Gate, ReadAnchors,
         PassportVerified, PassportRejected, VerifyPresentation, VerifyBadge, Unsupported,
         Concludes, PolicyCheck, Store, Decide, Queue, QueueDisabled, CallFails, FaceMatched, Goes
    <3> QED BY <1>1, <1>2, <2>1, <3>1, BackedFrame
  <2> QED BY <2>2, <2>3
<1>4. ASSUME UNCHANGED call PROVE BackedInv'
  <2> SUFFICES ASSUME NEW v \in Calls PROVE Backed(v)'  BY DEF BackedInv
  <2>1. Backed(v)  BY DEF BackedInv
  <2> QED BY <1>1, <1>2, <1>4, <2>1, BackedFrame
<1>5. CASE \E v \in Calls : Verify(v)  BY <1>3, <1>5 DEF BackedInv
<1>6. CASE ~\E v \in Calls : Verify(v)
  BY <1>4, <1>6 DEF Next, vars, verifyVars, callVars, Issue, Import, SetOnline, Tick, UpdateConfig,
     ProcessCrash, ProcessStart
<1> QED BY <1>5, <1>6

(* Beside no update, what a call has read stays in force.                  *)
LEMMA SteadyStep ==
  ASSUME TypeOK, ProgressInv, SteadyInv, CopiesAgree, ConfigTypeOK, [Next]_vars
  PROVE  SteadyInv'
<1> USE DEF SteadyInv, CopiesAgree, ProgressInv, TypeOK, ConfigTypeOK, Reading, Request, Steps, Ended,
           Running,
           Early, Gated, Idle, configVars, verifyVars, worldVars, storeVars, callVars, trustVars,
           history, copies, updateVars
<1>1. ASSUME NEW v \in Calls, NEW r \in Requests, Begin(v, r) PROVE SteadyInv'
  BY <1>1 DEF Begin, Goes
<1>2. ASSUME NEW v \in Calls, Consume(v) PROVE SteadyInv'
  BY <1>2 DEF Consume, Goes
<1>3. ASSUME NEW v \in Calls, ReadMode(v) PROVE SteadyInv'
  BY <1>3 DEF ReadMode, Goes
<1>4. ASSUME NEW v \in Calls, GateLimit(v) PROVE SteadyInv'
  <2>1. v \in steady => engine = config  BY <1>4 DEF GateLimit
  <2>2. pc' = [pc EXCEPT ![v] = "gate"]
        /\ call' = [call EXCEPT ![v] = [call[v] EXCEPT !.gate_limit = MaxOffline[engine]]]
    BY <1>4 DEF GateLimit, Goes
  <2>3. \A w \in Calls \ {v} : pc'[w] = pc[w] /\ call'[w] = call[w]  BY <2>2
  <2>4. call'[v].gate_limit = MaxOffline[engine] /\ call'[v].backing = call[v].backing
    BY <2>2
  <2>5. pc[v] = "limit" /\ pc'[v] = "gate" /\ call[v].backing = NoPackage
    BY <1>4, <2>2 DEF GateLimit
  <2> QED BY <1>4, <2>1, <2>3, <2>4, <2>5 DEF GateLimit, Goes
<1>5. ASSUME NEW v \in Calls, Gate(v) PROVE SteadyInv'
  BY <1>5 DEF Gate, Goes
<1>6. ASSUME NEW v \in Calls, ReadAnchors(v) PROVE SteadyInv'
  BY <1>6 DEF ReadAnchors, Goes
<1>7. ASSUME NEW v \in Calls, PassportVerified(v) PROVE SteadyInv'
  BY <1>7 DEF PassportVerified, Concludes, WithBiometrics, Goes
<1>8. ASSUME NEW v \in Calls, PassportRejected(v) PROVE SteadyInv'
  BY <1>8 DEF PassportRejected, Concludes, WithBiometrics, Goes
<1>9. ASSUME NEW v \in Calls, VerifyPresentation(v) PROVE SteadyInv'
  BY <1>9 DEF VerifyPresentation, PresentationVerdicts, Concludes, WithBiometrics, Goes
<1>10. ASSUME NEW v \in Calls, VerifyBadge(v) PROVE SteadyInv'
  BY <1>10 DEF VerifyBadge, Concludes, WithBiometrics, Goes
<1>11. ASSUME NEW v \in Calls, Unsupported(v) PROVE SteadyInv'
  BY <1>11 DEF Unsupported, Concludes, WithBiometrics, Goes
<1>12. ASSUME NEW v \in Calls, PolicyCheck(v) PROVE SteadyInv'
  BY <1>12 DEF PolicyCheck, Goes
<1>13. ASSUME NEW v \in Calls, Store(v) PROVE SteadyInv'
  BY <1>13 DEF Store, Goes
<1>14. ASSUME NEW v \in Calls, Decide(v) PROVE SteadyInv'
  BY <1>14 DEF Decide, Goes
<1>15. ASSUME NEW v \in Calls, Queue(v) PROVE SteadyInv'
  BY <1>15 DEF Queue, Goes
<1>16. ASSUME NEW v \in Calls, QueueDisabled(v) PROVE SteadyInv'
  <2>1. v \notin steady  BY <1>16 DEF QueueDisabled
  <2>2. \A w \in Calls \ {v} : pc'[w] = pc[w] /\ call'[w] = call[w]
    BY <1>16 DEF QueueDisabled, Goes
  <2> QED BY <1>16, <2>1, <2>2 DEF QueueDisabled, Goes
<1>17. ASSUME NEW v \in Calls, CallFails(v) PROVE SteadyInv'
  BY <1>17 DEF CallFails, Goes
<1>18. ASSUME NEW v \in Calls, FaceMatched(v) PROVE SteadyInv'
  BY <1>18 DEF FaceMatched, Goes
<1>19. ASSUME NEW c \in Challenges, NEW s \in Sessions, Issue(c, s) PROVE SteadyInv'
  BY <1>19 DEF Issue
<1>20. CASE Import  BY <1>20 DEF Import, Ledger!Commit, Ledger!FallBack
<1>21. CASE SetOnline  BY <1>21 DEF SetOnline
<1>22. CASE Tick  BY <1>22 DEF Tick
<1>23. CASE UpdateConfig  BY <1>23 DEF UpdateConfig
<1>24. CASE ProcessCrash  BY <1>24 DEF ProcessCrash, Crash
<1>25. CASE ProcessStart  BY <1>25, ConfigAssumption DEF ProcessStart, Start, ConfigAssumption
<1>26. CASE UNCHANGED vars  BY <1>26 DEF vars
<1> QED BY <1>1, <1>2, <1>3, <1>4, <1>5, <1>6, <1>7, <1>8, <1>9, <1>10, <1>11, <1>12, <1>13, <1>14,
           <1>15, <1>16, <1>17, <1>18, <1>19, <1>20, <1>21, <1>22, <1>23, <1>24, <1>25, <1>26 DEF Next,
           Verify

(* The record is written once and read back unchanged.                     *)
LEMMA RecordStep ==
  ASSUME TypeOK, ProgressInv, RecordInv, [Next]_vars
  PROVE  RecordInv'
<1> USE DEF RecordInv, ProgressInv, TypeOK, Reading, Request, Statuses, NoStatus, Steps, Ended, Running,
           Early, configVars, verifyVars, worldVars, storeVars, callVars, trustVars, history, copies,
           updateVars
<1>1. ASSUME NEW v \in Calls, NEW r \in Requests, Begin(v, r) PROVE RecordInv'
  BY <1>1 DEF Begin, Goes
<1>2. ASSUME NEW v \in Calls, Consume(v) PROVE RecordInv'
  BY <1>2 DEF Consume, Goes
<1>3. ASSUME NEW v \in Calls, ReadMode(v) PROVE RecordInv'
  BY <1>3 DEF ReadMode, Goes
<1>4. ASSUME NEW v \in Calls, GateLimit(v) PROVE RecordInv'
  BY <1>4 DEF GateLimit, Goes
<1>5. ASSUME NEW v \in Calls, Gate(v) PROVE RecordInv'
  BY <1>5 DEF Gate, Goes
<1>6. ASSUME NEW v \in Calls, ReadAnchors(v) PROVE RecordInv'
  BY <1>6 DEF ReadAnchors, Goes
<1>7. ASSUME NEW v \in Calls, PassportVerified(v) PROVE RecordInv'
  BY <1>7 DEF PassportVerified, Concludes, WithBiometrics, Goes
<1>8. ASSUME NEW v \in Calls, PassportRejected(v) PROVE RecordInv'
  BY <1>8 DEF PassportRejected, Concludes, WithBiometrics, Goes
<1>9. ASSUME NEW v \in Calls, VerifyPresentation(v) PROVE RecordInv'
  BY <1>9 DEF VerifyPresentation, PresentationVerdicts, Concludes, WithBiometrics, Goes
<1>10. ASSUME NEW v \in Calls, VerifyBadge(v) PROVE RecordInv'
  BY <1>10 DEF VerifyBadge, Concludes, WithBiometrics, Goes
<1>11. ASSUME NEW v \in Calls, Unsupported(v) PROVE RecordInv'
  BY <1>11 DEF Unsupported, Concludes, WithBiometrics, Goes
<1>12. ASSUME NEW v \in Calls, PolicyCheck(v) PROVE RecordInv'
  BY <1>12 DEF PolicyCheck, Goes
<1>13. ASSUME NEW v \in Calls, Store(v) PROVE RecordInv'
  BY <1>13 DEF Store, Goes
<1>14. ASSUME NEW v \in Calls, Decide(v) PROVE RecordInv'
  BY <1>14 DEF Decide, Goes
<1>15. ASSUME NEW v \in Calls, Queue(v) PROVE RecordInv'
  BY <1>15 DEF Queue, Goes
<1>16. ASSUME NEW v \in Calls, QueueDisabled(v) PROVE RecordInv'
  BY <1>16 DEF QueueDisabled, Goes
<1>17. ASSUME NEW v \in Calls, CallFails(v) PROVE RecordInv'
  BY <1>17 DEF CallFails, Goes
<1>18. ASSUME NEW v \in Calls, FaceMatched(v) PROVE RecordInv'
  BY <1>18 DEF FaceMatched, Goes
<1>19. ASSUME NEW c \in Challenges, NEW s \in Sessions, Issue(c, s) PROVE RecordInv'
  BY <1>19 DEF Issue
<1>20. CASE Import  BY <1>20 DEF Import, Ledger!Commit, Ledger!FallBack
<1>21. CASE SetOnline  BY <1>21 DEF SetOnline
<1>22. CASE Tick  BY <1>22 DEF Tick
<1>23. CASE UpdateConfig  BY <1>23 DEF UpdateConfig
<1>24. CASE ProcessCrash  BY <1>24 DEF ProcessCrash, Crash
<1>25. CASE ProcessStart  BY <1>25 DEF ProcessStart, Start
<1>26. CASE UNCHANGED vars  BY <1>26 DEF vars
<1> QED BY <1>1, <1>2, <1>3, <1>4, <1>5, <1>6, <1>7, <1>8, <1>9, <1>10, <1>11, <1>12, <1>13, <1>14,
           <1>15, <1>16, <1>17, <1>18, <1>19, <1>20, <1>21, <1>22, <1>23, <1>24, <1>25, <1>26 DEF Next,
           Verify

-------------------------------------------------------------------------------
(* Before anything was asked there is nothing to justify.                  *)
LEMMA InitVInv == Init => VInv
<1> SUFFICES ASSUME Init PROVE VInv  OBVIOUS
<1> USE VerificationAssumption DEF VerificationAssumption
<1>1. Unread \in Reading
  <2>1. (CHOOSE r \in Requests : TRUE) \in Request  OBVIOUS
  <2>2. 0 \in Time  BY DEF Time
  <2> QED BY <2>1, <2>2 DEF Unread, Reading
<1>2. /\ call = [v \in Calls |-> Unread] /\ pc = [v \in Calls |-> "new"] /\ issued = {}
      /\ steady = {} /\ events = [v \in Calls |-> NoStatus] /\ reports = [v \in Calls |-> NoStatus]
      /\ liveness_challenges = [c \in Challenges |-> "unknown"]
  BY DEF Init
<1>3. \A v \in Calls : ~call[v].accepted /\ call[v].backing = NoPackage /\ call[v].status = NoStatus
                       /\ call[v].anchors = {}
  BY <1>2 DEF Unread
<1>4. TypeOK
  <2>1. ConfigTypeOK
    <3>1. ConfigInit  BY DEF Init
    <3> QED BY <3>1, InitInv DEF IInv
  <2>2. now \in Time /\ is_online \in BOOLEAN
    <3>1. now = 0 /\ is_online = FALSE  BY DEF Init
    <3>2. 0 \in Time  BY DEF Time
    <3> QED BY <3>1, <3>2
  <2>3. ledger \in [Domains -> Seq(Packages)] /\ clock \in Nat \cup {Never}
    <3>1. ledger = [d \in Domains |-> <<>>] /\ clock = Never  BY DEF Init, Ledger!Init
    <3>2. <<>> \in Seq(Packages)  OBVIOUS
    <3> QED BY <3>1, <3>2
  <2> QED BY <1>1, <1>2, <2>1, <2>2, <2>3 DEF TypeOK, Steps
<1>5. ProgressInv  BY <1>2, <1>3 DEF ProgressInv, Running, Early
<1>6. IssuedInv /\ AcceptedInv /\ ChallengeAcceptedOnce /\ ChallengesStayUsable
  BY <1>2, <1>3 DEF IssuedInv, AcceptedInv, ChallengeAcceptedOnce, ChallengesStayUsable
<1>7. BackedInv  BY <1>3 DEF BackedInv, Backed, NoStatus
<1>8. SteadyInv  BY <1>2 DEF SteadyInv
<1>9. RecordInv  BY <1>2, <1>3 DEF RecordInv
<1> QED BY <1>4, <1>5, <1>6, <1>7, <1>8, <1>9 DEF VInv

(* The parts are kept together, next to ConfigUpdate's invariant.          *)
LEMMA VStep == VInv /\ IInv /\ IInv' /\ [Next]_vars => VInv'
<1> SUFFICES ASSUME VInv, IInv, IInv', [Next]_vars PROVE VInv'  OBVIOUS
<1>1. ConfigTypeOK /\ ConfigTypeOK' /\ ActiveWasSaved /\ CopiesAgree  BY DEF IInv
<1>2. TypeOK'  BY <1>1, VTypeStep DEF VInv
<1> QED BY <1>1, <1>2, ProgressStep, IssuedStep, AcceptedStep, OnceStep, UsableStep, BackedStep,
           SteadyStep, RecordStep DEF VInv

LEMMA VInvHolds == Spec => []VInv
BY InitVInv, VStep, ConfigHolds, PTL DEF Spec

(* Every call is somewhere in its sequence, with what its step needs.      *)
THEOREM VerificationTyped == Spec => []TypeOK
<1>1. VInv => TypeOK  BY DEF VInv
<1> QED BY VInvHolds, <1>1, PTL

(* One challenge lets one call through, across cleanups and restarts.      *)
THEOREM AcceptedOnce == Spec => []ChallengeAcceptedOnce
<1>1. VInv => ChallengeAcceptedOnce  BY DEF VInv
<1> QED BY VInvHolds, <1>1, PTL

(* No challenge is lost before it expires or lets a call through.          *)
THEOREM StaysUsable == Spec => []ChallengesStayUsable
<1>1. VInv => ChallengesStayUsable  BY DEF VInv
<1> QED BY VInvHolds, <1>1, PTL

(* A passport on record as valid is backed by a committed, fresh package.  *)
THEOREM PassportsBacked == Spec => []PassportsAreBacked
<1>1. VInv => PassportsAreBacked
  <2> SUFFICES ASSUME VInv, NEW v \in Calls, events[v] = "Valid", call[v].request.kind = "passport"
               PROVE  /\ \E p \in Packages :
                           /\ p = call[v].backing
                           /\ \E d \in Domains : \E n \in 1 .. Len(ledger[d]) : ledger[d][n] = p
                           /\ p.created <= call[v].checked_at /\ call[v].checked_at < p.expires
                           /\ \E c \in saved : call[v].checked_at - p.created <= MaxOffline[c]
                      /\ call[v].request.liveness_challenge = NoChallenge
                      /\ ~call[v].request.perform_face_match
    BY DEF PassportsAreBacked
  <2>1. call[v].status = "Valid"  BY DEF VInv, RecordInv, NoStatus
  <2>2. Backed(v)  BY DEF VInv, BackedInv
  <2> QED BY <2>1, <2>2 DEF Backed, Committed
<1> QED BY VInvHolds, <1>1, PTL

(* A call beside no update goes by one configuration from gate to report.  *)
THEOREM OneConfig == Spec => []GovernedByOneConfig
<1>1. VInv => GovernedByOneConfig  BY DEF VInv, SteadyInv, GovernedByOneConfig
<1> QED BY VInvHolds, <1>1, PTL

(* Answer, stored event and report say the same, and no verdict that is to *)
(* be reported is returned without its report.                             *)
THEOREM OneResult == Spec => []ResultsAgree
<1>1. VInv => ResultsAgree  BY DEF VInv, RecordInv, SteadyInv, ResultsAgree
<1> QED BY VInvHolds, <1>1, PTL
-------------------------------------------------------------------------------
(* The call works on a store that its environment moves: what the store    *)
(* promises holds here too, and an import is felt by every call that has   *)
(* not read the store yet.                                                 *)

\* Packages lie in the ledger of their own domain, by rising sequence.
LedgerOrdered ==
  \A d \in Domains : \A n \in 1 .. Len(ledger[d]) :
    /\ ledger[d][n].domain = d
    /\ \A m \in 1 .. n - 1 : ledger[d][m].sequence < ledger[d][n].sequence

\* A package of higher sequence has taken its place,
Superseded(p) == \E n \in 1 .. Len(ledger[p.domain]) - 1 : ledger[p.domain][n] = p

\* and the call has not read it before.
Missed(v, p) == Superseded(p) /\ p \notin call[v].anchors /\ call[v].backing # p

LEMMA LedgerSteps == [Next]_vars => [Ledger!Next]_trustVars
<1> SUFFICES ASSUME [Next]_vars PROVE [Ledger!Next]_trustVars  OBVIOUS
<1>1. CASE Import  BY <1>1 DEF Import, Ledger!Next
<1>2. ASSUME ~Import PROVE ledger' = ledger /\ clock' = clock
  BY <1>2 DEF Next, vars, verifyVars, worldVars, trustVars, Verify, Begin, Consume, ReadMode,
     GateLimit, Gate, ReadAnchors, PassportVerified, PassportRejected, VerifyPresentation,
     VerifyBadge, Unsupported, Concludes, PolicyCheck, Store, Decide, Queue, QueueDisabled,
     CallFails, FaceMatched, Goes, Issue, SetOnline, Tick, UpdateConfig, ProcessCrash, ProcessStart
<1> QED BY <1>1, <1>2 DEF trustVars

\* What one more package does to the ledgers.
LEMMA CommitAppends ==
  ASSUME TypeOK, NEW p \in Packages, Ledger!Commit(p), NEW d \in Domains
  PROVE  /\ ledger[d] \in Seq(Packages)
         /\ d # p.domain => ledger'[d] = ledger[d]
         /\ d = p.domain => /\ ledger'[d] = Append(ledger[d], p)
                            /\ ledger[d] # <<>> => ledger[d][Len(ledger[d])].sequence < p.sequence
<1>1. ledger \in [Domains -> Seq(Packages)]  BY DEF TypeOK
<1>2. ledger' = [ledger EXCEPT ![p.domain] = Append(@, p)]  BY DEF Ledger!Commit
<1>3. \A q \in Packages : q.sequence \in Nat  BY VerificationAssumption DEF VerificationAssumption, Package
<1>4. ASSUME d = p.domain, ledger[d] # <<>>
      PROVE  ledger[d][Len(ledger[d])].sequence < p.sequence
  <2>1. p.sequence > ledger[d][Len(ledger[d])].sequence
    BY <1>4 DEF Ledger!Commit, Ledger!Succeeds
  <2>2. ledger[d] \in Seq(Packages) /\ Len(ledger[d]) \in 1 .. Len(ledger[d])  BY <1>1, <1>4
  <2>3. ledger[d][Len(ledger[d])] \in Packages  BY <2>2
  <2> QED BY <1>3, <2>1, <2>3
<1> QED BY <1>1, <1>2, <1>4

LEMMA LedgerOrderedStep ==
  ASSUME TypeOK, LedgerOrdered, [Next]_vars
  PROVE  LedgerOrdered'
<1>1. CASE UNCHANGED ledger  BY <1>1 DEF LedgerOrdered
<1>2. ASSUME NEW p \in Packages, Ledger!Commit(p) PROVE LedgerOrdered'
  <2> SUFFICES ASSUME NEW d \in Domains, NEW n \in 1 .. Len(ledger'[d])
               PROVE  /\ ledger'[d][n].domain = d
                      /\ \A m \in 1 .. n - 1 : ledger'[d][m].sequence < ledger'[d][n].sequence
    BY DEF LedgerOrdered
  <2>0. ledger[d] \in Seq(Packages) /\ Len(ledger[d]) \in Nat  BY <1>2, CommitAppends
  <2>1. CASE d # p.domain
    <3>1. ledger'[d] = ledger[d]  BY <1>2, <2>1, CommitAppends
    <3> QED BY <3>1 DEF LedgerOrdered
  <2>2. CASE d = p.domain
    <3>1. ledger'[d] = Append(ledger[d], p)  BY <1>2, <2>2, CommitAppends
    <3>2. CASE n # Len(ledger[d]) + 1
      <4>1. n \in 1 .. Len(ledger[d])  BY <2>0, <3>1, <3>2
      <4>2. \A m \in 1 .. n : ledger'[d][m] = ledger[d][m]  BY <2>0, <3>1, <4>1
      <4>3. /\ ledger[d][n].domain = d
            /\ \A m \in 1 .. n - 1 : ledger[d][m].sequence < ledger[d][n].sequence
        BY <4>1 DEF LedgerOrdered
      <4>4. n \in 1 .. n /\ \A m \in 1 .. n - 1 : m \in 1 .. n  BY <4>1
      <4> QED BY <4>2, <4>3, <4>4
    <3>3. CASE n = Len(ledger[d]) + 1
      <4>1. ledger'[d][n] = p /\ n - 1 = Len(ledger[d])  BY <2>0, <3>1, <3>3
      <4>2. ASSUME NEW m \in 1 .. n - 1 PROVE ledger'[d][m].sequence < p.sequence
        <5>1. m \in 1 .. Len(ledger[d]) /\ ledger[d] # <<>>  BY <2>0, <4>1
        <5>2. ledger'[d][m] = ledger[d][m]  BY <2>0, <3>1, <5>1
        <5>3. ledger[d][Len(ledger[d])].sequence < p.sequence
          BY <1>2, <2>2, <5>1, CommitAppends
        <5>4. Len(ledger[d]) \in 1 .. Len(ledger[d])  BY <2>0, <5>1
        <5>5. m = Len(ledger[d]) \/ m \in 1 .. Len(ledger[d]) - 1  BY <2>0, <5>1
        <5>6. m = Len(ledger[d])
              \/ ledger[d][m].sequence < ledger[d][Len(ledger[d])].sequence
          BY <5>4, <5>5 DEF LedgerOrdered
        <5>7. \A q \in Packages : q.sequence \in Nat
          BY VerificationAssumption DEF VerificationAssumption, Package
        <5>8. ledger[d][m] \in Packages /\ ledger[d][Len(ledger[d])] \in Packages
          BY <2>0, <5>1, <5>4
        <5>9. /\ ledger[d][m].sequence \in Nat /\ ledger[d][Len(ledger[d])].sequence \in Nat
              /\ p.sequence \in Nat
          BY <5>7, <5>8
        <5>10. ledger[d][m].sequence < p.sequence  BY <5>3, <5>6, <5>9
        <5> QED BY <5>2, <5>10
      <4> QED BY <2>2, <4>1, <4>2
    <3> QED BY <3>2, <3>3
  <2> QED BY <2>1, <2>2
<1> QED BY <1>1, <1>2, LedgerSteps DEF Ledger!Next, Ledger!FallBack, trustVars

\* A package that was superseded is none of those in force.
LEMMA SupersededInactive ==
  ASSUME TypeOK, LedgerOrdered, NEW p \in Packages, Superseded(p)
  PROVE  p \notin Active
<1> SUFFICES ASSUME NEW d \in Domains, ledger[d] # <<>>, ledger[d][Len(ledger[d])] = p
             PROVE  FALSE
  BY DEF Active
<1>1. ledger[d] \in Seq(Packages) /\ Len(ledger[d]) \in 1 .. Len(ledger[d])  BY DEF TypeOK
<1>2. p.domain = d  BY <1>1 DEF LedgerOrdered
<1>3. PICK n \in 1 .. Len(ledger[d]) - 1 : ledger[d][n] = p  BY <1>2 DEF Superseded
<1>4. p.sequence < p.sequence  BY <1>1, <1>3 DEF LedgerOrdered
<1>5. p.sequence \in Nat  BY VerificationAssumption DEF VerificationAssumption, Package
<1> QED BY <1>4, <1>5

LEMMA SupersededStays ==
  ASSUME TypeOK, NEW p \in Packages, Superseded(p), [Next]_vars
  PROVE  Superseded(p)'
<1>1. CASE UNCHANGED ledger  BY <1>1 DEF Superseded
<1>2. ASSUME NEW q \in Packages, Ledger!Commit(q) PROVE Superseded(p)'
  <2>1. p.domain \in Domains  BY VerificationAssumption DEF VerificationAssumption, Package
  <2>2. PICK n \in 1 .. Len(ledger[p.domain]) - 1 : ledger[p.domain][n] = p  BY DEF Superseded
  <2>3. /\ ledger[p.domain] \in Seq(Packages)
        /\ \/ ledger'[p.domain] = ledger[p.domain]
           \/ ledger'[p.domain] = Append(ledger[p.domain], q)
    BY <1>2, <2>1, CommitAppends
  <2>4. n \in 1 .. Len(ledger'[p.domain]) - 1 /\ ledger'[p.domain][n] = p  BY <2>2, <2>3
  <2> QED BY <2>4 DEF Superseded
<1> QED BY <1>1, <1>2, LedgerSteps DEF Ledger!Next, Ledger!FallBack, trustVars

LEMMA MissedStays ==
  ASSUME TypeOK, LedgerOrdered, NEW v \in Calls, NEW p \in Packages, Missed(v, p), [Next]_vars
  PROVE  Missed(v, p)'
<1>1. Superseded(p)'  BY SupersededStays DEF Missed
<1>2. call \in [Calls -> Reading] /\ call[v] \in Reading  BY DEF TypeOK
<1>3. ASSUME call'[v].anchors = call[v].anchors, call'[v].backing = call[v].backing
      PROVE  Missed(v, p)'
  BY <1>1, <1>3 DEF Missed
<1>4. ASSUME ReadAnchors(v) PROVE Missed(v, p)'
  <2>1. call'[v].anchors = Active /\ call'[v].backing = call[v].backing
    BY <1>2, <1>4 DEF ReadAnchors, Goes, Reading
  <2>2. p \notin Active  BY SupersededInactive DEF Missed
  <2> QED BY <1>1, <2>1, <2>2 DEF Missed
<1>5. ASSUME PassportVerified(v) PROVE Missed(v, p)'
  <2>1. PICK q \in call[v].anchors :
          Concludes(v, [call[v] EXCEPT !.limit = MaxOffline[config], !.checked_at = now,
                                       !.backing = q], "Valid")
    BY <1>5 DEF PassportVerified
  <2>2. call'[v].anchors = call[v].anchors /\ call'[v].backing = q
    BY <1>2, <2>1 DEF Concludes, Goes, Reading
  <2> QED BY <1>1, <2>1, <2>2 DEF Missed
<1>6. ASSUME Verify(v), ~ReadAnchors(v), ~PassportVerified(v) PROVE Missed(v, p)'
  <2>1. call'[v].anchors = call[v].anchors /\ call'[v].backing = call[v].backing
    BY <1>2, <1>6 DEF Verify, Begin, Consume, ReadMode, GateLimit, Gate, PassportRejected,
       VerifyPresentation, VerifyBadge, Unsupported, Concludes, PolicyCheck, Store, Decide, Queue,
       QueueDisabled, CallFails, FaceMatched, Goes, Reading
  <2> QED BY <1>3, <2>1
<1>7. ASSUME NEW w \in Calls, Verify(w), w # v PROVE Missed(v, p)'
  <2>1. call'[v] = call[v]
    BY <1>7 DEF TypeOK, Verify, Begin, Consume, ReadMode, GateLimit, Gate, ReadAnchors,
       PassportVerified, PassportRejected, VerifyPresentation, VerifyBadge, Unsupported,
       Concludes, PolicyCheck, Store, Decide, Queue, QueueDisabled, CallFails, FaceMatched, Goes
  <2> QED BY <1>3, <2>1
<1>8. CASE \E w \in Calls : Verify(w)  BY <1>4, <1>5, <1>6, <1>7, <1>8
<1>9. CASE ~\E w \in Calls : Verify(w)
  <2>1. call' = call
    BY <1>9 DEF Next, vars, verifyVars, callVars, Issue, Import, SetOnline, Tick, UpdateConfig,
       ProcessCrash, ProcessStart
  <2> QED BY <1>3, <2>1
<1> QED BY <1>8, <1>9

LEMMA LedgerOrderedHolds == Spec => []LedgerOrdered
<1>1. Init => LedgerOrdered
  <2>1. Init => ledger = [d \in Domains |-> <<>>]  BY DEF Init, Ledger!Init
  <2> QED BY <2>1 DEF LedgerOrdered
<1>2. TypeOK /\ LedgerOrdered /\ [Next]_vars => LedgerOrdered'  BY LedgerOrderedStep
<1> QED BY <1>1, <1>2, VerificationTyped, PTL DEF Spec

(* Whatever the calls do, the settings beside them move as ConfigUpdate    *)
(* has it and the trust store as TrustLedger has it: what is proved of     *)
(* those two holds of the whole.                                           *)
THEOREM WholeKeepsParts == Spec => ConfigSpec /\ Ledger!Spec
<1>1. Init => ConfigInit /\ Ledger!Init  BY DEF Init
<1>2. [Ledger!Next]_trustVars => [Ledger!Next]_(Ledger!vars)  BY DEF trustVars, Ledger!vars
<1> QED BY <1>1, <1>2, ConfigSteps, LedgerSteps, PTL DEF Spec, ConfigSpec, Ledger!Spec

(* An import takes effect at once: no call that reads the store after a    *)
(* package was superseded gets to see it, or has it behind its verdict     *)
(* (get_csca_certificates reads the active records, once per call).        *)
THEOREM SupersededNeverBacks ==
  ASSUME NEW v \in Calls, NEW p \in Packages
  PROVE  Spec => [](Missed(v, p) => []Missed(v, p))
<1>1. TypeOK /\ LedgerOrdered /\ Missed(v, p) /\ [Next]_vars => Missed(v, p)'  BY MissedStays
<1> QED BY <1>1, VerificationTyped, LedgerOrderedHolds, PTL DEF Spec
===============================================================================
