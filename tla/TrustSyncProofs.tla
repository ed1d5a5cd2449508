---------------------------- MODULE TrustSyncProofs ---------------------------
(***************************************************************************)
(* Proofs about TrustSync, for every set of packages, keys, trust domains, *)
(* configurations and concurrent imports and syncs.                        *)
(***************************************************************************)
EXTENDS TrustSync, TLAPS

\* A state of synchronization some signed package accounts for.
Accounted(st) ==
  /\ st.clock # Never => \E p \in Committed : st.clock = p.created
  /\ st.clock <= now + Skew

\* So are the durable state, every copy a sync has yet to write back, and the
\* package every import has yet to apply.
ClockInv ==
  /\ Accounted(syncState)
  /\ \A s \in Syncers : Accounted(sread[s])
  /\ \A i \in Importers : ipc[i] = "apply" => ipackage[i].created <= now + Skew

\* The recovery key of a domain is the one its first package pinned.
RecoveryPinned ==
  \A d \in Domains : \A m, n \in DOMAIN ledger[d] :
    ledger[d][m].recovery = ledger[d][n].recovery

LedgerInv == SequencesIncrease /\ SignerChain /\ RecoveryPinned

-------------------------------------------------------------------------------
LEMMA InitTypeOK == Init => TypeOK
<1> SUFFICES ASSUME Init PROVE TypeOK  OBVIOUS
<1> USE TrustAssumption DEF Init, TypeOK, TrustAssumption
<1>1. NoDomain \in Domains /\ NoPackage \in Packages  BY DEF NoDomain, NoPackage
<1>2. NoSyncState \in SyncState  BY DEF NoSyncState, SyncState
<1>3. ledger \in [Domains -> Seq(Sequenced)]  OBVIOUS
<1>4. now \in Time /\ crashes \in 0 .. MaxCrashes  BY DEF Time
<1>5. /\ ipc \in [Importers -> {"idle", "verify", "apply"}]
      /\ idomain \in [Importers -> Domains]
      /\ ipackage \in [Importers -> Packages]
  BY <1>1
<1>6. /\ spc \in [Syncers -> {"idle", "read", "write"}]
      /\ sread \in [Syncers -> SyncState]
  BY <1>2
<1> QED BY <1>2, <1>3, <1>4, <1>5, <1>6

(* Calls that return leave well-typed locals behind.                       *)
LEMMA ImportReturnsTyped ==
  ASSUME TypeOK, NEW i \in Importers, ImportReturns(i)
  PROVE  /\ ipc' \in [Importers -> {"idle", "verify", "apply"}]
         /\ idomain' \in [Importers -> Domains]
         /\ ipackage' \in [Importers -> Packages]
         /\ \A j \in Importers : ipc'[j] = "apply" => ipc[j] = "apply" /\ ipackage'[j] = ipackage[j]
<1>1. NoDomain \in Domains /\ NoPackage \in Packages
  BY TrustAssumption DEF NoDomain, NoPackage, TrustAssumption
<1> QED BY <1>1 DEF ImportReturns, TypeOK

LEMMA SyncReturnsTyped ==
  ASSUME TypeOK, NEW s \in Syncers, SyncReturns(s)
  PROVE  /\ sync_in_progress' \in BOOLEAN
         /\ spc' \in [Syncers -> {"idle", "read", "write"}]
         /\ sread' \in [Syncers -> SyncState]
<1>1. NoSyncState \in SyncState  BY DEF NoSyncState, SyncState
<1> QED BY <1>1 DEF SyncReturns, TypeOK

LEMMA NextTypeOK == TypeOK /\ [Next]_vars => TypeOK'
<1> SUFFICES ASSUME TypeOK, [Next]_vars PROVE TypeOK'  OBVIOUS
<1> USE DEF TypeOK
<1>0. /\ Packages \subseteq Package /\ Configs \subseteq SyncConfig
      /\ MaxTime \in Nat /\ MaxCrashes \in Nat /\ Sequenced \subseteq Packages
  BY TrustAssumption DEF TrustAssumption, Sequenced
<1>1. ASSUME NEW i \in Importers, ImportStart(i) PROVE TypeOK'
  <2>1. config.domain \in Domains  BY <1>0 DEF SyncConfig
  <2> QED BY <1>1, <2>1 DEF ImportStart, storageVars, syncerVars
<1>2. ASSUME NEW i \in Importers, NEW p \in Packages, VerifyPackage(i, p) PROVE TypeOK'
  <2>1. p \in Sequenced  BY <1>2 DEF VerifyPackage, ValidMetadata, Sequenced
  <2> QED BY <1>2, <2>1 DEF VerifyPackage, storageVars, syncerVars
<1>3. ASSUME NEW i \in Importers, ApplyPackage(i) PROVE TypeOK'
  <2> DEFINE p == ipackage[i]
  <2>1. p \in Sequenced /\ p \in Package  BY <1>0, <1>3 DEF ApplyPackage
  <2>2. ledger' \in [Domains -> Seq(Sequenced)]
    <3>1. p.domain \in Domains  BY <2>1 DEF Package
    <3>2. Append(ledger[p.domain], p) \in Seq(Sequenced)  BY <2>1, <3>1
    <3> QED BY <1>3, <3>2 DEF ApplyPackage
  <2>3. syncState' \in SyncState
    <3>1. p.created \in Nat /\ p.sequence \in Nat  BY <2>1 DEF Package
    <3>2. syncState.error \in BOOLEAN  BY DEF SyncState
    <3>3. PICK err \in {FALSE, syncState.error} :
            syncState' = [clock |-> p.created, version |-> p.sequence, error |-> err]
      BY <1>3 DEF ApplyPackage
    <3> QED BY <3>1, <3>2, <3>3 DEF SyncState
  <2>4. ImportReturns(i)  BY <1>3 DEF ApplyPackage
  <2> QED BY <1>3, <2>2, <2>3, <2>4, ImportReturnsTyped DEF ApplyPackage, syncerVars
<1>4. ASSUME NEW i \in Importers, ImportFails(i) PROVE TypeOK'
  BY <1>4, ImportReturnsTyped DEF ImportFails, storageVars, syncerVars
<1>5. ASSUME NEW s \in Syncers, SyncStart(s) PROVE TypeOK'
  BY <1>5 DEF SyncStart, storageVars, importerVars
<1>6. ASSUME NEW s \in Syncers, SyncRead(s) PROVE TypeOK'
  BY <1>6 DEF SyncRead, storageVars, importerVars
<1>7. ASSUME NEW s \in Syncers, SyncWrite(s) PROVE TypeOK'
  <2>1. sread[s] \in SyncState  OBVIOUS
  <2>2. syncState' \in SyncState  BY <1>7, <2>1 DEF SyncWrite, SyncSucceeds, SyncState
  <2> QED BY <1>7, <2>2, SyncReturnsTyped DEF SyncWrite, importerVars
<1>8. ASSUME NEW s \in Syncers, SyncFails(s) PROVE TypeOK'
  BY <1>8, SyncReturnsTyped DEF SyncFails, storageVars, importerVars
<1>9. ASSUME NEW c \in Configs, SetConfig(c) PROVE TypeOK'
  BY <1>9 DEF SetConfig, storageVars, importerVars, syncerVars
<1>10. ASSUME NEW k \in Installable, InstallKeys(k) PROVE TypeOK'
  BY <1>10 DEF InstallKeys, storageVars, importerVars, syncerVars
<1>11. CASE Tick
  BY <1>0, <1>11 DEF Tick, Time, storageVars, importerVars, syncerVars
<1>12. CASE Crash
  <2>1. NoDomain \in Domains /\ NoPackage \in Packages
    BY TrustAssumption DEF NoDomain, NoPackage, TrustAssumption
  <2>2. NoSyncState \in SyncState  BY DEF NoSyncState, SyncState
  <2>3. /\ ipc' \in [Importers -> {"idle", "verify", "apply"}]
        /\ idomain' \in [Importers -> Domains]
        /\ ipackage' \in [Importers -> Packages]
        /\ \A i \in Importers : ipc'[i] # "apply"
    BY <1>12, <2>1 DEF Crash
  <2>4. /\ spc' \in [Syncers -> {"idle", "read", "write"}]
        /\ sread' \in [Syncers -> SyncState]
        /\ sync_in_progress' \in BOOLEAN
    BY <1>12, <2>2 DEF Crash
  <2>5. crashes' \in 0 .. MaxCrashes  BY <1>0, <1>12 DEF Crash
  <2> QED BY <1>12, <2>3, <2>4, <2>5 DEF Crash, storageVars
<1>13. CASE UNCHANGED vars
  BY <1>13 DEF vars, storageVars, importerVars, syncerVars
<1> QED
  BY <1>1, <1>2, <1>3, <1>4, <1>5, <1>6, <1>7, <1>8, <1>9, <1>10, <1>11, <1>12, <1>13
  DEF Next, Import, Sync

(* Every reachable state is well typed: no package of sequence 0 is ever   *)
(* verified or committed.                                                  *)
THEOREM TypeCorrect == Spec => []TypeOK
BY InitTypeOK, NextTypeOK, PTL DEF Spec

-------------------------------------------------------------------------------
(* How the ledgers can change: one package is appended, the one an import  *)
(* verified, and it succeeds the active package of its domain.             *)
LEMMA LedgerStep ==
  ASSUME TypeOK, [Next]_vars
  PROVE  \/ UNCHANGED ledger
         \/ \E i \in Importers : ApplyPackage(i)
BY DEF Next, Import, Sync, ImportStart, VerifyPackage, ImportFails, SyncStart, SyncRead,
       SyncWrite, SyncSucceeds, SyncFails, SetConfig, InstallKeys, Tick, Crash, storageVars, vars

LEMMA Appended ==
  ASSUME TypeOK, NEW i \in Importers, ApplyPackage(i)
  PROVE  LET p == ipackage[i]
             d == p.domain
         IN  /\ p \in Sequenced /\ p \in Package /\ d \in Domains
             /\ ledger' \in [Domains -> Seq(Sequenced)]
             /\ Len(ledger'[d]) = Len(ledger[d]) + 1
             /\ ledger'[d][Len(ledger[d]) + 1] = p
             /\ \A n \in 1 .. Len(ledger[d]) : ledger'[d][n] = ledger[d][n]
             /\ \A e \in Domains : e # d => ledger'[e] = ledger[e]
<1> DEFINE p == ipackage[i]
<1>1. p \in Sequenced /\ p \in Package /\ p.domain \in Domains
  BY TrustAssumption DEF TypeOK, ApplyPackage, Sequenced, TrustAssumption, Package
<1>2. ledger[p.domain] \in Seq(Sequenced)  BY <1>1 DEF TypeOK
<1>3. ledger' = [ledger EXCEPT ![p.domain] = Append(@, p)]  BY DEF ApplyPackage
<1>4. ledger'[p.domain] = Append(ledger[p.domain], p)  BY <1>1, <1>3 DEF TypeOK
<1>5. Append(ledger[p.domain], p) \in Seq(Sequenced)  BY <1>1, <1>2
<1>6. ledger' \in [Domains -> Seq(Sequenced)]  BY <1>3, <1>5 DEF TypeOK
<1> QED BY <1>1, <1>2, <1>3, <1>4, <1>6 DEF TypeOK

(* What has been committed stays committed.                                *)
LEMMA CommittedGrows ==
  ASSUME TypeOK, [Next]_vars
  PROVE  Committed \subseteq Committed'
<1>1. CASE UNCHANGED ledger  BY <1>1 DEF Committed
<1>2. ASSUME NEW i \in Importers, ApplyPackage(i) PROVE Committed \subseteq Committed'
  <2> SUFFICES ASSUME NEW q \in Packages, NEW d \in Domains, NEW n \in DOMAIN ledger[d],
                      ledger[d][n] = q
               PROVE  n \in DOMAIN ledger'[d] /\ ledger'[d][n] = q
    BY DEF Committed
  <2>1. ledger[d] \in Seq(Sequenced) /\ n \in 1 .. Len(ledger[d])  BY DEF TypeOK
  <2>2. ledger'[d] \in Seq(Sequenced)  BY <1>2, Appended
  <2>3. CASE d = ipackage[i].domain  BY <1>2, <2>1, <2>2, <2>3, Appended
  <2>4. CASE d # ipackage[i].domain  BY <1>2, <2>1, <2>4, Appended
  <2> QED BY <2>3, <2>4
<1> QED BY <1>1, <1>2, LedgerStep

(* The package an import applies is committed after it.                    *)
LEMMA AppliedIsCommitted ==
  ASSUME TypeOK, NEW i \in Importers, ApplyPackage(i)
  PROVE  ipackage[i] \in Committed'
<1> DEFINE p == ipackage[i]
<1>1. ledger[p.domain] \in Seq(Sequenced) /\ ledger'[p.domain] \in Seq(Sequenced)
  BY Appended DEF TypeOK
<1>2. Len(ledger[p.domain]) + 1 \in DOMAIN ledger'[p.domain]  BY <1>1, Appended
<1>3. p \in Packages  BY DEF TypeOK
<1> QED BY <1>2, <1>3, Appended DEF Committed

(* A state that signed packages account for stays so.                      *)
LEMMA AccountedStays ==
  ASSUME TypeOK, [Next]_vars, NEW st \in SyncState, Accounted(st)
  PROVE  /\ st.clock # Never => \E p \in Committed' : st.clock = p.created
         /\ st.clock <= now' + Skew
<1>1. now \in Nat /\ Skew \in Nat /\ (now' = now \/ now' = now + 1)
  BY TrustAssumption
  DEF TypeOK, Time, Next, Import, Sync, ImportStart, VerifyPackage, ApplyPackage, ImportFails,
      SyncStart, SyncRead, SyncWrite, SyncSucceeds, SyncFails, SetConfig, InstallKeys, Tick, Crash, vars,
      TrustAssumption
<1>2. st.clock \in Int  BY DEF SyncState, Never
<1>3. st.clock <= now' + Skew  BY <1>1, <1>2 DEF Accounted
<1> QED BY <1>3, CommittedGrows DEF Accounted

LEMMA InitClock == Init => ClockInv
<1> SUFFICES ASSUME Init PROVE ClockInv  OBVIOUS
<1>1. Accounted(NoSyncState)
  BY TrustAssumption DEF Init, Accounted, NoSyncState, Never, TrustAssumption
<1> QED BY <1>1 DEF Init, ClockInv

LEMMA NextClock == TypeOK /\ ClockInv /\ [Next]_vars => ClockInv'
<1> SUFFICES ASSUME TypeOK, ClockInv, [Next]_vars PROVE ClockInv'  OBVIOUS
<1> DEFINE AccountedNext(st) ==
             /\ st.clock # Never => \E p \in Committed' : st.clock = p.created
             /\ st.clock <= now' + Skew
           Young(i) == ipc[i] = "apply" => ipackage[i].created <= now + Skew
<1>0. TypeOK'  BY NextTypeOK
<1>1. /\ syncState \in SyncState /\ AccountedNext(syncState)
      /\ \A s \in Syncers : sread[s] \in SyncState /\ AccountedNext(sread[s])
  BY AccountedStays DEF TypeOK, ClockInv
<1>2. now \in Nat /\ Skew \in Nat /\ now' \in Nat /\ now <= now'
  BY TrustAssumption
  DEF TypeOK, Time, Next, Import, Sync, ImportStart, VerifyPackage, ApplyPackage, ImportFails,
      SyncStart, SyncRead, SyncWrite, SyncSucceeds, SyncFails, SetConfig, InstallKeys, Tick, Crash, vars,
      TrustAssumption
<1>3. AccountedNext(NoSyncState)
  <2>1. NoSyncState.clock = -1 /\ Never = -1  BY DEF NoSyncState, Never
  <2>2. \A t \in Nat : -1 <= t + Skew  BY <1>2
  <2> QED BY <1>2, <2>1, <2>2
<1>4. \A i \in Importers : ipackage[i].created \in Nat
  BY TrustAssumption DEF TypeOK, TrustAssumption, Package
<1>5. ASSUME NEW i \in Importers, ipc[i] = "apply", ipackage'[i] = ipackage[i]
      PROVE  ipackage'[i].created <= now' + Skew
  BY <1>2, <1>4, <1>5 DEF ClockInv
\* A step that only returns from calls, or leaves imports alone, ages every package.
<1>6. ASSUME \A j \in Importers : ipc'[j] = "apply" => ipc[j] = "apply" /\ ipackage'[j] = ipackage[j],
             AccountedNext(syncState'), \A s \in Syncers : AccountedNext(sread'[s])
      PROVE  ClockInv'
  <2>1. \A i \in Importers : ipc'[i] = "apply" => ipackage'[i].created <= now' + Skew
    BY <1>5, <1>6
  <2> QED BY <1>6, <2>1 DEF ClockInv, Accounted
<1>7. ASSUME NEW i \in Importers, Import(i) PROVE ClockInv'
  <2>1. CASE ImportStart(i)
    BY <1>1, <1>6, <2>1 DEF ImportStart, storageVars, syncerVars, TypeOK
  <2>2. ASSUME NEW p \in Packages, VerifyPackage(i, p) PROVE ClockInv'
    <3>1. p.created <= now + Skew /\ now' = now  BY <2>2 DEF VerifyPackage, ValidTimes
    <3>2. \A j \in Importers : ipc'[j] = "apply" =>
            ipackage'[j] = p \/ (ipc[j] = "apply" /\ ipackage'[j] = ipackage[j])
      BY <2>2 DEF VerifyPackage, TypeOK
    <3>3. \A j \in Importers : ipc'[j] = "apply" => ipackage'[j].created <= now' + Skew
      BY <1>5, <3>1, <3>2
    <3>4. syncState' = syncState /\ sread' = sread
      BY <2>2 DEF VerifyPackage, storageVars, syncerVars
    <3> QED BY <1>1, <3>3, <3>4 DEF ClockInv, Accounted
  <2>3. CASE ApplyPackage(i)
    <3>1. ImportReturns(i) /\ sread' = sread /\ now' = now
      BY <2>3 DEF ApplyPackage, syncerVars
    <3>2. syncState'.clock = ipackage[i].created  BY <2>3 DEF ApplyPackage
    <3>3. ipackage[i].created <= now + Skew  BY <2>3 DEF ApplyPackage, ClockInv
    <3>4. AccountedNext(syncState')  BY <2>3, <3>1, <3>2, <3>3, AppliedIsCommitted
    <3>5. \A j \in Importers : ipc'[j] = "apply" => ipc[j] = "apply" /\ ipackage'[j] = ipackage[j]
      BY <3>1, ImportReturnsTyped
    <3> QED BY <1>1, <1>6, <3>1, <3>4, <3>5
  <2>4. CASE ImportFails(i)
    BY <1>1, <1>6, <2>4, ImportReturnsTyped DEF ImportFails, storageVars, syncerVars
  <2> QED BY <1>7, <2>1, <2>2, <2>3, <2>4 DEF Import
<1>8. ASSUME NEW s \in Syncers, Sync(s) PROVE ClockInv'
  <2>0. ipc' = ipc /\ ipackage' = ipackage
    BY <1>8 DEF Sync, SyncStart, SyncRead, SyncWrite, SyncFails, importerVars
  <2>1. CASE SyncStart(s)  BY <1>1, <1>6, <2>0, <2>1 DEF SyncStart, storageVars
  <2>2. CASE SyncRead(s)
    <3>1. \A t \in Syncers : sread'[t] = sread[t] \/ sread'[t] = syncState
      BY <2>2 DEF SyncRead, TypeOK
    <3> QED BY <1>1, <1>6, <2>0, <2>2, <3>1 DEF SyncRead, storageVars
  <2>3. ASSUME SyncReturns(s), AccountedNext(syncState') PROVE ClockInv'
    <3>1. \A t \in Syncers : sread'[t] = sread[t] \/ sread'[t] = NoSyncState
      BY <2>3 DEF SyncReturns, TypeOK
    <3> QED BY <1>1, <1>3, <1>6, <2>0, <2>3, <3>1
  <2>4. CASE SyncWrite(s)
    <3>1. syncState'.clock = sread[s].clock  BY <2>4 DEF SyncWrite, SyncSucceeds, TypeOK, SyncState
    <3> QED BY <1>1, <2>3, <2>4, <3>1 DEF SyncWrite
  <2>5. CASE SyncFails(s)  BY <1>1, <2>3, <2>5 DEF SyncFails, storageVars
  <2> QED BY <1>8, <2>1, <2>2, <2>4, <2>5 DEF Sync
<1>9. CASE Crash
  <2>1. \A i \in Importers : ipc'[i] # "apply"  BY <1>9 DEF Crash
  <2>2. \A s \in Syncers : sread'[s] = NoSyncState  BY <1>9 DEF Crash
  <2> QED BY <1>1, <1>3, <1>6, <1>9, <2>1, <2>2 DEF Crash, storageVars
<1>10. ASSUME UNCHANGED <<ipc, ipackage, syncState, sread>> PROVE ClockInv'
  BY <1>1, <1>6, <1>10
<1> QED
  BY <1>7, <1>8, <1>9, <1>10
  DEF Next, SetConfig, InstallKeys, Tick, vars, storageVars, importerVars, syncerVars

(* The gate of passport and DTC verification opens only while a committed  *)
(* package is young enough: neither a sync nor its late write of an older  *)
(* state ever shows a time no signed package was created at.               *)
THEOREM GateIsSound == Spec => []GateNeedsSignedPackage
<1>1. ClockInv => GateNeedsSignedPackage
  BY DEF ClockInv, Accounted, GateNeedsSignedPackage, Fresh
<1> QED BY <1>1, InitTypeOK, NextTypeOK, InitClock, NextClock, PTL DEF Spec

(* The clock never runs further ahead of the wall clock than an import may *)
(* be dated, even when it is applied or written back long after the check. *)
THEOREM ClockLeadBounded == Spec => []ClockWithinSkew
<1>1. ClockInv => ClockWithinSkew  BY DEF ClockInv, Accounted, ClockWithinSkew
<1> QED BY <1>1, InitTypeOK, NextTypeOK, InitClock, NextClock, PTL DEF Spec

-------------------------------------------------------------------------------
LEMMA InitLedger == Init => LedgerInv
BY DEF Init, LedgerInv, SequencesIncrease, SignerChain, RecoveryPinned

LEMMA NextLedger == TypeOK /\ LedgerInv /\ [Next]_vars => LedgerInv'
<1> SUFFICES ASSUME TypeOK, LedgerInv, [Next]_vars PROVE LedgerInv'  OBVIOUS
<1>1. CASE UNCHANGED ledger
  BY <1>1 DEF LedgerInv, SequencesIncrease, SignerChain, RecoveryPinned
<1>2. ASSUME NEW i \in Importers, ApplyPackage(i) PROVE LedgerInv'
  <2> DEFINE p == ipackage[i]
             d == p.domain
             l == ledger[d]
             L == Len(l)
             k == p.signer
  <2>1. /\ p \in Package /\ d \in Domains
        /\ ledger' \in [Domains -> Seq(Sequenced)]
        /\ Len(ledger'[d]) = L + 1
        /\ ledger'[d][L + 1] = p
        /\ \A n \in 1 .. L : ledger'[d][n] = l[n]
        /\ \A e \in Domains : e # d => ledger'[e] = ledger[e]
    BY <1>2, Appended
  <2>2. l \in Seq(Sequenced) /\ L \in Nat /\ DOMAIN l = 1 .. L
        /\ ledger'[d] \in Seq(Sequenced) /\ DOMAIN ledger'[d] = 1 .. L + 1
    BY <2>1 DEF TypeOK
  <2>3. L > 0 => HigherSequence(l[L], p) /\ Authorized(l[L], p)
    BY <1>2, <2>2 DEF ApplyPackage, Accepts
  <2>4. \A n \in 1 .. L : l[n].sequence \in Nat
    <3>1. Sequenced \subseteq Package  BY TrustAssumption DEF Sequenced, TrustAssumption
    <3>2. \A q \in Package : q.sequence \in Nat  BY DEF Package
    <3>3. \A n \in 1 .. L : l[n] \in Sequenced  BY <2>2
    <3> QED BY <3>1, <3>2, <3>3
  <2>5. p.sequence \in Nat  BY <2>1 DEF Package
  <2> HIDE DEF p, d, l, L, k
  <2>6. \A m \in 1 .. L : l[m].sequence < p.sequence
    <3> SUFFICES ASSUME NEW m \in 1 .. L PROVE l[m].sequence < p.sequence  OBVIOUS
    <3>1. L \in 1 .. L /\ l[L].sequence < p.sequence  BY <2>2, <2>3 DEF HigherSequence
    <3>2. m = L \/ l[m].sequence < l[L].sequence
      BY <2>1, <2>2 DEF LedgerInv, SequencesIncrease, l
    <3> QED BY <2>4, <2>5, <3>1, <3>2
  <2>7. \A m \in 1 .. L : l[m].recovery = p.recovery
    <3> SUFFICES ASSUME NEW m \in 1 .. L PROVE l[m].recovery = p.recovery  OBVIOUS
    <3>1. L \in 1 .. L /\ l[L].recovery = p.recovery  BY <2>2, <2>3 DEF Authorized
    <3>2. l[m].recovery = l[L].recovery
      BY <2>1, <2>2, <3>1 DEF LedgerInv, RecoveryPinned, l
    <3> QED BY <3>1, <3>2
  <2>8. SequencesIncrease'
    <3> SUFFICES ASSUME NEW e \in Domains, NEW n \in DOMAIN ledger'[e], NEW m \in 1 .. n - 1
                 PROVE  ledger'[e][m].sequence < ledger'[e][n].sequence
      BY DEF SequencesIncrease
    <3>1. CASE e # d
      BY <2>1, <3>1 DEF LedgerInv, SequencesIncrease
    <3>2. CASE e = d /\ n = L + 1  BY <2>1, <2>2, <2>6, <3>2
    <3>3. CASE e = d /\ n # L + 1
      <4>1. n \in 1 .. L /\ m \in 1 .. L  BY <2>2, <3>3
      <4>2. l[m].sequence < l[n].sequence
        BY <2>1, <2>2, <4>1 DEF LedgerInv, SequencesIncrease, l
      <4> QED BY <2>1, <3>3, <4>1, <4>2
    <3> QED BY <3>1, <3>2, <3>3
  <2>9. RecoveryPinned'
    <3> SUFFICES ASSUME NEW e \in Domains, NEW m \in DOMAIN ledger'[e], NEW n \in DOMAIN ledger'[e]
                 PROVE  ledger'[e][m].recovery = ledger'[e][n].recovery
      BY DEF RecoveryPinned
    <3>1. CASE e # d  BY <2>1, <3>1 DEF LedgerInv, RecoveryPinned
    <3>2. CASE e = d
      <4>1. \A j \in 1 .. L + 1 : j \in 1 .. L \/ j = L + 1  BY <2>2
      <4>2. \A j \in 1 .. L + 1 : ledger'[d][j].recovery = p.recovery
        BY <2>1, <2>7, <4>1
      <4> QED BY <2>2, <3>2, <4>2
    <3> QED BY <3>1, <3>2
  <2>10. SignerChain'
    <3> SUFFICES ASSUME NEW e \in Domains, NEW n \in DOMAIN ledger'[e], NEW m \in 1 .. n - 1,
                        ledger'[e][m].signer # ledger'[e][n].signer,
                        ledger'[e][n].signer # ledger'[e][m].recovery
                 PROVE  \E a \in m .. n - 1 : /\ ledger'[e][a].next = ledger'[e][n].signer
                                              /\ ledger'[e][a + 1].signer = ledger'[e][n].signer
      BY DEF SignerChain
    <3>1. CASE e # d
      <4>1. ledger'[e] = ledger[e]  BY <2>1, <3>1
      <4>2. /\ n \in DOMAIN ledger[e]
            /\ ledger[e][m].signer # ledger[e][n].signer
            /\ ledger[e][n].signer # ledger[e][m].recovery
        BY <4>1
      <4>3. PICK a \in m .. n - 1 : /\ ledger[e][a].next = ledger[e][n].signer
                                    /\ ledger[e][a + 1].signer = ledger[e][n].signer
        BY <4>2 DEF LedgerInv, SignerChain
      <4>4. /\ ledger'[e][a].next = ledger'[e][n].signer
            /\ ledger'[e][a + 1].signer = ledger'[e][n].signer
        BY <4>1, <4>3
      <4> QED BY <4>3, <4>4
    <3>2. CASE e = d /\ n # L + 1
      <4>1. n \in 1 .. L /\ m \in 1 .. L  BY <2>2, <3>2
      <4>0. /\ n \in DOMAIN ledger[d] /\ ledger[d] = l
            /\ l[m].signer # l[n].signer /\ l[n].signer # l[m].recovery
        <5>1. ledger'[d][m] = l[m] /\ ledger'[d][n] = l[n]  BY <2>1, <4>1
        <5> QED BY <2>2, <3>2, <4>1, <5>1 DEF l
      <4>2. PICK a \in m .. n - 1 : l[a].next = l[n].signer /\ l[a + 1].signer = l[n].signer
        BY <2>1, <4>0 DEF LedgerInv, SignerChain
      <4>3. a \in 1 .. L /\ a + 1 \in 1 .. L  BY <2>2, <4>1
      <4>4. ledger'[d][a] = l[a] /\ ledger'[d][a + 1] = l[a + 1] /\ ledger'[d][n] = l[n]
        BY <2>1, <4>1, <4>3
      <4> QED BY <3>2, <4>2, <4>4
    <3>3. CASE e = d /\ n = L + 1
      <4>1. m \in 1 .. L /\ L \in 1 .. L  BY <2>2, <3>3
      <4>2. ledger'[d][m] = l[m] /\ ledger'[d][n] = p  BY <2>1, <3>3, <4>1
      <4>3. l[m].signer # k /\ k # p.recovery  BY <2>7, <3>3, <4>1, <4>2 DEF k
      <4>4. k = l[L].signer \/ k = l[L].next
        BY <2>3, <4>1, <4>3 DEF Authorized, k
      <4>5. CASE k = l[L].next
        <5>1. L \in m .. n - 1 /\ L + 1 = n  BY <2>2, <3>3, <4>1
        <5>2. ledger'[d][L].next = k  BY <2>1, <4>1, <4>5
        <5>3. ledger'[d][L + 1].signer = k  BY <2>1 DEF k
        <5>4. ledger'[e][n].signer = k  BY <3>3, <4>2 DEF k
        <5> QED BY <3>3, <5>1, <5>2, <5>3, <5>4
      <4>6. CASE k = l[L].signer
        <5>1. m \in 1 .. L - 1  BY <2>2, <4>1, <4>3, <4>6
        <5>2. k # l[m].recovery  BY <2>7, <4>1, <4>3
        <5>3. PICK a \in m .. L - 1 : l[a].next = k /\ l[a + 1].signer = k
          BY <2>1, <2>2, <4>1, <4>3, <4>6, <5>1, <5>2 DEF LedgerInv, SignerChain, l
        <5>4. a \in 1 .. L /\ a + 1 \in 1 .. L /\ a \in m .. n - 1  BY <2>2, <3>3, <4>1
        <5>5. ledger'[d][a].next = k /\ ledger'[d][a + 1].signer = k  BY <2>1, <5>3, <5>4
        <5>6. ledger'[e][n].signer = k  BY <3>3, <4>2 DEF k
        <5> QED BY <3>3, <5>4, <5>5, <5>6
      <4> QED BY <4>4, <4>5, <4>6
    <3> QED BY <3>1, <3>2, <3>3
  <2> QED BY <2>8, <2>9, <2>10 DEF LedgerInv
<1> QED BY <1>1, <1>2, LedgerStep

(* No interleaving of imports lets a package replace one of the same or a  *)
(* higher sequence of its domain.                                          *)
THEOREM NoRollback == Spec => []SequencesIncrease
<1>1. LedgerInv => SequencesIncrease  BY DEF LedgerInv
<1> QED BY <1>1, InitTypeOK, NextTypeOK, InitLedger, NextLedger, PTL DEF Spec

(* Whatever keys the operator installs and in whatever order packages are  *)
(* imported, a key signs for a domain after another one did only if it is  *)
(* the pinned recovery key or the package just before named it.            *)
THEOREM SignersAreChained == Spec => []SignerChain
<1>1. LedgerInv => SignerChain  BY DEF LedgerInv
<1> QED BY <1>1, InitTypeOK, NextTypeOK, InitLedger, NextLedger, PTL DEF Spec

-------------------------------------------------------------------------------
LEMMA NextLease == TypeOK /\ LeaseMatchesSync /\ [Next]_vars => LeaseMatchesSync'
<1> SUFFICES ASSUME TypeOK, LeaseMatchesSync, [Next]_vars PROVE LeaseMatchesSync'  OBVIOUS
<1>1. CASE UNCHANGED syncerVars  BY <1>1 DEF syncerVars, LeaseMatchesSync
<1>2. ASSUME NEW s \in Syncers, Sync(s) PROVE LeaseMatchesSync'
  <2>1. CASE SyncStart(s)  BY <2>1 DEF SyncStart, LeaseMatchesSync, TypeOK
  <2>2. CASE SyncRead(s)  BY <2>2 DEF SyncRead, LeaseMatchesSync, TypeOK
  <2>3. ASSUME SyncReturns(s), spc[s] # "idle" PROVE LeaseMatchesSync'
    <3>1. \A t \in Syncers : spc'[t] = "idle"
      BY <2>3 DEF SyncReturns, LeaseMatchesSync, TypeOK
    <3> QED BY <2>3, <3>1 DEF SyncReturns, LeaseMatchesSync
  <2> QED BY <1>2, <2>1, <2>2, <2>3 DEF Sync, SyncWrite, SyncFails
<1>3. CASE Crash  BY <1>3 DEF Crash, LeaseMatchesSync
<1> QED
  BY <1>1, <1>2, <1>3
  DEF Next, Import, ImportStart, VerifyPackage, ApplyPackage, ImportFails, SetConfig,
      InstallKeys, Tick, vars

(* The lease flag is up exactly while one sync runs, through failures,     *)
(* cancellations and crashes, for any number of concurrent calls.          *)
THEOREM LeaseIsExclusive == Spec => []LeaseMatchesSync
<1>1. Init => LeaseMatchesSync  BY DEF Init, LeaseMatchesSync
<1> QED BY <1>1, InitTypeOK, NextTypeOK, NextLease, PTL DEF Spec

-------------------------------------------------------------------------------
(* The one way the clock loses the active package: an import that is       *)
(* applied after a sync has read the durable state and before it writes    *)
(* that state back.                                                        *)
AppliesApart == ledger' # ledger => \A s \in Syncers : spc[s] # "write"

ApartSpec == Init /\ [][Next /\ AppliesApart]_vars

ClockIsActive(clock) ==
  Committed # {} => \E d \in Domains : ledger[d] # <<>> /\ clock = Active(d).created

ApartInv ==
  /\ ClockIsActive(syncState.clock)
  /\ \A s \in Syncers : spc[s] = "write" => sread[s].clock = syncState.clock

LEMMA NextApart ==
  ASSUME TypeOK, ApartInv, Next, AppliesApart
  PROVE  ApartInv'
<1>1. ASSUME NEW i \in Importers, ApplyPackage(i) PROVE ApartInv'
  <2>0. PICK p, d : p = ipackage[i] /\ d = p.domain  OBVIOUS
  <2>1. /\ d \in Domains /\ ledger' \in [Domains -> Seq(Sequenced)]
        /\ Len(ledger'[d]) = Len(ledger[d]) + 1 /\ ledger'[d][Len(ledger[d]) + 1] = p
    BY <1>1, <2>0, Appended
  <2>2. ledger[d] \in Seq(Sequenced) /\ ledger'[d] \in Seq(Sequenced)  BY <2>1 DEF TypeOK
  <2>3. ledger'[d] # <<>> /\ Active(d)' = p /\ ledger' # ledger
    BY <2>1, <2>2 DEF Active
  <2>4. syncState'.clock = p.created /\ spc' = spc  BY <1>1, <2>0 DEF ApplyPackage, syncerVars
  <2>5. ClockIsActive(syncState.clock)'  BY <2>1, <2>3, <2>4 DEF ClockIsActive
  <2> QED BY <2>3, <2>4, <2>5 DEF ApartInv, AppliesApart
<1>2. ASSUME UNCHANGED <<ledger, syncState>>,
             \A s \in Syncers : spc'[s] = "write" =>
               sread'[s] = syncState \/ (spc[s] = "write" /\ sread'[s] = sread[s])
      PROVE  ApartInv'
  <2>1. ClockIsActive(syncState.clock)'
    BY <1>2 DEF ApartInv, ClockIsActive, Committed, Active
  <2> QED BY <1>2, <2>1 DEF ApartInv
<1>3. ASSUME NEW s \in Syncers, SyncStart(s) \/ SyncRead(s) PROVE ApartInv'
  <2>1. \A t \in Syncers : spc'[t] = "write" =>
          sread'[t] = syncState \/ (spc[t] = "write" /\ sread'[t] = sread[t])
    BY <1>3 DEF SyncStart, SyncRead, TypeOK
  <2> QED BY <1>2, <1>3, <2>1 DEF SyncStart, SyncRead, storageVars
<1>4. ASSUME NEW s \in Syncers, SyncReturns(s)
      PROVE  \A t \in Syncers : spc'[t] = "write" => spc[t] = "write" /\ sread'[t] = sread[t]
  BY <1>4 DEF SyncReturns, TypeOK
<1>5. ASSUME NEW s \in Syncers, SyncWrite(s) PROVE ApartInv'
  <2>1. ledger' = ledger /\ SyncReturns(s)  BY <1>5 DEF SyncWrite
  <2>2. syncState'.clock = syncState.clock
    BY <1>5 DEF SyncWrite, SyncSucceeds, TypeOK, SyncState, ApartInv
  <2>3. ClockIsActive(syncState.clock)'
    BY <2>1, <2>2 DEF ApartInv, ClockIsActive, Committed, Active
  <2> QED BY <1>4, <2>1, <2>2, <2>3 DEF ApartInv
<1>6. ASSUME NEW s \in Syncers, SyncFails(s) PROVE ApartInv'
  BY <1>2, <1>4, <1>6 DEF SyncFails, storageVars
<1>7. CASE Crash
  <2>1. \A s \in Syncers : spc'[s] # "write"  BY <1>7 DEF Crash
  <2> QED BY <1>2, <1>7, <2>1 DEF Crash, storageVars
<1>8. CASE UNCHANGED <<ledger, syncState, spc, sread>>  BY <1>2, <1>8
<1>9. ASSUME NEW i \in Importers,
             ImportStart(i) \/ (\E p \in Packages : VerifyPackage(i, p)) \/ ImportFails(i)
      PROVE  ApartInv'
  BY <1>8, <1>9 DEF ImportStart, VerifyPackage, ImportFails, storageVars, syncerVars
<1>10. ASSUME (\E c \in Configs : SetConfig(c)) \/ (\E k \in Installable : InstallKeys(k)) \/ Tick
       PROVE  ApartInv'
  BY <1>8, <1>10 DEF SetConfig, InstallKeys, Tick, storageVars, syncerVars
<1> QED BY <1>1, <1>3, <1>5, <1>6, <1>7, <1>9, <1>10 DEF Next, Import, Sync

(* engine.rs loses the freshness of the active package only when an import *)
(* falls between the read and the write of update_sync_state: if none      *)
(* does, the clock is the creation time of an active package throughout,   *)
(* whatever else overlaps, fails or crashes, and while syncs run.          *)
THEOREM ClockFollowsWhenApart ==
  ApartSpec => [](ClockIsActive(syncState.clock) /\ ClockFollowsActivePackage)
<1>1. Init => TypeOK /\ ApartInv
  BY InitTypeOK DEF Init, ApartInv, ClockIsActive, Committed
<1>2. TypeOK /\ ApartInv /\ [Next /\ AppliesApart]_vars => TypeOK' /\ ApartInv'
  <2>1. ASSUME TypeOK, ApartInv, UNCHANGED vars PROVE ApartInv'
    BY <2>1 DEF vars, storageVars, syncerVars, ApartInv, ClockIsActive, Committed, Active
  <2> QED BY <2>1, NextTypeOK, NextApart
<1>3. ApartInv => ClockIsActive(syncState.clock) /\ ClockFollowsActivePackage
  BY DEF ApartInv, ClockIsActive, ClockFollowsActivePackage
<1> QED BY <1>1, <1>2, <1>3, PTL DEF ApartSpec

-------------------------------------------------------------------------------
(* Imports and syncs implement the trust ledger: a step commits one        *)
(* succeeding package with its clock, lets the clock fall back to a time   *)
(* some committed package was created at, or is invisible.                 *)
THEOREM TrustSyncImplementsLedger == Spec => ImplementsTrustLedger
<1>1. Init => Ledger!Init  BY DEF Init, Ledger!Init, NoSyncState
<1>2. TypeOK /\ ClockInv /\ [Next]_vars => [Ledger!Next]_(Ledger!vars)
  <2> SUFFICES ASSUME TypeOK, ClockInv, [Next]_vars PROVE [Ledger!Next]_(Ledger!vars)
    OBVIOUS
  <2>1. ASSUME UNCHANGED <<ledger, syncState>> PROVE UNCHANGED Ledger!vars
    BY <2>1 DEF Ledger!vars
  <2>2. ASSUME NEW i \in Importers, ApplyPackage(i) PROVE Ledger!Next
    <3> DEFINE p == ipackage[i]
    <3>1. p \in Packages  BY DEF TypeOK
    <3>2. Ledger!Succeeds(p, ledger[p.domain])
      BY <2>2 DEF ApplyPackage, Accepts, HigherSequence, Authorized, Ledger!Succeeds
    <3>3. Ledger!Commit(p)  BY <2>2, <3>2 DEF ApplyPackage, Ledger!Commit
    <3> QED BY <3>1, <3>3 DEF Ledger!Next
  <2>3. ASSUME NEW s \in Syncers, SyncWrite(s) PROVE Ledger!Next
    <3>1. sread[s] \in SyncState /\ Accounted(sread[s])  BY DEF TypeOK, ClockInv
    <3>2. ledger' = ledger /\ syncState'.clock = sread[s].clock
      BY <2>3, <3>1 DEF SyncWrite, SyncSucceeds, SyncState
    <3>3. sread[s].clock \in {Never} \cup Ledger!CreationTimes(ledger)
      BY <3>1 DEF Accounted, Committed, Ledger!CreationTimes
    <3> QED BY <3>2, <3>3 DEF Ledger!FallBack, Ledger!Next
  <2> QED
    BY <2>1, <2>2, <2>3
    DEF Next, Import, Sync, ImportStart, VerifyPackage, ImportFails, SyncStart, SyncRead,
        SyncFails, SetConfig, InstallKeys, Tick, Crash, storageVars, vars
<1> QED
  BY <1>1, <1>2, InitTypeOK, NextTypeOK, InitClock, NextClock, PTL
  DEF Spec, ImplementsTrustLedger, Ledger!Spec
===============================================================================
