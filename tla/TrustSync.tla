------------------------------- MODULE TrustSync ------------------------------
(***************************************************************************)
(* Trust anchors of crates/marty-sync: signed packages imported from USB   *)
(* media, the network sync that cannot authenticate anything yet, and the  *)
(* freshness clock that passport and DTC verification go by.  Imports take *)
(* no lock and syncs exclude only one another, so they interleave at every *)
(* await.                                                                  *)
(*                                                                         *)
(* A package stands for the signed file: its signature verifies under the  *)
(* key `signer` and no other.  The storage transaction is external code;   *)
(* it is modelled from the README and from the tests of engine.rs.         *)
(***************************************************************************)
EXTENDS Integers, Sequences, FiniteSets

CONSTANTS
  Domains,      \* trust domains
  Keys, NoKey,  \* Ed25519 key identities, and the null next_signer_key_id
  Packages,     \* the package files that exist
  Configs,      \* the sync configurations an operator may save
  Installable,  \* the pairs of pinned keys an operator may install
  Importers,    \* concurrent import_trust_anchors_usb calls
  Syncers,      \* concurrent sync_trust_anchors calls
  Skew,         \* MAX_PACKAGE_FUTURE_SKEW_SECONDS
  MaxTime,      \* bound: the wall clock stops here
  MaxCrashes    \* bound: crashes of the process

Time == 0 .. MaxTime
Never == -1     \* last_csca_sync and last_iaca_sync are None

Package ==
  [domain : Domains, sequence : Nat, created : Nat, expires : Nat,
   signer : Keys, next : Keys \cup {NoKey}, recovery : Keys]

PinnedKeys == [signing : Keys, recovery : Keys]

SyncConfig == [domain : Domains, max_offline : Nat, enable_usb_import : BOOLEAN]

\* The clock fields (always written together), the package version and the error.
SyncState == [clock : Nat \cup {Never}, version : Nat, error : BOOLEAN]
NoSyncState == [clock |-> Never, version |-> 0, error |-> FALSE]

ASSUME TrustAssumption ==
  /\ Domains # {} /\ Packages # {}
  /\ NoKey \notin Keys
  /\ Packages \subseteq Package
  /\ Configs \subseteq SyncConfig
  /\ Installable \subseteq PinnedKeys
  /\ Skew \in Nat /\ MaxTime \in Nat /\ MaxCrashes \in Nat

VARIABLES
  now,               \* wall clock
  config,            \* SyncEngine.config
  installed,         \* the signing and recovery keys the operator installed
  ledger,            \* per domain: packages committed, the last one active
  syncState,         \* the one row of durable synchronization state
  ipc, idomain, ipackage,   \* per import: next step, domain it read, package
  sync_in_progress,  \* SyncEngine.sync_in_progress
  spc, sread,        \* per sync: next step, state it read
  crashes            \* crashes so far

storageVars  == <<ledger, syncState>>
importerVars == <<ipc, idomain, ipackage>>
syncerVars   == <<sync_in_progress, spc, sread>>
vars == <<now, config, installed, storageVars, importerVars, syncerVars, crashes>>

NoDomain  == CHOOSE d \in Domains : TRUE    \* what an idle import's locals hold
NoPackage == CHOOSE p \in Packages : TRUE

Init ==
  /\ now = 0
  /\ config \in Configs
  /\ installed \in Installable
  /\ ledger = [d \in Domains |-> <<>>]
  /\ syncState = NoSyncState
  /\ ipc = [i \in Importers |-> "idle"]
  /\ idomain = [i \in Importers |-> NoDomain]
  /\ ipackage = [i \in Importers |-> NoPackage]
  /\ sync_in_progress = FALSE
  /\ spc = [s \in Syncers |-> "idle"]
  /\ sread = [s \in Syncers |-> NoSyncState]
  /\ crashes = 0

-------------------------------------------------------------------------------
(* Importing a package.                                                    *)

\* import_from_usb clones the configuration; a disabled import is an error.
ImportStart(i) ==
  /\ ipc[i] = "idle"
  /\ config.enable_usb_import
  /\ ipc' = [ipc EXCEPT ![i] = "verify"]
  /\ idomain' = [idomain EXCEPT ![i] = config.domain]
  /\ UNCHANGED <<now, config, installed, storageVars, ipackage, syncerVars, crashes>>

\* Wrong: the future skew is not checked.
TimesWithoutSkew(p) == p.created < p.expires /\ now <= p.expires

\* validate_package_times
ValidTimes(p) ==
  /\ p.created <= now + Skew
  /\ p.created < p.expires
  /\ now <= p.expires

\* Wrong: sequence 0 passes.
MetadataWithZero(p) ==
  /\ p.signer = installed.signing
  /\ p.recovery = installed.recovery
  /\ p.next \notin {p.signer, p.recovery}

\* validate_package_metadata, and verify_package_signature under the pinned key.
ValidMetadata(p) ==
  /\ p.sequence > 0
  /\ p.signer = installed.signing
  /\ p.recovery = installed.recovery
  /\ p.next \notin {p.signer, p.recovery}

\* The file is read, authenticated and checked against the domain read before.
\* Keys are loaded anew by every import.
VerifyPackage(i, p) ==
  /\ ipc[i] = "verify"
  /\ ValidTimes(p) /\ ValidMetadata(p)
  /\ p.domain = idomain[i]
  /\ ipc' = [ipc EXCEPT ![i] = "apply"]
  /\ ipackage' = [ipackage EXCEPT ![i] = p]
  /\ UNCHANGED <<now, config, installed, storageVars, idomain, syncerVars, crashes>>

ImportReturns(i) ==
  /\ ipc' = [ipc EXCEPT ![i] = "idle"]
  /\ idomain' = [idomain EXCEPT ![i] = NoDomain]
  /\ ipackage' = [ipackage EXCEPT ![i] = NoPackage]

\* Any check that fails, a storage error or a cancelled call: nothing is stored.
ImportFails(i) ==
  /\ ipc[i] # "idle"
  /\ ImportReturns(i)
  /\ UNCHANGED <<now, config, installed, storageVars, syncerVars, crashes>>

\* Wrong: installing a key is enough to sign under it.
AuthorizedByAnyone(p, q) == q.recovery = p.recovery

\* Who may sign the successor of package p: its signer, the next signer it
\* names, or the recovery key, which must name a signer to go on with.
Authorized(p, q) ==
  /\ q.recovery = p.recovery
  /\ \/ q.signer = p.signer
     \/ q.signer = p.next
     \/ q.signer = p.recovery /\ q.next # NoKey

\* Wrong: only a replay of the very same sequence is refused.
HigherSequenceUnchecked(p, q) == q.sequence # p.sequence
HigherSequence(p, q) == q.sequence > p.sequence

\* What the transaction demands of package q over ledger l.
Accepts(l, q) ==
  l # <<>> => HigherSequence(l[Len(l)], q) /\ Authorized(l[Len(l)], q)

\* Wrong: the clock is left to a later update of its own.
ApplyPackageOnly(i) ==
  /\ ipc[i] = "apply"
  /\ Accepts(ledger[ipackage[i].domain], ipackage[i])
  /\ ledger' = [ledger EXCEPT ![ipackage[i].domain] = Append(@, ipackage[i])]
  /\ ImportReturns(i)
  /\ UNCHANGED <<now, config, installed, syncState, syncerVars, crashes>>

\* apply_trust_package_with_signer_policy: the active set of the domain, its
\* signer policy and the clock move together or not at all.
ApplyPackage(i) ==
  /\ ipc[i] = "apply"
  /\ LET p == ipackage[i]
     IN  /\ Accepts(ledger[p.domain], p)
         /\ ledger' = [ledger EXCEPT ![p.domain] = Append(@, p)]
         /\ \E err \in {FALSE, syncState.error} :   \* the tests leave open whether it is cleared
              syncState' = [clock |-> p.created, version |-> p.sequence, error |-> err]
  /\ ImportReturns(i)
  /\ UNCHANGED <<now, config, installed, syncerVars, crashes>>

-------------------------------------------------------------------------------
(* Network synchronization.                                                *)

\* Wrong: force goes past the lease.
SyncStartUnguarded(s) ==
  /\ spc[s] = "idle"
  /\ sync_in_progress' = TRUE
  /\ spc' = [spc EXCEPT ![s] = "read"]
  /\ UNCHANGED <<now, config, installed, storageVars, importerVars, sread, crashes>>

\* The compare-exchange of sync; the lease is held from here on.
SyncStart(s) ==
  /\ spc[s] = "idle"
  /\ ~sync_in_progress
  /\ sync_in_progress' = TRUE
  /\ spc' = [spc EXCEPT ![s] = "read"]
  /\ UNCHANGED <<now, config, installed, storageVars, importerVars, sread, crashes>>

\* Wrong: a network source that is configured counts as a refresh.
SyncSucceedsIfConfigured == TRUE

\* do_sync: no network source can authenticate a package, configured or not.
SyncSucceeds == FALSE

SyncRead(s) ==
  /\ spc[s] = "read"
  /\ spc' = [spc EXCEPT ![s] = "write"]
  /\ sread' = [sread EXCEPT ![s] = syncState]
  /\ UNCHANGED <<now, config, installed, storageVars, importerVars, sync_in_progress, crashes>>

\* The lease is dropped when sync returns, fails or is cancelled.
SyncReturns(s) ==
  /\ spc' = [spc EXCEPT ![s] = "idle"]
  /\ sread' = [sread EXCEPT ![s] = NoSyncState]
  /\ sync_in_progress' = FALSE

\* update_sync_state writes the whole record that was read, with what changed.
SyncWrite(s) ==
  /\ spc[s] = "write"
  /\ syncState' = IF SyncSucceeds THEN [sread[s] EXCEPT !.clock = now, !.error = FALSE]
                                  ELSE [sread[s] EXCEPT !.error = TRUE]
  /\ SyncReturns(s)
  /\ UNCHANGED <<now, config, installed, ledger, importerVars, crashes>>

\* A storage error or a cancelled call.
SyncFails(s) ==
  /\ spc[s] # "idle"
  /\ SyncReturns(s)
  /\ UNCHANGED <<now, config, installed, storageVars, importerVars, crashes>>

-------------------------------------------------------------------------------
(* The operator, the process and time.                                     *)

SetConfig(c) ==
  /\ config # c
  /\ config' = c
  /\ UNCHANGED <<now, installed, storageVars, importerVars, syncerVars, crashes>>

\* Other keys at USB_SIGNING_PUBLIC_KEY_PATH and USB_RECOVERY_PUBLIC_KEY_PATH.
InstallKeys(k) ==
  /\ installed # k
  /\ installed' = k
  /\ UNCHANGED <<now, config, storageVars, importerVars, syncerVars, crashes>>

Tick ==
  /\ now < MaxTime
  /\ now' = now + 1
  /\ UNCHANGED <<config, installed, storageVars, importerVars, syncerVars, crashes>>

Crash ==
  /\ crashes < MaxCrashes
  /\ crashes' = crashes + 1
  /\ ipc' = [i \in Importers |-> "idle"]
  /\ idomain' = [i \in Importers |-> NoDomain]
  /\ ipackage' = [i \in Importers |-> NoPackage]
  /\ sync_in_progress' = FALSE
  /\ spc' = [s \in Syncers |-> "idle"]
  /\ sread' = [s \in Syncers |-> NoSyncState]
  /\ UNCHANGED <<now, config, installed, storageVars>>

Import(i) ==
  \/ ImportStart(i)
  \/ \E p \in Packages : VerifyPackage(i, p)
  \/ ApplyPackage(i)
  \/ ImportFails(i)

Sync(s) == SyncStart(s) \/ SyncRead(s) \/ SyncWrite(s) \/ SyncFails(s)

Next ==
  \/ \E i \in Importers : Import(i)
  \/ \E s \in Syncers : Sync(s)
  \/ \E c \in Configs : SetConfig(c)
  \/ \E k \in Installable : InstallKeys(k)
  \/ Tick
  \/ Crash

Spec == Init /\ [][Next]_vars

-------------------------------------------------------------------------------
Committed == {p \in Packages : \E d \in Domains : \E n \in DOMAIN ledger[d] : ledger[d][n] = p}
Active(d) == ledger[d][Len(ledger[d])]

\* ensure_cache_fresh_at, under a limit of max ticks.
Fresh(max) ==
  /\ syncState.clock # Never
  /\ syncState.clock <= now
  /\ now - syncState.clock <= max

Sequenced == {p \in Packages : p.sequence > 0}

TypeOK ==
  /\ now \in Time
  /\ config \in Configs
  /\ installed \in Installable
  /\ ledger \in [Domains -> Seq(Sequenced)]
  /\ syncState \in SyncState
  /\ ipc \in [Importers -> {"idle", "verify", "apply"}]
  /\ idomain \in [Importers -> Domains]
  /\ ipackage \in [Importers -> Packages]
  /\ \A i \in Importers : ipc[i] = "apply" => ipackage[i] \in Sequenced
  /\ sync_in_progress \in BOOLEAN
  /\ spc \in [Syncers -> {"idle", "read", "write"}]
  /\ sread \in [Syncers -> SyncState]
  /\ crashes \in 0 .. MaxCrashes

(* The gate of passport and DTC verification opens only while a committed, *)
(* signed package is young enough, whatever syncs and imports overlap:     *)
(* "verification remains fail-closed until a signed package has actually   *)
(* advanced the CSCA synchronization timestamp" (engine.rs).               *)
GateNeedsSignedPackage ==
  \A max \in {c.max_offline : c \in Configs} :
    Fresh(max) => \E p \in Committed : p.created <= now /\ now - p.created <= max

(* In each domain a package replaces only packages of lower sequence, also *)
(* when two imports verified their packages before either was applied.     *)
SequencesIncrease ==
  \A d \in Domains : \A n \in DOMAIN ledger[d] : \A m \in 1 .. n - 1 :
    ledger[d][m].sequence < ledger[d][n].sequence

(* A package signed by another key than an earlier package of its domain   *)
(* has that key from the recovery key's pin, or from the package just      *)
(* before the first one the key signed: authorizations are used at once or *)
(* lost, and a retired signer needs a new one.                             *)
SignerChain ==
  \A d \in Domains : \A n \in DOMAIN ledger[d] : \A m \in 1 .. n - 1 :
    LET k == ledger[d][n].signer
    IN  ledger[d][m].signer # k /\ k # ledger[d][m].recovery
          => \E a \in m .. n - 1 : ledger[d][a].next = k /\ ledger[d][a + 1].signer = k

(* sync_in_progress is up exactly while one sync runs: no two overlap, and *)
(* no failure or cancellation leaves it up for ever.                       *)
LeaseMatchesSync ==
  /\ sync_in_progress <=> \E s \in Syncers : spc[s] # "idle"
  /\ \A s, t \in Syncers : spc[s] # "idle" /\ spc[t] # "idle" => s = t

(* The freshness clock is ahead of the wall clock by the allowed skew at   *)
(* most, so a gate that a future-dated package shuts opens in time.        *)
ClockWithinSkew == syncState.clock <= now + Skew

(* With no sync under way the clock is the creation time of a package that *)
(* is active, as the test of engine.rs asserts after an import.            *)
ClockFollowsActivePackage ==
  ~sync_in_progress /\ Committed # {} =>
    \E d \in Domains : ledger[d] # <<>> /\ syncState.clock = Active(d).created

(* Imports and syncs implement the trust ledger.                           *)
Ledger == INSTANCE TrustLedger WITH clock <- syncState.clock
ImplementsTrustLedger == Ledger!Spec
===============================================================================
