# Verification of marty-verifier in TLA+

marty-verifier is a credential verification kiosk: a Rust runtime (Tauri) with
a React web view, built for checkpoints that work offline. This directory
models the parts of it whose correctness depends on order, concurrency,
failure and time, checks the models with TLC on small instances, and proves
their main properties for all instances with TLAPS.

## 1. Inventory

| component | state | operations | interacts with |
|---|---|---|---|
| audit reporter, `crates/marty-reporting` (`reporter.rs`, `durable_ack.rs`) | its configuration; the durable event queue in encrypted storage | `queue_event`, `flush`, `set_config`, `get_status` | `verify_credential` queues, `set_network_status` flushes, `update_config` configures; a remote endpoint |
| trust synchronization, `crates/marty-sync` (`engine.rs`) | its configuration, the `sync_in_progress` lease; stored sync state and trust packages | `sync`, `import_from_usb`, `set_config`, `ensure_csca_cache_fresh`, `get_status` | passport and DTC verification go by its freshness gate; USB media; operator-installed keys |
| USB trust packages, `crates/marty-sync` (`usb.rs`, `signing_key.rs`) | what one import has read so far | `import_from_usb`: read, parse, load keys, verify, derive records | the medium; two key files; the engine stores what it returns |
| governed trust storage, `marty-secure-storage` (an external crate) | active trust package per domain, signer policy, sync state, event queue | the package transaction, `update_sync_state`, queue operations | both of the above |
| network mode: `ui/src/store/app-store.ts`, `commands/sync.rs` | host and operator mode, the promise chain, busy and error flags; native `is_online` | host events, two buttons, refresh, `set_network_status` | starts every flush of the reporter |
| verification pipeline, `commands/verification/*` | liveness challenges, stored events | `verify_credential`, challenge issue and use | all of the above |
| Open Badge verification, `commands/verification/open_badges.rs` | what one call has read so far | `verify_open_badge_payload` | the records of the trust packages, the configuration, the verification library |
| runtime profile, `runtime_config.rs`, `state.rs`, `commands/profile_sync.rs` | profile, lane, active policy, device id; their rows in application storage | sync, apply, restore, snapshot; `download_and_install_update` asks it | application storage, start-up, verification policy, the backend |
| configuration, `config.rs`, `commands/config.rs` | one configuration in a file, in the reporter, in the sync engine and in shared state | `update_config` | the settings page |
| flow store, `ui/src/store/flow-store.ts` | flows, executions and the approval queue as last loaded, loading and error flags | load, create, approve, reject | the remote flow API |
| the rest | hardware tier, self check, entitlements, fixtures | start-up and one-shot commands | |

What is hard in it:

* **Concurrency.** Tauri runs each command as a task of its own. `queue_event`,
  `flush`, `import_from_usb` and `sync` await storage and network without
  holding a lock, so any two of them interleave at every `await`. Only
  `sync` excludes itself, by a lease. The runtime profile is one
  reader-writer lock, and a reader that takes it twice can meet a writer.
* **Failure.** The device may lose power at any moment; storage is durable,
  everything else is gone. Endpoints lose answers, answer late, refuse, or
  answer with receipts that do not match.
* **Order.** Trust packages carry sequences and a chain of signers; the mode
  of the kiosk follows overlapping events of the host and the operator.
* **Time.** Freshness and package times compare clocks at their boundaries,
  and a call that reads the clock early compares it with records that were
  imported later.
* **Media.** An operator exchanges USB media and key files by hand, also
  between two reads of one import.

What makes each component correct: the reporter loses, reorders and
resurrects nothing and keeps to its limits; trust only moves forward, under an
authorized signer, and the gate opens only for a signed package that is young
enough; the kiosk settles in the mode asked for last, and sends nothing while
it is offline; a challenge is used once; a restart restores what was applied;
one update leaves one configuration; what is stored of a package is what its
signer signed; a badge is valid only under a method that one domain alone
claims and that is in force. `PROJECT.json` lists the hazards one by
one, at the line where each bites, with the properties aimed at it.

## 2. Modules

| module | what it is |
|---|---|
| `AuditTrail` | abstract: events are recorded, delivered in order, forgotten once delivered |
| `Reporting` | the audit reporter, one action per await of `queue_event` and `flush` |
| `MCReporting`, `ReportingProofs` | its instances for TLC; its theorems |
| `TrustLedger` | abstract: a ledger of trust packages per domain, and the clock it justifies |
| `TrustSync` | USB import, network sync, key installation, freshness gate |
| `MCTrustSync`, `TrustSyncProofs` | its instances for TLC; its theorems |
| `NetworkMode` | the web view's mode requests and the native command, on top of `AuditTrail` |
| `NetworkModeProofs` | its theorems |
| `ConfigUpdate` | saving the settings: the file and the three copies of it |
| `ConfigUpdateProofs` | its theorems |
| `Verification` | verifications and face matches, one action per await, beside `ConfigUpdate` and `TrustLedger` |
| `MCVerification`, `VerificationProofs` | its instances for TLC; its theorems |
| `RuntimeProfile` | device synchronization, restore, snapshots and installs, with the lock they share |
| `MCRuntimeProfile`, `RuntimeProfileProofs` | its instances for TLC; its theorems |
| `UsbPackage` | one import: what it reads when, what it accepts, which records it makes |
| `UsbPackageProofs` | its theorems |
| `OpenBadges` | badge verifications, one action per await, on top of `UsbPackage` |
| `MCOpenBadges`, `OpenBadgesProofs` | its instances for TLC; its theorems |

`NetworkMode` uses the audit queue only through the actions of `AuditTrail`
(record, deliver, forget); `Reporting` is shown to implement `AuditTrail`. So
the network mode can be read without the details of a flush, and the flush
without the question who started it. In the same way `Verification` sees trust
packages only through the actions of `TrustLedger`, which `TrustSync` is shown
to implement: a package is committed, or the clock falls back as it does after
a network sync that overlaps an import. It extends `ConfigUpdate` whole, since
the order in which an update reaches the copies is what a verification meets.
`OpenBadges` extends `UsbPackage` whole: a call meets the records of imports
that end while it runs. `TrustSync` and `UsbPackage` are two views of an
import: the first has the ledger, the freshness clock and the syncs and takes
the file as authenticated, the second has the file, the keys and the records;
both have the rule of succession.

### Reporting

`queue_event` is three steps of a verifier: `QueueStart` (clone the
configuration, refuse when disabled), `QueueCheck` (compare the number of
pending rows with the limit just read) and `QueueInsert`. `flush` is a flusher
that starts (`FlushStart`), loads the oldest rows (`FlushLoad`), tries to send
(`SendAccepted`, `Unauthorized`, `SendFailed`) and ends in `FlushAck`,
`FlushFail` or `FlushAborts`. A configuration is reduced to what control flow
depends on; a destination is one of four kinds: none, generic (HTTP status is
the acknowledgement), durable (receipts are validated) and invalid
(`Destination::for_config` refuses it). Rows are numbered as inserted; the
first `LegacyRows` stand for events of a format that
`ExpectedBatch::from_request` refuses. Redaction, payloads, hashes and
back-off times are left out: no property depends on them.

`received` holds what any endpoint has stored, across configurations. A
generic endpoint that answers 2xx is taken to have stored the batch.
`acknowledge_queue_batch` is all or nothing, as the crate documentation
requires of it: a batch of which a row is gone removes nothing.

### TrustSync

An import is `ImportStart` (clone the configuration), `VerifyPackage` (read
and authenticate the file, under the keys installed at that time, and compare
its domain with the one read before) and `ApplyPackage` (the storage
transaction). A sync is `SyncStart` (the compare-exchange), `SyncRead` and
`SyncWrite`, which writes back the whole record it read; `SyncSucceeds` is
`do_sync`, which never succeeds in this version. A package file is a record
that verifies under its `signer` and no other key: signatures are ideal.

The storage transaction is external. From the README and the tests in
`engine.rs` it is taken to demand a strictly higher sequence in its domain, an
unchanged recovery key, and a signer that is the current one, the one the
active package names, or the recovery key (which has to name a successor). It
sets the freshness clock to the package's creation time in the same
transaction; whether it clears the last error is left open. The wall clock
never runs backwards.

### NetworkMode

A browser event or a click sets `hostOnline` or `offlineMode` and appends a
request to the promise chain (`ApplyNetworkMode`); the chain works on one
request at a time: `Invoke`, then the native `SetOnline`, the flush (only when
going online), `CountPending`, and back in the web view `Confirm` and
`Refresh`; or `Rejected`. JavaScript runs to completion between awaits, so the
code between two awaits is one step. The buttons are enabled as
`VerificationModePanel.tsx` has it. One web view lives as long as the process:
reloading it, which would forget the chain while a native command still runs,
is not modelled.

### ConfigUpdate

`update_config` validates (`UpdateStart`), saves (`SaveEmpties`, `SaveWrites`,
since `std::fs::write` truncates first; `SaveFails`), and replaces the copies
of the reporter, the sync engine and the application (`SetReporter`,
`SetEngine`, `SetConfig`). A configuration is a model value; `Sound` are the
ones with a valid trust domain. Two saves at once leave the text of either or
a mixture (`Damaged`). `Start` is `AppConfig::load` and
`AppState::from_config_and_storage`; it happens only when the file parses and
validates. `saved`, `alone` and `mixed` are history, for the properties only.

### Verification

A call of `verify_credential` goes through `Begin` (hardware, then signature,
expiry and session of the challenge), `Consume` (the one write under the lock
of the challenge store), `ReadMode`, and for passports and DTCs `GateLimit`,
`Gate` and `ReadAnchors`; a verdict (`PassportVerified`, `PassportRejected`,
`VerifyPresentation`, `VerifyBadge`, `Unsupported`), which face matching and
liveness may spoil (`WithBiometrics`: no provider is configured and no PAD
adapter passes in this version); `PolicyCheck` when it is valid; `Store`,
`Decide` and `Queue`. `CallFails` is every early return in between. A passport
can be valid only under a package that `governed_csca_record_is_usable`
accepts; whether it is, is the verification library's business and left open.
The certificates of a package have no validity of their own here, and an
import takes no time. `verify_face_match` uses the same challenges and ends
after its provider. `issued` stands for the challenges held by web views,
signed with a secret that is drawn at each start, `boot` for that secret.
A call in `steady` began while no update of the settings ran and none has
run since.

### RuntimeProfile

A sync is `BeginSync` (or the one of the start), `SetDevice`, `GetDevice`,
`Fetch`, then `StoreProfile` and `ApplyProfile`, `StoreLane` and `ApplyLane`,
each only if the answer has one, and `StoreDevice`; the restore of a start is
`ReadDeviceRow`, `ReadProfileRow` and `ReadLaneRows`, each with what it
applies; a snapshot is `TakeGuard`, `ReadTtl` and `ReadBiometric`, and ends in
`Reply`, or in `Rollout` and `Install`. The lock is tokio's: first come, first
served, so a reader waits behind a writer that waits; `Holders` says who holds
it, `Enters` and `Wait` who goes in. Foreign keys are as in `schema.rs`: a lane
whose profile is not stored is refused, and the sync fails after its profile
was applied. `default_presentation_policy_id` is not stored
(`database.rs:339`): `Stored` is a profile without it. A crash empties memory
and starts both start tasks again.

The code has these limits, and the properties say so: an answer without a lane
leaves the old lane in force until the next start; a restore that runs beside
a sync may put an older assignment in force, so `AssignmentPersists` is about
syncs that run beside no other writer; after a restart the device id is
unknown until the next sync, so the rollout does not apply until then. The web
view calls neither `sync_device_config` nor `get_runtime_config` at present.

### UsbPackage

An import is `Open` (the size, from the metadata), `ReadFile` (the text,
parsed strictly), `LoadSigningKey`, `LoadRecoveryKey`, `Verify` (every check
of `import_from_usb`, at one reading of the clock) and `Apply`;
`SwapMedium` and `InstallKeys` may happen between any two. A JSON object is a
function from member names, so that `MethodOk`, `CertificateOk` and
`SchemaOk` ask for members as the code does. What the signature covers is
`Payload`: the package without its signature, and with its numbers as the
doubles that RFC 8785 writes; `Double` rounds as IEEE 754 does just above
`MaxSafeJsonInteger`, so that two packages can have one signature.
Base64, DER and hashes are one to one; a key file is a list of lines, of which
comments are skipped and the first other one has to be a key. Nobody signs
for another (`Unforgeable`).
Storage replaces the records of a domain by those of a package that `Succeeds`
the one in place: a higher sequence, the same recovery key, and a signer that
the active package authorizes, as in `TrustSync`. The packages of the run are
signed by one key, so a change of signer happens in `trust_sync` only; the
theorems about `Succeeds` hold for any packages.

### OpenBadges

A call is `Begin` (request, configuration and clock), `ReadRecords`, one
`Admit` per record, `CheckTrust`, `BuildStatusLists`, `VerifyProof` (the
verification library: any verdict, at most one report per admitted list),
`ReadNewest` and `Classify`, which reads the clock again; `CallFails` is every
early return with an error. The records come in any order, so `Admit` takes
them in any. `Legacy` methods are stored without a package, and never govern.
The two look-ups of `RecordFor` are `open_badge_method_trusted` and
`provenance_for_method`, which the code writes twice. A call whose clock was
read before an import ended rejects the records of that import.

## 3. Runs

| run | instance | shows |
|---|---|---|
| `reporting` | 2 verifiers, 2 flushers, 4 configurations, 4 rows of which one is of an older format, batches of 2, one retry, one crash; 1.9 million states | `NoEventLost`, `DeliveredInOrder`, `NeverRequeued`, `QueueOvershootBounded`, and `ImplementsAuditTrail` |
| `reporting_live` | 1 verifier, 2 flushers, a queue of 3 with batches of 2, the oldest row of an older format, a generic and a durable destination that the operator exchanges, one retry; 63,000 states | `EventuallyRemoved` for a device that keeps coming online |
| `trust_sync` | 2 importers, 2 syncers, 2 domains, 3 keys, 6 packages, one crash; 600,000 states | `GateNeedsSignedPackage`, `SequencesIncrease`, `SignerChain`, `LeaseMatchesSync`, `ClockWithinSkew`, and `ImplementsTrustLedger` |
| `trust_clock` | 1 importer, 1 syncer | a sync undoes the clock of an import (finding) |
| `network_mode` | 4 requests, 2 events; 200,000 states | `SettledModeInForce`, `OperatorOfflineHolds`, `DeliversOnlyOnline`, and `BusyEnds` under fairness |
| `config_update` | 2 updates, 3 configurations of which one is unsound, one crash; 7,900 states | `ActiveWasSaved`, `UnsoundStaysOut`, `CopiesAgree` |
| `liveness` | 2 verifications, 2 challenges of 2 sessions, cleanup from one known challenge on, one restart; 670,000 states | `ChallengeAcceptedOnce`, `ChallengesStayUsable` |
| `verification` | 1 passport verification, 2 packages, 2 configurations of different limits, 1 update; 1.7 million states | `PassportsAreBacked`, `GovernedByOneConfig`, `ResultsAgree` |
| `runtime` | 1 command, the sync and the restore of a start, 1 query or install, 2 editions of a profile (one pins the version, one rolls out to half of the devices, this one not among them), 2 lanes, one restart; 179,000 states | `InForceIsStored`, `AssignmentPersists`, `SnapshotIsOnePicture`, `InstallsFollowPolicy`; `CallsReturn` under fairness |
| `runtime_deadlock` | the same, without a restart | a snapshot and a writer wait for each other (finding) |
| `badges` | 2 imports, 2 domains, 4 packages (one expires, one is made ahead of the clock, one claims an id of another domain, one is numbered out of range), 2 pairs of key files, one exchange, 1 call, 2 configurations; 408,000 states | `StoredIsSigned`, `GovernedStoreIsExact`, `ValidBadgeRestsOnTrust`, `StatusListsGoverned` |
| `badge_skew` | the same | methods of a package made ahead of the clock never govern (finding) |

**Bounds.** `MaxEvents`, `MaxCrashes`, `MaxTime` and `MaxRequests` cap counters
and appear in guards. They are chosen so that the cases of interest happen:
two rows of a batch and one beyond it, two flushes that hold the same rows and
two that hold different ones, a batch that mixes formats and that the durable
destination refuses with newer rows behind it, a limit that is passed by two
verifications at once; a rotation, its replay, a recovery and a
retired signer that comes back, over a domain that changes under a running
import; four requests, which is one more than the chain needs for an old
request, a newer one and the one asked last; packages that expire, that age
past the shorter of two limits, and one that succeeds the other while a
verification holds the first; a challenge that is cleaned up while another is
presented (`CleanupAt` is 0 there, 100 in the code); a snapshot that meets a
writer between its two reads, a sync beside the restore, and a restart after
each of their writes; a package number that doubles round (`MaxSafeJsonInteger`
is 3 there, and 5 is written as 4), a method that two domains claim, a list
signed by a method of another package than the badge, and an import between
any two reads of a call. Times there are ticks (`MaxTime` 3, `Skew` 1,
`TrustCap` 3, `StatusCap` 2): only their order and their distance to these
limits matter. Verifiers, flushers, importers and syncers are interchangeable, and the safety runs use that symmetry. The
proofs do away with the bounds altogether. A run stops early where the bounds
stop it, so `network_mode` does not check for deadlock: once
`MaxRequests` are settled, a web view that waits for the next click is in
order; nor does `config_update`, where a process that cannot read its file
stays down, nor `runtime`, where everybody may end up behind a wedged
snapshot (the finding), nor `badges`, where every call and import is made once.

**Fairness.** `FairSpec` assumes that a started flush runs on (its attempts are
bounded and time out after 10 s: weak fairness), and that storage and endpoint
work some time when they are used again and again, i.e. strong fairness of
loading, of acceptance and of the acknowledgement. It does not assume that
flushes are started: nothing in the code does that but a transition to online
(`commands/sync.rs:31`). `EventuallyRemoved` has this as a hypothesis,
`Reconnecting`, next to `DestinationSuits`: from some time on a remote
destination is configured, and it takes the format of the oldest rows. Both are
needed: TLC refutes the property when either is left out. A flush may be cut short
at any step (`FlushAborts`), which is all that a crash does to it; the crash
itself is in `reporting`.
`BusyEnds` assumes only that the web view and the native
runtime keep running, i.e. weak fairness of each step of a request; new
requests may come at any time. `CallsReturn` assumes weak fairness of each
task's steps, except those that wait for the network: the client of the
profile service has no timeout (`http.rs:16`), so a fetch, a check or a
download may take for ever.

## 4. Proofs

The eight modules `...Proofs` prove every safety property, action property and
refinement of the passing runs, for every value of the constants that
satisfies the named assumptions (`ReportingAssumption`,
`TrustAssumption`, `NetworkAssumption`, `ConfigAssumption`,
`VerificationAssumption`, `RuntimeAssumption`, `UsbAssumption`, `Unforgeable`,
`PackagesAreObjects`, `BadgeAssumption`): they type the constants, ask for at
least one request to verify, for finitely many and at least one verifier that
reports, for a queue that starts within its limit, and for signatures that
nobody forges.

* **Reporting.** `NoEventLost` is not inductive: an acknowledgement could
  remove rows that were never received. `DeliveryInv` adds that a batch that
  awaits its acknowledgement was received, and that whatever is older than a
  row of a batch is in the batch or received; the second gives
  `DeliveredInOrder` and rests on the lemma that a load returns the oldest
  rows. The overshoot bound follows from counting a verifier past the check as
  a row (`Overshoot`). The refinement maps the queue to `pending` and the rows
  of the endpoint to `delivered`. `FlushesEnd` counts down `StepsLeft`: each
  step of a flush lowers it and no other step raises it, so that a started
  flush returns after `RetryCap` + 3 steps of its own, whatever is saved
  meanwhile. The fairness that `NetworkMode` assumes of a flush rests on it.
  `LegacyRowsBlock` is the other side of `EventuallyRemoved`: while a row of an
  older format is queued and no configuration is generic, every batch holds that
  row (`BatchRefused`), so the queue only grows and nothing is delivered.
* **TrustSync.** `ClockInv` says that every sync state, the stored one and the
  ones that syncs have read, is accounted for by a committed package and ahead
  of the clock by the skew at most; this makes the gate sound although a sync
  may write back an old record. `LedgerInv` gives the chain of signers: each
  entry follows its predecessor by higher sequence and authorization, under
  one recovery key. `ClockFollowsWhenApart` is the other side of the finding
  `trust_clock`: in behaviours where no import is applied between the read and
  the write of a sync (`ApartSpec`), the clock is that of an active package
  throughout, so that overlap is its only cause.
* **NetworkMode.** `ChainInv` says that the outstanding requests are the ones
  numbered last, that the newest asks for the mode wanted now, that the first
  is in force once it reached the native runtime, and that none asks for
  online while offline mode is selected. The last is what the disabled buttons
  buy: at the moment of the click no request is outstanding. It also keeps a
  selected offline mode quiet (`OfflineIsQuiet`): no flush is under way then,
  so nothing leaves the device and nothing is forgotten. The composition
  implements `AuditTrail` beside `Reporting` (`KioskImplementsTrail`); what a
  trail keeps is proved of `AuditTrail` alone (`TrailLosesNothing`) and holds of
  the kiosk by refinement (`KioskLosesNothing`). `WorkRunsOut` is the safety
  half of `BusyEnds`: `Work`, six for each outstanding request less the steps
  behind the first, is zero exactly when the view is not busy; a step of the
  chain lowers it, except for the deliveries of a flush, which change
  `delivered` or nothing, and only a new request raises it.
* **ConfigUpdate.** `UpdatesAreSaved` says that what a running update carries
  was validated, and saved once it is past the file; `AloneInv` and
  `UntouchedInv` say what an update that overlaps no other finds at each step,
  which gives `CopiesAgree` when it ends. Three theorems say what the truncation
  in `std::fs::write` costs: a process that is down with a file it cannot load
  stays down (`LockedOutForGood`), such a file has been emptied by a save or
  damaged by an overlap of saves (`LockoutHasCause`), and a file is emptied only
  by a save in hand and filled only with the sound configuration of a save
  (`EmptiedBySaves`).
* **Verification.** `AcceptedInv` says that a challenge that let a call through
  is issued and not open any more; since a challenge is recorded as open only
  when it is issued, and is issued once, neither a cleanup nor a restart can
  make it open again. `Backed` follows a passport's anchors from the moment
  they are read: they stay committed because ledgers only grow
  (`CommittedGrows`), and the limit that was applied stays one that was saved
  (`ActiveWasSaved`). `SteadyInv` says that what an undisturbed call has read
  is still in force, in memory and in the file, so also after a restart; with
  `CopiesAgree` this gives one configuration, and that a call which wants a report
  returns its verdict only with the report queued (`OneResult`). `ConfigSteps` shows that every step of `Verification` is a
  step of `ConfigUpdate` or leaves it alone, so the invariants of
  `ConfigUpdateProofs` are available as they stand; `LedgerSteps` shows the same
  of `TrustLedger`, and `WholeKeepsParts` states both. `LedgerOrdered` (packages
  lie in the ledger of their domain by rising sequence) makes a superseded
  package one that is not active; hence a call that has not read it before
  never sees it, and never has it behind its verdict (`SupersededNeverBacks`).
* **RuntimeProfile.** The rows are a second memory that must stay ahead of the
  first: the inductive form of `InForceIsStored` adds that what a task is about
  to put in force, or to name in the device row, has its row already.
  `PictureInv` says that what a snapshot has read is of one moment, because no
  writer goes in while it holds its guard; for a viewer beside whom nothing was
  written that moment is now, which gives `InstallsFollowPolicy`. About the lock,
  `QueueInv` says that a task waits once, at a step that takes it. From it:
  a wedge (`Wedges`: a snapshot waits behind a writer that waits for its guard)
  outlasts every step but a crash and lets nothing come into force
  (`WedgeIsFinal`), whoever waits behind it waits for ever (`WedgedForEver`), and
  there is no other way for the lock to stand still (`NoOtherDeadlock`); each
  step of a process takes a task on along its sequence or puts it in the queue
  (`CallsAdvance`). Together: a process that stands still is finished, out on
  the network, or wedged. This is the finding `runtime_deadlock` for any number
  of tasks, and the safety half of `CallsReturn`.
* **UsbPackage.** `SignedStep` needs that two packages with one payload differ
  in nothing once both numbers are within `MaxSafeJsonInteger`
  (`DoublesAgree`, `SamePayload`); with `Unforgeable` what passes `Verifies` was
  issued (`VerifiedIsIssued`), and the import carries what passed until it is
  stored, whatever is exchanged meanwhile. `StoreGoesForward` says of each step
  that the records of a domain give way only to those of an issued package that
  `Succeeds` them; hence a domain never falls behind a sequence it has reached,
  never loses its records and never changes its recovery key (`NoRollback`).
* **OpenBadges.** `Known` says of a call that the records it has read are those
  of signed packages (`RecordsGenuine`), and that of the usable records its loop
  has passed it keeps those that stand alone and has closed the ids of the
  others. `AddFirst`, `AddSecond` and `AddClosed` are the three cases of the
  loop, and say that this is a property of the set of records, not of their
  order. `UsableIsInForce` shows that, for records of signed packages, the
  checks of the code come to `InForce`: the importer has already seen to the
  rest, private keys included (`ImportedIsPublic`). `SkewedStayOut` is the finding
  `badge_skew` for all instances: a method of a package imported before the time
  of its making never governs, and neither time nor failed imports change that:
  the domain keeps these records until a package succeeds them
  (`SkewedUntilSucceeded`).

Theorems without a run of their own (`PROJECT.json` lists them without a
property) were model-checked on the instances above before they were proved.

Only model-checked: the liveness properties `EventuallyRemoved`, `BusyEnds` and
`CallsReturn`; fairness and ENABLED are out of the prover's reach. What can be
said of them without fairness is proved: `FlushesEnd`, `WorkRunsOut`,
`CallsAdvanceHolds` and `NoOtherDeadlockHolds` bound the steps that are left, so
that the liveness rests on the steps being taken, and for `EventuallyRemoved`
on a device that reconnects and an endpoint that answers.

## 5. Findings

1. `trust_clock`: a network sync that overlaps a USB import writes back the
   sync state it read before the import. The package is active, its clock is
   lost, passport and DTC verification stay shut, and the same package is
   refused as a rollback when it is imported again (`engine.rs:240-265`).
   Safety is kept: the gate never opens wrongly (`GateIsSound`).
2. `runtime_deadlock`: `snapshot` holds a read guard of the runtime profile and
   takes the same lock for reading twice more (`runtime_config.rs:213-216`). A
   writer that queues in between waits for the guard, the snapshot waits behind
   the writer, and every later reader behind both: policy checks and audit
   decisions of verifications included.
3. `badge_skew`: the importer accepts a package made up to the clock skew ahead
   (`usb.rs:416`), the badge verifier rejects every record imported before its
   own creation (`open_badges.rs:185`). Its methods never govern; passport
   anchors of the same package do.

Noted while modelling, each reproduced with the modules but without a run of
its own:

* Concurrent verifications exceed `max_queue_size` (`reporter.rs:61-73`; "Maximum
  queue size before dropping events", `config.rs:35`), by less than their number
  (`OvershootBounded`).
* `batch_interval_minutes` is offered in the settings and read by nothing; while
  the device stays online, events wait (`commands/sync.rs:31`).
* A crash, or a full disk, between the two halves of saving the settings leaves an
  empty file, and the application does not start (`config.rs:317-345`).
* One queued event of an older format keeps every later one on the device for as
  long as the destination is durable: its batch is refused as a whole and loaded
  again (`durable_ack.rs:203-231`, `reporter.rs:141`; proved, `LegacyRowsBlock`).
* Profile and lane of different assignments can be in force, or in the rows,
  together: after two syncs that overlap, or a crash inside one
  (`commands/profile_sync.rs:60-85`). A complete sync that runs alone mends it
  (`AssignmentPersists`).
* An install does not look again at a policy that changes while it downloads
  (`commands/update.rs:69`).
* A verification is stored first and its audit event queued last
  (`commands/verification/mod.rs:711-745`); when queueing fails, the caller gets
  an error and the record is never reported.

## 6. Plan

What is left, in this order:

1. The policy rules (`policy.rs`) and the passport record rules (`dtc.rs`,
   `emrtd.rs`) as operators of `Verification`, over the records that
   `UsbPackage` makes rather than the packages of `TrustLedger`.
2. `UsbPackage` shown to implement `TrustLedger`: the rule of succession is in
   its storage transaction, and `StoreGoesForward` is the step of that
   refinement; what is missing is a history of the replaced packages and the
   freshness clock.

The runs are one per question; new questions about a component go into its
existing run where the instance allows it.

## 7. Not modelled

Text: base64, DER and hashes of packages, and the parsing of credentials and
receipts; cryptography (ideal signatures); the policy tables of the application
database and `PolicySync`, which only tests use; the keyring and database
set-up; the flow store of the web view, a display of what a remote service last
answered; hardware detection and biometrics adapters (they always fail in this
version); the signature check of updates (the updater plugin's); software
provenance and the shape of badge results; repeated status URLs; packaging and
scripts; logging and layout. The reasons are with the components in
`PROJECT.json`.
