----------------------------- MODULE RuntimeProfile -----------------------------
(***************************************************************************)
(* The deployment profile and the lane a device works under: fetched from  *)
(* the backend (sync_device_config), written through to the app database   *)
(* (crates/marty-app-storage), held in memory by RuntimeConfig, restored   *)
(* at start, and read as a snapshot by get_runtime_config and by the       *)
(* updater, which asks whether this device is in the rollout.              *)
(*                                                                         *)
(* RuntimeConfig is one tokio RwLock: first come, first served, so that a  *)
(* reader waits behind a writer that waits.  That lock is external code.   *)
(* Statements of the database are atomic.  Commands that are refused       *)
(* before they read or change anything are left out.                       *)
(***************************************************************************)
EXTENDS Integers, Sequences, FiniteSets

CONSTANTS
  Commands,               \* sync_device_config calls, each made once
  Startup, Restore,       \* the two tasks every process starts with
  Viewers,                \* get_runtime_config and download_and_install_update calls, likewise
  Devices, NoDevice, Policies, NoPolicy, Versions, NoVersion,
  ProfileIds, Profiles, NoProfile, LaneIds, Lanes, NoLane, NoId,
  Offered,                \* the versions on the update channel
  Answers,                \* what the backend may assign
  Bucket,                 \* hash of the device identity, modulo 100
  MaxCrashes              \* bound: crashes and restarts of the process

Syncs   == Commands \cup {Startup}
Writers == Syncs \cup {Restore}
Tasks   == Writers \cup Viewers

Profile ==
  [id : ProfileIds, offline_cache_ttl_hours : Nat, biometric : BOOLEAN,
   default_policy : Policies \cup {NoPolicy},
   rollout_percentage : Nat, version_pinned : Versions \cup {NoVersion}]

Lane ==
  [id : LaneIds, deployment_profile_id : ProfileIds, default_policy_id : Policies \cup {NoPolicy}]

Answer ==
  [deployment_profile : Profiles \cup {NoProfile}, lane : Lanes \cup {NoLane}]
NoAnswer == [deployment_profile |-> NoProfile, lane |-> NoLane]

DeviceRow ==
  [device_id : Devices \cup {NoDevice},
   profile_id : ProfileIds \cup {NoId}, lane_id : LaneIds \cup {NoId}]
NoRow == [device_id |-> NoDevice, profile_id |-> NoId, lane_id |-> NoId]

RuntimeConfigInner ==
  [device_id : Devices \cup {NoDevice}, deployment_profile : Profiles \cup {NoProfile},
   lane : Lanes \cup {NoLane}, active_policy_id : Policies \cup {NoPolicy}]

NewRuntime ==
  [device_id |-> NoDevice, deployment_profile |-> NoProfile, lane |-> NoLane,
   active_policy_id |-> NoPolicy]

\* What a task has read; no version: it is not an install.
Local ==
  [device_id : Devices \cup {NoDevice}, answer : Answer, row : DeviceRow,
   version : Versions \cup {NoVersion}, view : RuntimeConfigInner,
   offline_cache_ttl_hours : Nat, biometric : BOOLEAN]

Unread ==
  [device_id |-> NoDevice, answer |-> NoAnswer, row |-> NoRow, version |-> NoVersion,
   view |-> NewRuntime, offline_cache_ttl_hours |-> 24, biometric |-> FALSE]

\* store_deployment_profile and get_deployment_profile: a profile comes back
\* without its default policy.
Stored(p) == [p EXCEPT !.default_policy = NoPolicy]

ASSUME RuntimeAssumption ==
  /\ Profiles \subseteq Profile /\ \A p \in Profiles : Stored(p) \in Profiles
  /\ Lanes \subseteq Lane
  /\ Answers \subseteq Answer /\ Offered \subseteq Versions
  /\ NoProfile \notin Profiles /\ NoLane \notin Lanes /\ NoDevice \notin Devices
  /\ NoPolicy \notin Policies /\ NoVersion \notin Versions
  /\ NoId \notin ProfileIds /\ NoId \notin LaneIds
  /\ Bucket \in [Devices -> 0 .. 99]
  /\ MaxCrashes \in Nat
  /\ Startup \notin Commands \cup Viewers /\ Restore \notin Syncs \cup Viewers
  /\ Commands \cap Viewers = {}

VARIABLES
  profileRows, laneRows,  \* tables deployment_profiles and lanes
  deviceRow,              \* the one row of device_config
  inner,                  \* RuntimeConfig, behind its lock
  queue,                  \* tasks that wait for the lock, first come first
  pc, local,              \* per task: next step, what it has read
  crashes,
  agreed,                 \* history: the answer of a sync that nothing ran beside
  alone,                  \* history: writing tasks that nothing ran beside
  unreadable,             \* history: a storage error cut this start's restore short
  steady                  \* history: viewers since whose start nothing was written

rowVars     == <<profileRows, laneRows, deviceRow>>
historyVars == <<agreed, alone, unreadable, steady>>
vars == <<rowVars, inner, queue, pc, local, crashes, historyVars>>

\* main.rs spawns the restore and a sync at once.
AtStart(t, otherwise) ==
  IF t = Restore THEN "device_row" ELSE IF t = Startup THEN "get_device" ELSE otherwise

Init ==
  /\ profileRows = [i \in ProfileIds |-> NoProfile]
  /\ laneRows = [i \in LaneIds |-> NoLane]
  /\ deviceRow = NoRow
  /\ inner = NewRuntime
  /\ queue = <<>>
  /\ pc = [t \in Tasks |-> AtStart(t, "idle")]
  /\ local = [t \in Tasks |-> Unread]
  /\ crashes = 0
  /\ agreed = NoAnswer /\ alone = {} /\ unreadable = FALSE /\ steady = {}

Running(t) == pc[t] \notin {"idle", "done"}

-------------------------------------------------------------------------------
(* The lock.  All but snapshot hold it within one step.                    *)

WriteSteps == {"set_device", "apply_profile", "apply_lane"}
ReadSteps  == {"get_device", "snapshot", "ttl", "biometric"}

\* Wrong: the guard is a temporary, gone before the getters run.
HoldersOfNothing == {}

\* Wrong: the guard lives as long as the command that took the snapshot.
HoldersToTheEnd ==
  {t \in Viewers : pc[t] \in {"ttl", "biometric", "rollout", "download"}}

\* snapshot keeps its read guard while it awaits the two getters.
Holders == {t \in Viewers : pc[t] \in {"ttl", "biometric"}}

Waiting == {queue[n] : n \in DOMAIN queue}

Enters(t) ==
  /\ queue # <<>> => Head(queue) = t
  /\ pc[t] \in WriteSteps => Holders = {}
  /\ queue' = IF queue = <<>> THEN queue ELSE Tail(queue)

Wait(t) ==
  /\ pc[t] \in WriteSteps \cup ReadSteps
  /\ t \notin Waiting
  /\ queue # <<>> \/ (pc[t] \in WriteSteps /\ Holders # {})
  /\ queue' = Append(queue, t)
  /\ UNCHANGED <<rowVars, inner, pc, local, crashes, historyVars>>

Goes(t, next, reading) ==
  /\ pc' = [pc EXCEPT ![t] = next]
  /\ local' = [local EXCEPT ![t] = reading]

Ends(t) == Goes(t, "done", Unread)

-------------------------------------------------------------------------------
(* sync_device_config.                                                     *)

BeginSync(t, d) ==
  /\ t \in Commands /\ pc[t] = "idle"
  /\ Goes(t, "set_device", [Unread EXCEPT !.device_id = d])
  /\ alone' = IF \E u \in Writers : Running(u) THEN {} ELSE {t}
  /\ UNCHANGED <<rowVars, inner, queue, crashes, agreed, unreadable, steady>>

SetDevice(t) ==
  /\ pc[t] = "set_device" /\ Enters(t)
  /\ inner' = [inner EXCEPT !.device_id = local[t].device_id]
  /\ Goes(t, "get_device", local[t])
  /\ steady' = {}
  /\ UNCHANGED <<rowVars, crashes, agreed, alone, unreadable>>

\* Wrong: a device nobody has set is left to the backend.
GetAnyDevice(t) ==
  /\ pc[t] = "get_device" /\ Enters(t)
  /\ Goes(t, "fetch", [local[t] EXCEPT !.device_id = inner.device_id])
  /\ UNCHANGED <<rowVars, inner, crashes, historyVars>>

\* The device is read back: another command may have set another one.
GetDevice(t) ==
  /\ pc[t] = "get_device" /\ Enters(t)
  /\ IF inner.device_id = NoDevice THEN Ends(t)
     ELSE Goes(t, "fetch", [local[t] EXCEPT !.device_id = inner.device_id])
  /\ UNCHANGED <<rowVars, inner, crashes, historyVars>>

AfterProfile(a) == IF a.lane # NoLane THEN "store_lane" ELSE "store_device"

\* Wrong: the profile goes into force before it is stored.
FetchAndApply(t) ==
  /\ pc[t] = "fetch"
  /\ \E a \in Answers :
       Goes(t, IF a.deployment_profile # NoProfile THEN "apply_profile" ELSE AfterProfile(a),
            [local[t] EXCEPT !.answer = a])
  /\ agreed' = NoAnswer
  /\ UNCHANGED <<rowVars, inner, queue, crashes, alone, unreadable, steady>>

\* Whatever device the answer names is ignored.
Fetch(t) ==
  /\ pc[t] = "fetch"
  /\ \E a \in Answers :
       Goes(t, IF a.deployment_profile # NoProfile THEN "store_profile" ELSE AfterProfile(a),
            [local[t] EXCEPT !.answer = a])
  /\ agreed' = NoAnswer
  /\ UNCHANGED <<rowVars, inner, queue, crashes, alone, unreadable, steady>>

StoreProfile(t) ==
  LET p == local[t].answer.deployment_profile IN
  /\ pc[t] = "store_profile"
  /\ profileRows' = [profileRows EXCEPT ![p.id] = Stored(p)]
  /\ Goes(t, "apply_profile", local[t])
  /\ UNCHANGED <<laneRows, deviceRow, inner, queue, crashes, historyVars>>

\* apply_deployment_profile, by a sync or by the restore.
ApplyProfile(t) ==
  /\ pc[t] = "apply_profile" /\ Enters(t)
  /\ inner' = [inner EXCEPT !.deployment_profile = local[t].answer.deployment_profile]
  /\ Goes(t, IF t = Restore THEN "lane_rows" ELSE AfterProfile(local[t].answer), local[t])
  /\ steady' = {}
  /\ UNCHANGED <<rowVars, crashes, agreed, alone, unreadable>>

\* The foreign key: a lane is stored only under a profile that is.
StoreLane(t) ==
  LET l == local[t].answer.lane IN
  /\ pc[t] = "store_lane"
  /\ profileRows[l.deployment_profile_id] # NoProfile
  /\ laneRows' = [laneRows EXCEPT ![l.id] = l]
  /\ Goes(t, "apply_lane", local[t])
  /\ UNCHANGED <<profileRows, deviceRow, inner, queue, crashes, historyVars>>

\* Wrong: the restore brings the lane back, and leaves its policy behind.
ApplyLaneByItself(t) ==
  LET l == local[t].answer.lane IN
  /\ pc[t] = "apply_lane" /\ Enters(t)
  /\ inner' = [inner EXCEPT
       !.lane = l,
       !.active_policy_id = IF t # Restore THEN l.default_policy_id ELSE @]
  /\ IF t = Restore THEN Ends(t) ELSE Goes(t, "store_device", local[t])
  /\ steady' = {}
  /\ UNCHANGED <<rowVars, crashes, agreed, alone, unreadable>>

\* apply_lane: the lane's own policy becomes the active one, if it has one.
ApplyLane(t) ==
  LET l == local[t].answer.lane IN
  /\ pc[t] = "apply_lane" /\ Enters(t)
  /\ inner' = [inner EXCEPT
       !.lane = l,
       !.active_policy_id = IF l.default_policy_id # NoPolicy THEN l.default_policy_id ELSE @]
  /\ IF t = Restore THEN Ends(t) ELSE Goes(t, "store_device", local[t])
  /\ steady' = {}
  /\ UNCHANGED <<rowVars, crashes, agreed, alone, unreadable>>

StoreDevice(t) ==
  LET a == local[t].answer IN
  /\ pc[t] = "store_device"
  /\ deviceRow' =
       [device_id |-> local[t].device_id,
        profile_id |-> IF a.deployment_profile = NoProfile THEN NoId ELSE a.deployment_profile.id,
        lane_id |-> IF a.lane = NoLane THEN NoId ELSE a.lane.id]
  /\ Ends(t)
  /\ agreed' = IF t \in alone THEN a ELSE NoAnswer
  /\ UNCHANGED <<profileRows, laneRows, inner, queue, crashes, alone, unreadable, steady>>

\* No endpoint, no answer, or one that is an error.
FetchFails(t) ==
  /\ pc[t] = "fetch"
  /\ Ends(t)
  /\ UNCHANGED <<rowVars, inner, queue, crashes, historyVars>>

\* The database fails or refuses: what was done so far stands.
StoreFails(t) ==
  /\ pc[t] \in {"store_profile", "store_lane", "store_device"}
  /\ Ends(t)
  /\ UNCHANGED <<rowVars, inner, queue, crashes, historyVars>>

-------------------------------------------------------------------------------
(* restore_from_storage.                                                   *)

ReadDeviceRow ==
  /\ pc[Restore] = "device_row"
  /\ IF deviceRow = NoRow THEN Ends(Restore)
     ELSE Goes(Restore, "profile_row", [local[Restore] EXCEPT !.row = deviceRow])
  /\ UNCHANGED <<rowVars, inner, queue, crashes, historyVars>>

\* get_deployment_profile; no profile, or an unknown one, ends the restore.
ReadProfileRow ==
  LET id == local[Restore].row.profile_id IN
  /\ pc[Restore] = "profile_row"
  /\ IF id # NoId /\ profileRows[id] # NoProfile
     THEN Goes(Restore, "apply_profile",
               [local[Restore] EXCEPT !.answer.deployment_profile = profileRows[id]])
     ELSE Ends(Restore)
  /\ UNCHANGED <<rowVars, inner, queue, crashes, historyVars>>

\* get_lanes_for_profile, and the one the device row names.
LanesOf(row) == {l \in Lanes : l \in {laneRows[i] : i \in LaneIds}
                               /\ l.deployment_profile_id = row.profile_id /\ l.id = row.lane_id}

ReadLaneRows ==
  /\ pc[Restore] = "lane_rows"
  /\ \/ \E l \in LanesOf(local[Restore].row) :
          Goes(Restore, "apply_lane", [local[Restore] EXCEPT !.answer.lane = l])
     \/ /\ LanesOf(local[Restore].row) = {}
        /\ Ends(Restore)
  /\ UNCHANGED <<rowVars, inner, queue, crashes, historyVars>>

RestoreFails ==
  /\ pc[Restore] \in {"device_row", "profile_row", "lane_rows"}
  /\ Ends(Restore)
  /\ unreadable' = TRUE
  /\ UNCHANGED <<rowVars, inner, queue, crashes, agreed, alone, steady>>

-------------------------------------------------------------------------------
(* Snapshots, for get_runtime_config and for the updater.                  *)

BeginQuery(t) ==
  /\ t \in Viewers /\ pc[t] = "idle"
  /\ Goes(t, "snapshot", Unread)
  /\ UNCHANGED <<rowVars, inner, queue, crashes, historyVars>>

BeginInstall(t) ==
  /\ t \in Viewers /\ pc[t] = "idle"
  /\ Goes(t, "check", Unread)
  /\ steady' = steady \cup {t}
  /\ UNCHANGED <<rowVars, inner, queue, crashes, agreed, alone, unreadable>>

\* updater.check: another version is on the channel, or nothing is.
FindUpdate(t) ==
  /\ pc[t] = "check"
  /\ \/ \E v \in Offered : Goes(t, "snapshot", [local[t] EXCEPT !.version = v])
     \/ Ends(t)
  /\ UNCHANGED <<rowVars, inner, queue, crashes, historyVars>>

TakeGuard(t) ==
  /\ pc[t] = "snapshot" /\ Enters(t)
  /\ Goes(t, "ttl", [local[t] EXCEPT !.view = inner])
  /\ UNCHANGED <<rowVars, inner, crashes, historyVars>>

TtlHours(p)  == IF p = NoProfile THEN 24 ELSE p.offline_cache_ttl_hours
Biometric(p) == p # NoProfile /\ p.biometric

\* get_offline_cache_ttl_hours and is_operator_biometric_authentication_required
\* take the lock again.
ReadTtl(t) ==
  /\ pc[t] = "ttl" /\ Enters(t)
  /\ Goes(t, "biometric",
          [local[t] EXCEPT !.offline_cache_ttl_hours = TtlHours(inner.deployment_profile)])
  /\ UNCHANGED <<rowVars, inner, crashes, historyVars>>

ReadBiometric(t) ==
  /\ pc[t] = "biometric" /\ Enters(t)
  /\ Goes(t, IF local[t].version = NoVersion THEN "reply" ELSE "rollout",
          [local[t] EXCEPT !.biometric = Biometric(inner.deployment_profile)])
  /\ UNCHANGED <<rowVars, inner, crashes, historyVars>>

\* check_rollout_eligibility; a device that does not know who it is, or under
\* which profile it works, updates.
Eligible(view, v) ==
  LET p == view.deployment_profile IN
  view.device_id # NoDevice /\ p # NoProfile =>
    /\ p.version_pinned \in {NoVersion, v}
    /\ Bucket[view.device_id] < p.rollout_percentage

Reply(t) ==
  /\ pc[t] = "reply"
  /\ Ends(t)
  /\ UNCHANGED <<rowVars, inner, queue, crashes, historyVars>>

\* Wrong: the device is looked up where nobody sets it.
RolloutOfNobody(t) ==
  /\ pc[t] = "rollout"
  /\ IF Eligible([local[t].view EXCEPT !.device_id = NoDevice], local[t].version)
     THEN Goes(t, "download", [Unread EXCEPT !.version = local[t].version])
     ELSE Ends(t)
  /\ UNCHANGED <<rowVars, inner, queue, crashes, historyVars>>

Rollout(t) ==
  /\ pc[t] = "rollout"
  /\ IF Eligible(local[t].view, local[t].version)
     THEN Goes(t, "download", [Unread EXCEPT !.version = local[t].version])
     ELSE Ends(t)
  /\ UNCHANGED <<rowVars, inner, queue, crashes, historyVars>>

\* update.download_and_install, or its failure.
Install(t) ==
  /\ pc[t] = "download"
  /\ Ends(t)
  /\ UNCHANGED <<rowVars, inner, queue, crashes, historyVars>>

-------------------------------------------------------------------------------
\* A new process restores and syncs at once, and knows no device.
Crash ==
  /\ crashes < MaxCrashes
  /\ crashes' = crashes + 1
  /\ inner' = NewRuntime /\ queue' = <<>>
  /\ pc' = [t \in Tasks |-> AtStart(t, IF pc[t] = "idle" THEN "idle" ELSE "done")]
  /\ local' = [t \in Tasks |-> Unread]
  /\ alone' = {} /\ unreadable' = FALSE /\ steady' = {}
  /\ UNCHANGED <<rowVars, agreed>>

\* Steps that the process takes by itself; the others wait for the network.
Works(t) ==
  \/ Wait(t)
  \/ SetDevice(t) \/ GetDevice(t) \/ StoreProfile(t) \/ ApplyProfile(t)
  \/ StoreLane(t) \/ ApplyLane(t) \/ StoreDevice(t) \/ StoreFails(t)
  \/ t = Restore /\ (ReadDeviceRow \/ ReadProfileRow \/ ReadLaneRows \/ RestoreFails)
  \/ TakeGuard(t) \/ ReadTtl(t) \/ ReadBiometric(t) \/ Reply(t) \/ Rollout(t)

Next ==
  \/ \E t \in Tasks : Works(t)
  \/ \E t \in Tasks, d \in Devices : BeginSync(t, d)
  \/ \E t \in Tasks : Fetch(t) \/ FetchFails(t) \/ FindUpdate(t) \/ Install(t)
  \/ \E t \in Tasks : BeginQuery(t) \/ BeginInstall(t)
  \/ Crash

Spec == Init /\ [][Next]_vars /\ \A t \in Tasks : WF_vars(Works(t))

-------------------------------------------------------------------------------
SyncSteps ==
  {"idle", "set_device", "get_device", "fetch", "store_profile", "apply_profile",
   "store_lane", "apply_lane", "store_device", "done"}
RestoreSteps == {"device_row", "profile_row", "apply_profile", "lane_rows", "apply_lane", "done"}
ViewerSteps ==
  {"idle", "check", "snapshot", "ttl", "biometric", "reply", "rollout", "download", "done"}

StepsOf(t) ==
  IF t = Restore THEN RestoreSteps ELSE IF t \in Viewers THEN ViewerSteps ELSE SyncSteps

\* What a task at this step has read.
Needs(t, step, l) ==
  /\ step \in StepsOf(t)
  /\ t \in Syncs /\ step \notin {"idle", "get_device", "done"} => l.device_id # NoDevice
  /\ step \in {"store_profile", "apply_profile"} => l.answer.deployment_profile # NoProfile
  /\ step \in {"store_lane", "apply_lane"} => l.answer.lane # NoLane

(* Tasks are somewhere in their sequence, and have read what their step    *)
(* needs.                                                                  *)
TypeOK ==
  /\ profileRows \in [ProfileIds -> Profiles \cup {NoProfile}]
  /\ laneRows \in [LaneIds -> Lanes \cup {NoLane}]
  /\ deviceRow \in DeviceRow
  /\ inner \in RuntimeConfigInner
  /\ queue \in Seq(Tasks)
  /\ pc \in [Tasks -> SyncSteps \cup RestoreSteps \cup ViewerSteps]
  /\ local \in [Tasks -> Local]
  /\ \A t \in Tasks : Needs(t, pc[t], local[t])
  /\ crashes \in 0 .. MaxCrashes
  /\ agreed \in Answer
  /\ alone \subseteq Writers
  /\ unreadable \in BOOLEAN
  /\ steady \subseteq Viewers

(* "The runtime_config holds the live in-memory state; these helpers write *)
(* through to SQLite" (profile_sync.rs): after every step, and a crash at  *)
(* any, the device row names stored rows only, no lane is stored without   *)
(* its profile, and what is in force has been stored.                      *)
InForceIsStored ==
  /\ deviceRow.profile_id # NoId => profileRows[deviceRow.profile_id] # NoProfile
  /\ deviceRow.lane_id # NoId => laneRows[deviceRow.lane_id] # NoLane
  /\ \A i \in LaneIds : laneRows[i] # NoLane =>
       profileRows[laneRows[i].deployment_profile_id] # NoProfile
  /\ inner.deployment_profile # NoProfile => profileRows[inner.deployment_profile.id] # NoProfile
  /\ inner.lane # NoLane => laneRows[inner.lane.id] # NoLane

\* A profile, and a lane of it that says which policy to use.
Complete(a) ==
  /\ a.deployment_profile # NoProfile /\ a.lane # NoLane
  /\ a.lane.deployment_profile_id = a.deployment_profile.id
  /\ a.lane.default_policy_id # NoPolicy

(* "... for persistence across restarts": once a sync that ran beside no   *)
(* other has stored a complete assignment, that is what is in force        *)
(* whenever no task writes, in this process and after each restart whose   *)
(* restore could read, the profile's default policy apart.                 *)
AssignmentPersists ==
  Complete(agreed) /\ ~unreadable /\ (\A t \in Writers : ~Running(t)) =>
    /\ inner.deployment_profile \in {agreed.deployment_profile, Stored(agreed.deployment_profile)}
    /\ inner.lane = agreed.lane
    /\ inner.active_policy_id = agreed.lane.default_policy_id

(* "Get a snapshot of current configuration": a snapshot that took its     *)
(* guard is one picture, although two of its fields are read after awaits. *)
SnapshotIsOnePicture ==
  \A t \in Viewers :
    LET s == local[t] IN
    pc[t] \in {"reply", "rollout"} =>
      /\ s.offline_cache_ttl_hours = TtlHours(s.view.deployment_profile)
      /\ s.biometric = Biometric(s.view.deployment_profile)
      /\ s.view.lane # NoLane /\ s.view.lane.default_policy_id # NoPolicy =>
           s.view.active_policy_id = s.view.lane.default_policy_id

(* "Check if device is eligible for update based on deployment profile     *)
(* rollout policy" (update.rs): an update that is being installed suits    *)
(* what is in force, unless that was changed while the command ran.        *)
InstallsFollowPolicy ==
  \A t \in steady : pc[t] = "download" => Eligible(inner, local[t].version)

\* A snapshot that is to take again the lock it holds, behind a writer that
\* waits until it is let go.
Wedges(h) ==
  /\ h \in Holders /\ pc[h] \in ReadSteps
  /\ \E n \in DOMAIN queue :
       pc[queue[n]] \in WriteSteps /\ \A m \in 1 .. n : queue[m] # h

Wedged == \E h \in Viewers : Wedges(h)

(* Every command and both start tasks come to an end, or to the network,   *)
(* unless a snapshot waits for a writer that waits for it.                 *)
CallsReturn ==
  \A t \in Tasks :
    Running(t) ~> (~Running(t) \/ pc[t] \in {"fetch", "check", "download"} \/ Wedged)

(* A snapshot that took its guard returns.                                 *)
SnapshotReturns == \A t \in Viewers : pc[t] = "ttl" ~> pc[t] \notin {"ttl", "biometric"}
===============================================================================
