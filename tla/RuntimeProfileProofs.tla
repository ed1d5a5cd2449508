-------------------------- MODULE RuntimeProfileProofs --------------------------
(***************************************************************************)
(* What RuntimeProfile keeps, for any commands, devices, profiles, lanes   *)
(* and answers of the backend: what is in force is stored, snapshots are   *)
(* one picture, installs follow the policy, assignments persist.           *)
(***************************************************************************)
EXTENDS RuntimeProfile, TLAPS

AllSteps == SyncSteps \cup RestoreSteps \cup ViewerSteps

TasksOK ==
  /\ pc \in [Tasks -> AllSteps] /\ local \in [Tasks -> Local]
  /\ \A t \in Tasks : Needs(t, pc[t], local[t])

SharedOK ==
  /\ profileRows \in [ProfileIds -> Profiles \cup {NoProfile}]
  /\ laneRows \in [LaneIds -> Lanes \cup {NoLane}]
  /\ deviceRow \in DeviceRow
  /\ inner \in RuntimeConfigInner
  /\ queue \in Seq(Tasks)
  /\ crashes \in 0 .. MaxCrashes
  /\ agreed \in Answer

HistoryOK == alone \subseteq Writers /\ unreadable \in BOOLEAN /\ steady \subseteq Viewers

LEMMA TypeParts == TypeOK <=> TasksOK /\ SharedOK /\ HistoryOK
BY DEF TypeOK, TasksOK, SharedOK, HistoryOK, AllSteps

LEMMA Kinds ==
  ASSUME NEW t \in Tasks
  PROVE  /\ t \in Syncs => t # Restore /\ t \notin Viewers
         /\ t \in Viewers => t # Restore
         /\ t # Restore /\ t \notin Viewers => t \in Syncs
BY RuntimeAssumption DEF Tasks, Writers, Syncs

(* A step tells which kind of task takes it.                               *)
LEMMA KindOfStep ==
  ASSUME NEW t \in Tasks, NEW step \in StepsOf(t)
  PROVE  /\ step \in {"set_device", "get_device", "fetch", "store_profile", "store_lane",
                      "store_device"} => t \in Syncs
         /\ step \in {"check", "snapshot", "ttl", "biometric", "reply", "rollout", "download"} =>
              t \in Viewers
         /\ step \in {"device_row", "profile_row", "lane_rows"} => t = Restore
         /\ step \in {"apply_profile", "apply_lane"} => t \in Writers
         /\ step \in {"set_device", "apply_profile", "apply_lane"} => t \notin Viewers
BY Kinds DEF StepsOf, SyncSteps, RestoreSteps, ViewerSteps, Writers

(* A step of one task leaves every task with what its step needs.          *)
LEMMA GoesTyped ==
  ASSUME TasksOK, NEW t \in Tasks, NEW next, NEW l \in Local, Needs(t, next, l), Goes(t, next, l)
  PROVE  TasksOK'
<1>1. next \in AllSteps  BY DEF Needs, StepsOf, AllSteps
<1> QED BY <1>1 DEF TasksOK, Needs, StepsOf, Goes

LEMMA NothingRead == Unread \in Local /\ NoAnswer \in Answer /\ NoRow \in DeviceRow
                     /\ NewRuntime \in RuntimeConfigInner
BY DEF Unread, Local, NoAnswer, Answer, NoRow, DeviceRow, NewRuntime, RuntimeConfigInner

LEMMA EndsTyped ==
  ASSUME TasksOK, NEW t \in Tasks, Ends(t)
  PROVE  TasksOK'
<1>1. Needs(t, "done", Unread)  BY DEF Needs, StepsOf, SyncSteps, RestoreSteps, ViewerSteps
<1> QED BY <1>1, GoesTyped, NothingRead DEF Ends

(* What a task reads stays of its type.                                    *)
LEMMA LocalUpdates ==
  ASSUME NEW l \in Local
  PROVE  /\ \A d \in Devices \cup {NoDevice} : [l EXCEPT !.device_id = d] \in Local
         /\ \A a \in Answer : [l EXCEPT !.answer = a] \in Local
         /\ \A r \in DeviceRow : [l EXCEPT !.row = r] \in Local
         /\ \A v \in Versions \cup {NoVersion} : [l EXCEPT !.version = v] \in Local
         /\ \A i \in RuntimeConfigInner : [l EXCEPT !.view = i] \in Local
         /\ \A n \in Nat : [l EXCEPT !.offline_cache_ttl_hours = n] \in Local
         /\ \A b \in BOOLEAN : [l EXCEPT !.biometric = b] \in Local
         /\ \A p \in Profiles \cup {NoProfile} :
              [l EXCEPT !.answer.deployment_profile = p] \in Local
         /\ \A n \in Lanes \cup {NoLane} : [l EXCEPT !.answer.lane = n] \in Local
BY DEF Local, Answer

(* The lock is passed on or stays as it is.                                *)
LEMMA EntersTyped ==
  ASSUME queue \in Seq(Tasks), NEW t, Enters(t)
  PROVE  queue' \in Seq(Tasks)
BY DEF Enters

(* Every step leaves every task with what its next step needs.             *)
LEMMA TasksStep ==
  ASSUME TasksOK, SharedOK, [Next]_vars
  PROVE  TasksOK'
<1>1. ASSUME NEW t \in Tasks, Wait(t) PROVE TasksOK'
  BY <1>1 DEF Wait, TasksOK, Needs
<1>2. ASSUME NEW t \in Tasks, SetDevice(t) PROVE TasksOK'
  <2>1. local[t] \in Local /\ Needs(t, pc[t], local[t])  BY DEF TasksOK
  <2>0. t \in Syncs /\ t # Restore /\ t \notin Viewers  BY <1>2, <2>1, KindOfStep, Kinds DEF SetDevice, Needs
  <2> QED BY <1>2, <2>0, <2>1, GoesTyped DEF SetDevice, Needs, StepsOf, SyncSteps, RestoreSteps, ViewerSteps
<1>3. ASSUME NEW t \in Tasks, GetDevice(t) PROVE TasksOK'
  <2>1. local[t] \in Local /\ Needs(t, pc[t], local[t])  BY DEF TasksOK
  <2>0. t \in Syncs /\ t # Restore /\ t \notin Viewers  BY <1>3, <2>1, KindOfStep, Kinds DEF GetDevice, Needs
  <2>2. inner.device_id \in Devices \cup {NoDevice}  BY DEF SharedOK, RuntimeConfigInner
  <2>3. CASE inner.device_id = NoDevice  BY <1>3, <2>3, EndsTyped DEF GetDevice
  <2>4. CASE inner.device_id # NoDevice
    <3> DEFINE l == [local[t] EXCEPT !.device_id = inner.device_id]
    <3>1. l \in Local /\ l.device_id = inner.device_id  BY <2>1, <2>2, LocalUpdates DEF Local
    <3>2. Goes(t, "fetch", l)  BY <1>3, <2>4 DEF GetDevice
    <3>3. Needs(t, "fetch", l)  BY <2>0, <2>4, <3>1 DEF Needs, StepsOf, SyncSteps, RestoreSteps, ViewerSteps
    <3> QED BY <3>1, <3>2, <3>3, GoesTyped
  <2> QED BY <2>3, <2>4
<1>4. ASSUME NEW t \in Tasks, StoreProfile(t) PROVE TasksOK'
  <2>1. local[t] \in Local /\ Needs(t, pc[t], local[t])  BY DEF TasksOK
  <2>0. t \in Syncs /\ t # Restore /\ t \notin Viewers  BY <1>4, <2>1, KindOfStep, Kinds DEF StoreProfile, Needs
  <2> QED BY <1>4, <2>0, <2>1, GoesTyped DEF StoreProfile, Needs, StepsOf, SyncSteps, RestoreSteps, ViewerSteps
<1>5. ASSUME NEW t \in Tasks, ApplyProfile(t) PROVE TasksOK'
  <2>1. local[t] \in Local /\ Needs(t, pc[t], local[t])  BY DEF TasksOK
  <2>0. t = Restore \/ (t \in Syncs /\ t # Restore /\ t \notin Viewers)  BY <1>5, <2>1, KindOfStep, Kinds DEF ApplyProfile, Needs
  <2>2. CASE t = Restore  BY <1>5, <2>1, <2>2, Kinds, GoesTyped DEF ApplyProfile, Needs, StepsOf, SyncSteps, RestoreSteps, ViewerSteps
  <2>3. CASE t \in Syncs /\ t # Restore /\ t \notin Viewers  BY <1>5, <2>1, <2>3, GoesTyped DEF ApplyProfile, AfterProfile, Needs, StepsOf, SyncSteps, RestoreSteps, ViewerSteps
  <2> QED BY <2>0, <2>2, <2>3
<1>6. ASSUME NEW t \in Tasks, StoreLane(t) PROVE TasksOK'
  <2>1. local[t] \in Local /\ Needs(t, pc[t], local[t])  BY DEF TasksOK
  <2>0. t \in Syncs /\ t # Restore /\ t \notin Viewers  BY <1>6, <2>1, KindOfStep, Kinds DEF StoreLane, Needs
  <2> QED BY <1>6, <2>0, <2>1, GoesTyped DEF StoreLane, Needs, StepsOf, SyncSteps, RestoreSteps, ViewerSteps
<1>7. ASSUME NEW t \in Tasks, ApplyLane(t) PROVE TasksOK'
  <2>1. local[t] \in Local /\ Needs(t, pc[t], local[t])  BY DEF TasksOK
  <2>0. t = Restore \/ (t \in Syncs /\ t # Restore /\ t \notin Viewers)  BY <1>7, <2>1, KindOfStep, Kinds DEF ApplyLane, Needs
  <2>2. CASE t = Restore  BY <1>7, <2>2, EndsTyped DEF ApplyLane
  <2>3. CASE t \in Syncs /\ t # Restore /\ t \notin Viewers  BY <1>7, <2>1, <2>3, GoesTyped DEF ApplyLane, Needs, StepsOf, SyncSteps, RestoreSteps, ViewerSteps
  <2> QED BY <2>0, <2>2, <2>3
<1>8. ASSUME NEW t \in Tasks, StoreDevice(t) PROVE TasksOK'
  BY <1>8, EndsTyped DEF StoreDevice
<1>9. ASSUME NEW t \in Tasks, StoreFails(t) PROVE TasksOK'
  BY <1>9, EndsTyped DEF StoreFails
<1>10. ASSUME NEW t \in Tasks, TakeGuard(t) PROVE TasksOK'
  <2>1. local[t] \in Local /\ Needs(t, pc[t], local[t])  BY DEF TasksOK
  <2>0. t \in Viewers /\ t # Restore /\ t \notin Syncs  BY <1>10, <2>1, KindOfStep, Kinds DEF TakeGuard, Needs
  <2>2. [local[t] EXCEPT !.view = inner] \in Local  BY <2>1, LocalUpdates DEF SharedOK
  <2> QED BY <1>10, <2>0, <2>2, GoesTyped DEF TakeGuard, Needs, StepsOf, SyncSteps, RestoreSteps, ViewerSteps
<1>11. ASSUME NEW t \in Tasks, ReadTtl(t) PROVE TasksOK'
  <2>1. local[t] \in Local /\ Needs(t, pc[t], local[t])  BY DEF TasksOK
  <2>0. t \in Viewers /\ t # Restore /\ t \notin Syncs  BY <1>11, <2>1, KindOfStep, Kinds DEF ReadTtl, Needs
  <2>2. TtlHours(inner.deployment_profile) \in Nat
    BY RuntimeAssumption DEF SharedOK, RuntimeConfigInner, TtlHours, Profile
  <2>3. [local[t] EXCEPT !.offline_cache_ttl_hours = TtlHours(inner.deployment_profile)] \in Local
    BY <2>1, <2>2, LocalUpdates
  <2> QED BY <1>11, <2>0, <2>3, GoesTyped DEF ReadTtl, Needs, StepsOf, SyncSteps, RestoreSteps, ViewerSteps
<1>12. ASSUME NEW t \in Tasks, ReadBiometric(t) PROVE TasksOK'
  <2>1. local[t] \in Local /\ Needs(t, pc[t], local[t])  BY DEF TasksOK
  <2>0. t \in Viewers /\ t # Restore /\ t \notin Syncs  BY <1>12, <2>1, KindOfStep, Kinds DEF ReadBiometric, Needs
  <2>2. Biometric(inner.deployment_profile) \in BOOLEAN
    BY RuntimeAssumption DEF SharedOK, RuntimeConfigInner, Biometric, Profile
  <2>3. [local[t] EXCEPT !.biometric = Biometric(inner.deployment_profile)] \in Local
    BY <2>1, <2>2, LocalUpdates
  <2> QED BY <1>12, <2>0, <2>3, GoesTyped DEF ReadBiometric, Needs, StepsOf, SyncSteps, RestoreSteps, ViewerSteps
<1>13. ASSUME NEW t \in Tasks, Reply(t) PROVE TasksOK'
  BY <1>13, EndsTyped DEF Reply
<1>14. ASSUME NEW t \in Tasks, Rollout(t) PROVE TasksOK'
  <2>1. local[t] \in Local /\ Needs(t, pc[t], local[t])  BY DEF TasksOK
  <2>0. t \in Viewers /\ t # Restore /\ t \notin Syncs  BY <1>14, <2>1, KindOfStep, Kinds DEF Rollout, Needs
  <2>2. CASE Ends(t)  BY <2>2, EndsTyped
  <2>3. CASE Goes(t, "download", [Unread EXCEPT !.version = local[t].version])
    <3>1. [Unread EXCEPT !.version = local[t].version] \in Local
      BY <2>1, NothingRead, LocalUpdates DEF Local
    <3> QED BY <2>0, <2>3, <3>1, GoesTyped DEF Needs, StepsOf, SyncSteps, RestoreSteps, ViewerSteps
  <2> QED BY <1>14, <2>2, <2>3 DEF Rollout
<1>15. ASSUME NEW t \in Tasks, Fetch(t) PROVE TasksOK'
  <2>1. local[t] \in Local /\ Needs(t, pc[t], local[t])  BY DEF TasksOK
  <2>0. t \in Syncs /\ t # Restore /\ t \notin Viewers  BY <1>15, <2>1, KindOfStep, Kinds DEF Fetch, Needs
  <2>2. PICK a \in Answers :
          Goes(t, IF a.deployment_profile # NoProfile THEN "store_profile" ELSE AfterProfile(a),
               [local[t] EXCEPT !.answer = a])
    BY <1>15 DEF Fetch
  <2> DEFINE l == [local[t] EXCEPT !.answer = a]
             next == IF a.deployment_profile # NoProfile THEN "store_profile" ELSE AfterProfile(a)
  <2>3. l \in Local /\ l.answer = a /\ l.device_id = local[t].device_id
    BY <2>1, LocalUpdates, RuntimeAssumption DEF Local
  <2>4. local[t].device_id # NoDevice  BY <1>15, <2>0, <2>1 DEF Fetch, Needs
  <2>5. Needs(t, next, l)  BY <2>0, <2>3, <2>4 DEF AfterProfile, Needs, StepsOf, SyncSteps, RestoreSteps, ViewerSteps
  <2> HIDE DEF l, next
  <2> QED BY <2>2, <2>3, <2>5, GoesTyped DEF l, next
<1>16. ASSUME NEW t \in Tasks, FetchFails(t) PROVE TasksOK'
  BY <1>16, EndsTyped DEF FetchFails
<1>17. ASSUME NEW t \in Tasks, FindUpdate(t) PROVE TasksOK'
  <2>1. local[t] \in Local /\ Needs(t, pc[t], local[t])  BY DEF TasksOK
  <2>0. t \in Viewers /\ t # Restore /\ t \notin Syncs  BY <1>17, <2>1, KindOfStep, Kinds DEF FindUpdate, Needs
  <2>2. CASE Ends(t)  BY <2>2, EndsTyped
  <2>3. ASSUME NEW v \in Offered, Goes(t, "snapshot", [local[t] EXCEPT !.version = v]) PROVE TasksOK'
    <3>1. [local[t] EXCEPT !.version = v] \in Local  BY <2>1, LocalUpdates, RuntimeAssumption
    <3> QED BY <2>0, <2>3, <3>1, GoesTyped DEF Needs, StepsOf, SyncSteps, RestoreSteps, ViewerSteps
  <2> QED BY <1>17, <2>2, <2>3 DEF FindUpdate
<1>18. ASSUME NEW t \in Tasks, Install(t) PROVE TasksOK'
  BY <1>18, EndsTyped DEF Install
<1>19. ASSUME NEW t \in Tasks, BeginQuery(t) PROVE TasksOK'
  BY <1>19, GoesTyped, NothingRead, Kinds DEF BeginQuery, Needs, StepsOf, SyncSteps, RestoreSteps, ViewerSteps
<1>20. ASSUME NEW t \in Tasks, BeginInstall(t) PROVE TasksOK'
  BY <1>20, GoesTyped, NothingRead, Kinds DEF BeginInstall, Needs, StepsOf, SyncSteps, RestoreSteps, ViewerSteps
<1>21. ASSUME NEW t \in Tasks, NEW d \in Devices, BeginSync(t, d) PROVE TasksOK'
  <2>1. t \in Syncs /\ t # Restore /\ t \notin Viewers  BY <1>21, Kinds DEF BeginSync, Syncs
  <2>2. [Unread EXCEPT !.device_id = d] \in Local /\ [Unread EXCEPT !.device_id = d].device_id = d
    BY NothingRead, LocalUpdates DEF Local
  <2>3. d # NoDevice  BY RuntimeAssumption
  <2> QED BY <1>21, <2>1, <2>2, <2>3, GoesTyped DEF BeginSync, Needs, StepsOf, SyncSteps, RestoreSteps, ViewerSteps
<1>22. CASE ReadDeviceRow
  <2>1. Restore \in Tasks /\ local[Restore] \in Local /\ Restore \notin Syncs
    BY RuntimeAssumption DEF TasksOK, Tasks, Writers
  <2>2. CASE Ends(Restore)  BY <2>1, <2>2, EndsTyped
  <2>3. CASE Goes(Restore, "profile_row", [local[Restore] EXCEPT !.row = deviceRow])
    <3>1. [local[Restore] EXCEPT !.row = deviceRow] \in Local  BY <2>1, LocalUpdates DEF SharedOK
    <3> QED BY <2>1, <2>3, <3>1, GoesTyped DEF Needs, StepsOf, SyncSteps, RestoreSteps, ViewerSteps
  <2> QED BY <1>22, <2>2, <2>3 DEF ReadDeviceRow
<1>23. CASE ReadProfileRow
  <2>1. Restore \in Tasks /\ local[Restore] \in Local /\ Restore \notin Syncs
    BY RuntimeAssumption DEF TasksOK, Tasks, Writers
  <2>2. CASE Ends(Restore)  BY <2>1, <2>2, EndsTyped
  <2>3. CASE ~Ends(Restore)
    <3> DEFINE id == local[Restore].row.profile_id
               l == [local[Restore] EXCEPT !.answer.deployment_profile = profileRows[id]]
    <3>1. id # NoId /\ profileRows[id] # NoProfile /\ Goes(Restore, "apply_profile", l)
      BY <1>23, <2>3 DEF ReadProfileRow
    <3>2. id \in ProfileIds  BY <2>1, <3>1 DEF Local, DeviceRow
    <3>3. profileRows[id] \in Profiles  BY <3>1, <3>2 DEF SharedOK
    <3>4. l \in Local  BY <2>1, <3>3, LocalUpdates
    <3>5. l.answer.deployment_profile = profileRows[id]  BY <2>1, <3>3 DEF Local, Answer
    <3>6. Needs(Restore, "apply_profile", l)  BY <2>1, <3>1, <3>5 DEF Needs, StepsOf, SyncSteps, RestoreSteps, ViewerSteps
    <3> HIDE DEF l
    <3> QED BY <2>1, <3>1, <3>4, <3>6, GoesTyped
  <2> QED BY <2>2, <2>3
<1>24. CASE ReadLaneRows
  <2>1. Restore \in Tasks /\ local[Restore] \in Local /\ Restore \notin Syncs
    BY RuntimeAssumption DEF TasksOK, Tasks, Writers
  <2>2. CASE Ends(Restore)  BY <2>1, <2>2, EndsTyped
  <2>3. ASSUME NEW n \in LanesOf(local[Restore].row),
               Goes(Restore, "apply_lane", [local[Restore] EXCEPT !.answer.lane = n])
        PROVE  TasksOK'
    <3> DEFINE l == [local[Restore] EXCEPT !.answer.lane = n]
    <3>1. n \in Lanes  BY DEF LanesOf
    <3>2. l \in Local  BY <2>1, <3>1, LocalUpdates
    <3>3. l.answer.lane = n  BY <2>1, <3>1 DEF Local, Answer
    <3>4. Needs(Restore, "apply_lane", l)  BY <2>1, <3>1, <3>3, RuntimeAssumption DEF Needs, StepsOf, SyncSteps, RestoreSteps, ViewerSteps
    <3> HIDE DEF l
    <3> QED BY <2>1, <2>3, <3>2, <3>4, GoesTyped DEF l
  <2> QED BY <1>24, <2>2, <2>3 DEF ReadLaneRows
<1>25. CASE RestoreFails
  BY <1>25, EndsTyped DEF RestoreFails, Tasks, Writers
<1>26. CASE Crash
  <2>1. local' = [t \in Tasks |-> Unread]  BY <1>26 DEF Crash
  <2>2. pc' = [t \in Tasks |-> AtStart(t, IF pc[t] = "idle" THEN "idle" ELSE "done")]
    BY <1>26 DEF Crash
  <2>3. pc' \in [Tasks -> AllSteps]
    BY <2>2 DEF AtStart, AllSteps, SyncSteps, RestoreSteps, ViewerSteps
  <2>4. ASSUME NEW t \in Tasks PROVE Needs(t, pc'[t], local'[t])
    <3>1. Startup \notin Viewers /\ Startup # Restore  BY RuntimeAssumption DEF Syncs
    <3>2. t # Restore => pc'[t] \in {"get_device", "idle", "done"} /\ (pc'[t] = "get_device" => t = Startup)
      BY <2>2 DEF AtStart
    <3>3. t = Restore => t \notin Syncs  BY Kinds
    <3>4. ASSUME t = Restore PROVE pc'[t] = "device_row"  BY <2>2, <3>4 DEF AtStart
    <3> QED BY <2>1, <3>1, <3>2, <3>3, <3>4, Kinds DEF Needs, StepsOf, SyncSteps, RestoreSteps, ViewerSteps
  <2> QED BY <2>1, <2>3, <2>4, NothingRead DEF TasksOK, Needs, StepsOf
<1>27. CASE UNCHANGED vars
  BY <1>27 DEF vars, TasksOK, Needs
<1> QED BY <1>1, <1>2, <1>3, <1>4, <1>5, <1>6, <1>7, <1>8, <1>9, <1>10, <1>11, <1>12, <1>13, <1>14, <1>15, <1>16, <1>17, <1>18, <1>19, <1>20, <1>21, <1>22, <1>23, <1>24, <1>25, <1>26, <1>27 DEF Next, Works

(* Rows, runtime configuration and lock keep their types.                  *)
LEMMA SharedStep ==
  ASSUME TasksOK, SharedOK, [Next]_vars
  PROVE  SharedOK'
<1> USE DEF SharedOK
<1>1. ASSUME NEW t \in Tasks, Wait(t) PROVE SharedOK'
  BY <1>1 DEF Wait, rowVars, historyVars
<1>2. ASSUME NEW t \in Tasks, SetDevice(t) PROVE SharedOK'
  <2>1. local[t] \in Local /\ Needs(t, pc[t], local[t])  BY DEF TasksOK
  <2>2. inner' = [inner EXCEPT !.device_id = local[t].device_id]  BY <1>2 DEF SetDevice
  <2>3. inner' \in RuntimeConfigInner  BY <2>1, <2>2 DEF RuntimeConfigInner, Local
  <2> QED BY <1>2, <2>3, EntersTyped DEF SetDevice, rowVars
<1>3. ASSUME NEW t \in Tasks, GetDevice(t) PROVE SharedOK'
  BY <1>3, EntersTyped DEF GetDevice, rowVars, historyVars
<1>4. ASSUME NEW t \in Tasks, StoreProfile(t) PROVE SharedOK'
  <2>1. local[t] \in Local /\ Needs(t, pc[t], local[t])  BY DEF TasksOK
  <2>2. local[t].answer \in Answer  BY <2>1 DEF Local
  <2>3. local[t].answer.deployment_profile \in Profiles
    BY <1>4, <2>1, <2>2 DEF StoreProfile, Needs, Answer
  <2>4. Stored(local[t].answer.deployment_profile) \in Profiles  BY <2>3, RuntimeAssumption
  <2> QED BY <1>4, <2>4 DEF StoreProfile, historyVars
<1>5. ASSUME NEW t \in Tasks, ApplyProfile(t) PROVE SharedOK'
  <2>1. local[t] \in Local /\ Needs(t, pc[t], local[t])  BY DEF TasksOK
  <2>2. local[t].answer \in Answer  BY <2>1 DEF Local
  <2>3. inner' = [inner EXCEPT !.deployment_profile = local[t].answer.deployment_profile]
    BY <1>5 DEF ApplyProfile
  <2>4. inner' \in RuntimeConfigInner  BY <2>2, <2>3 DEF RuntimeConfigInner, Answer
  <2> QED BY <1>5, <2>4, EntersTyped DEF ApplyProfile, rowVars
<1>6. ASSUME NEW t \in Tasks, StoreLane(t) PROVE SharedOK'
  <2>1. local[t] \in Local /\ Needs(t, pc[t], local[t])  BY DEF TasksOK
  <2>2. local[t].answer \in Answer  BY <2>1 DEF Local
  <2>3. local[t].answer.lane \in Lanes  BY <1>6, <2>1, <2>2 DEF StoreLane, Needs, Answer
  <2> QED BY <1>6, <2>3 DEF StoreLane, historyVars
<1>7. ASSUME NEW t \in Tasks, ApplyLane(t) PROVE SharedOK'
  <2>1. local[t] \in Local /\ Needs(t, pc[t], local[t])  BY DEF TasksOK
  <2>2. local[t].answer \in Answer  BY <2>1 DEF Local
  <2> DEFINE n == local[t].answer.lane
  <2>3. n \in Lanes  BY <1>7, <2>1, <2>2 DEF ApplyLane, Needs, Answer
  <2>4. n.default_policy_id \in Policies \cup {NoPolicy}  BY <2>3, RuntimeAssumption DEF Lane
  <2>5. inner' = [inner EXCEPT !.lane = n,
                               !.active_policy_id = IF n.default_policy_id # NoPolicy
                                                    THEN n.default_policy_id ELSE @]
    BY <1>7 DEF ApplyLane
  <2>6. inner' \in RuntimeConfigInner  BY <2>3, <2>4, <2>5 DEF RuntimeConfigInner
  <2> QED BY <1>7, <2>6, EntersTyped DEF ApplyLane, rowVars
<1>8. ASSUME NEW t \in Tasks, StoreDevice(t) PROVE SharedOK'
  <2>1. local[t] \in Local /\ Needs(t, pc[t], local[t])  BY DEF TasksOK
  <2>2. local[t].answer \in Answer  BY <2>1 DEF Local
  <2>3. deviceRow' \in DeviceRow
    <3> DEFINE a == local[t].answer
    <3>1. a.deployment_profile # NoProfile => a.deployment_profile.id \in ProfileIds
      BY <2>2, RuntimeAssumption DEF Answer, Profile
    <3>2. a.lane # NoLane => a.lane.id \in LaneIds  BY <2>2, RuntimeAssumption DEF Answer, Lane
    <3>3. local[t].device_id \in Devices \cup {NoDevice}  BY <2>1 DEF Local
    <3> QED BY <1>8, <3>1, <3>2, <3>3 DEF StoreDevice, DeviceRow
  <2> QED BY <1>8, <2>2, <2>3, NothingRead DEF StoreDevice
<1>9. ASSUME NEW t \in Tasks, StoreFails(t) PROVE SharedOK'
  BY <1>9 DEF StoreFails, rowVars, historyVars
<1>10. ASSUME NEW t \in Tasks, TakeGuard(t) PROVE SharedOK'
  BY <1>10, EntersTyped DEF TakeGuard, rowVars, historyVars
<1>11. ASSUME NEW t \in Tasks, ReadTtl(t) PROVE SharedOK'
  BY <1>11, EntersTyped DEF ReadTtl, rowVars, historyVars
<1>12. ASSUME NEW t \in Tasks, ReadBiometric(t) PROVE SharedOK'
  BY <1>12, EntersTyped DEF ReadBiometric, rowVars, historyVars
<1>13. ASSUME NEW t \in Tasks, Reply(t) PROVE SharedOK'
  BY <1>13 DEF Reply, rowVars, historyVars
<1>14. ASSUME NEW t \in Tasks, Rollout(t) PROVE SharedOK'
  BY <1>14 DEF Rollout, rowVars, historyVars
<1>15. ASSUME NEW t \in Tasks, Fetch(t) PROVE SharedOK'
  BY <1>15, NothingRead DEF Fetch, rowVars
<1>16. ASSUME NEW t \in Tasks, FetchFails(t) PROVE SharedOK'
  BY <1>16 DEF FetchFails, rowVars, historyVars
<1>17. ASSUME NEW t \in Tasks, FindUpdate(t) PROVE SharedOK'
  BY <1>17 DEF FindUpdate, rowVars, historyVars
<1>18. ASSUME NEW t \in Tasks, Install(t) PROVE SharedOK'
  BY <1>18 DEF Install, rowVars, historyVars
<1>19. ASSUME NEW t \in Tasks, BeginQuery(t) PROVE SharedOK'
  BY <1>19 DEF BeginQuery, rowVars, historyVars
<1>20. ASSUME NEW t \in Tasks, BeginInstall(t) PROVE SharedOK'
  BY <1>20 DEF BeginInstall, rowVars, historyVars
<1>21. ASSUME NEW t \in Tasks, NEW d \in Devices, BeginSync(t, d) PROVE SharedOK'
  BY <1>21 DEF BeginSync, rowVars, historyVars
<1>22. CASE ReadDeviceRow
  BY <1>22 DEF ReadDeviceRow, rowVars, historyVars
<1>23. CASE ReadProfileRow
  BY <1>23 DEF ReadProfileRow, rowVars, historyVars
<1>24. CASE ReadLaneRows
  BY <1>24 DEF ReadLaneRows, rowVars, historyVars
<1>25. CASE RestoreFails
  BY <1>25 DEF RestoreFails, rowVars, historyVars
<1>26. CASE Crash
  BY <1>26, NothingRead, RuntimeAssumption DEF Crash, rowVars
<1>27. CASE UNCHANGED vars
  BY <1>27 DEF vars, rowVars, historyVars
<1> QED BY <1>1, <1>2, <1>3, <1>4, <1>5, <1>6, <1>7, <1>8, <1>9, <1>10, <1>11, <1>12, <1>13, <1>14, <1>15, <1>16, <1>17, <1>18, <1>19, <1>20, <1>21, <1>22, <1>23, <1>24, <1>25, <1>26, <1>27 DEF Next, Works

(* The history variables keep their types.                                 *)
LEMMA HistoryStep ==
  ASSUME HistoryOK, [Next]_vars
  PROVE  HistoryOK'
<1> USE DEF HistoryOK
<1>1. ASSUME NEW t \in Tasks, Wait(t) PROVE HistoryOK'
  BY <1>1 DEF Wait, historyVars
<1>2. ASSUME NEW t \in Tasks, SetDevice(t) PROVE HistoryOK'
  BY <1>2 DEF SetDevice
<1>3. ASSUME NEW t \in Tasks, GetDevice(t) PROVE HistoryOK'
  BY <1>3 DEF GetDevice, historyVars
<1>4. ASSUME NEW t \in Tasks, StoreProfile(t) PROVE HistoryOK'
  BY <1>4 DEF StoreProfile, historyVars
<1>5. ASSUME NEW t \in Tasks, ApplyProfile(t) PROVE HistoryOK'
  BY <1>5 DEF ApplyProfile
<1>6. ASSUME NEW t \in Tasks, StoreLane(t) PROVE HistoryOK'
  BY <1>6 DEF StoreLane, historyVars
<1>7. ASSUME NEW t \in Tasks, ApplyLane(t) PROVE HistoryOK'
  BY <1>7 DEF ApplyLane
<1>8. ASSUME NEW t \in Tasks, StoreDevice(t) PROVE HistoryOK'
  BY <1>8 DEF StoreDevice
<1>9. ASSUME NEW t \in Tasks, StoreFails(t) PROVE HistoryOK'
  BY <1>9 DEF StoreFails, historyVars
<1>10. ASSUME NEW t \in Tasks, TakeGuard(t) PROVE HistoryOK'
  BY <1>10 DEF TakeGuard, historyVars
<1>11. ASSUME NEW t \in Tasks, ReadTtl(t) PROVE HistoryOK'
  BY <1>11 DEF ReadTtl, historyVars
<1>12. ASSUME NEW t \in Tasks, ReadBiometric(t) PROVE HistoryOK'
  BY <1>12 DEF ReadBiometric, historyVars
<1>13. ASSUME NEW t \in Tasks, Reply(t) PROVE HistoryOK'
  BY <1>13 DEF Reply, historyVars
<1>14. ASSUME NEW t \in Tasks, Rollout(t) PROVE HistoryOK'
  BY <1>14 DEF Rollout, historyVars
<1>15. ASSUME NEW t \in Tasks, Fetch(t) PROVE HistoryOK'
  BY <1>15 DEF Fetch
<1>16. ASSUME NEW t \in Tasks, FetchFails(t) PROVE HistoryOK'
  BY <1>16 DEF FetchFails, historyVars
<1>17. ASSUME NEW t \in Tasks, FindUpdate(t) PROVE HistoryOK'
  BY <1>17 DEF FindUpdate, historyVars
<1>18. ASSUME NEW t \in Tasks, Install(t) PROVE HistoryOK'
  BY <1>18 DEF Install, historyVars
<1>19. ASSUME NEW t \in Tasks, BeginQuery(t) PROVE HistoryOK'
  BY <1>19 DEF BeginQuery, historyVars
<1>20. ASSUME NEW t \in Tasks, BeginInstall(t) PROVE HistoryOK'
  BY <1>20 DEF BeginInstall
<1>21. ASSUME NEW t \in Tasks, NEW d \in Devices, BeginSync(t, d) PROVE HistoryOK'
  BY <1>21 DEF BeginSync, Writers, Syncs
<1>22. CASE ReadDeviceRow
  BY <1>22 DEF ReadDeviceRow, historyVars
<1>23. CASE ReadProfileRow
  BY <1>23 DEF ReadProfileRow, historyVars
<1>24. CASE ReadLaneRows
  BY <1>24 DEF ReadLaneRows, historyVars
<1>25. CASE RestoreFails
  BY <1>25 DEF RestoreFails
<1>26. CASE Crash
  BY <1>26 DEF Crash
<1>27. CASE UNCHANGED vars
  BY <1>27 DEF vars, historyVars
<1> QED BY <1>1, <1>2, <1>3, <1>4, <1>5, <1>6, <1>7, <1>8, <1>9, <1>10, <1>11, <1>12, <1>13, <1>14, <1>15, <1>16, <1>17, <1>18, <1>19, <1>20, <1>21, <1>22, <1>23, <1>24, <1>25, <1>26, <1>27 DEF Next, Works

(* Every command and both start tasks are somewhere in their sequence, with *)
(* what their step needs: sync_device_config, restore_from_storage,        *)
(* snapshot and the updater.                                               *)
THEOREM TypeHolds == Spec => []TypeOK
<1>1. Init => TasksOK /\ SharedOK /\ HistoryOK
  <2> SUFFICES ASSUME Init PROVE TasksOK /\ SharedOK /\ HistoryOK  OBVIOUS
  <2>1. SharedOK
    BY NothingRead, RuntimeAssumption DEF Init, SharedOK
  <2>2. HistoryOK  BY DEF Init, HistoryOK
  <2>3. pc \in [Tasks -> AllSteps] /\ local \in [Tasks -> Local]
    BY NothingRead DEF Init, AtStart, AllSteps, SyncSteps, RestoreSteps, ViewerSteps
  <2>4. ASSUME NEW t \in Tasks PROVE Needs(t, pc[t], local[t])
    <3>1. t = Restore => t \notin Syncs  BY Kinds
    <3>2. Startup \notin Viewers  BY RuntimeAssumption
    <3> QED BY <3>1, <3>2, Kinds
         DEF Init, AtStart, Needs, StepsOf, SyncSteps, RestoreSteps, ViewerSteps
  <2> QED BY <2>1, <2>2, <2>3, <2>4 DEF TasksOK
<1>2. TasksOK /\ SharedOK /\ HistoryOK /\ [Next]_vars => (TasksOK /\ SharedOK /\ HistoryOK)'
  BY TasksStep, SharedStep, HistoryStep
<1> QED BY <1>1, <1>2, TypeParts, PTL DEF Spec

-------------------------------------------------------------------------------
\* Nothing in force, and nothing a task is about to name, lacks its row.
HasProfile(p) == p # NoProfile => profileRows[p.id] # NoProfile
HasLane(n)    == n # NoLane => laneRows[n.id] # NoLane

RowsBehind(t) ==
  /\ pc[t] \in {"apply_profile", "lane_rows", "store_lane", "apply_lane", "store_device"} =>
       HasProfile(local[t].answer.deployment_profile)
  /\ pc[t] \in {"apply_lane", "store_device"} => HasLane(local[t].answer.lane)

RowsInv ==
  /\ \A i \in ProfileIds : profileRows[i] # NoProfile => profileRows[i].id = i
  /\ \A i \in LaneIds : laneRows[i] # NoLane => laneRows[i].id = i
  /\ InForceIsStored
  /\ \A t \in Tasks : RowsBehind(t)

\* The rows a step leaves alone, and the ones it adds.
RowsGrow ==
  /\ \A i \in ProfileIds : profileRows[i] # NoProfile => profileRows'[i] # NoProfile
  /\ \A i \in LaneIds : laneRows[i] # NoLane => laneRows'[i] # NoLane

(* A task that moves leaves the others where they are.                     *)
LEMMA GoesAlone ==
  ASSUME TasksOK, NEW t \in Tasks, NEW next, NEW l, Goes(t, next, l)
  PROVE  /\ pc'[t] = next /\ local'[t] = l
         /\ \A u \in Tasks : u # t => pc'[u] = pc[u] /\ local'[u] = local[u]
BY DEF TasksOK, Goes

(* The answer a task has read is of its type, and so are the parts of it.  *)
LEMMA AnswerTyped ==
  ASSUME TasksOK, NEW t \in Tasks
  PROVE  /\ local[t].answer \in Answer
         /\ local[t].answer.deployment_profile \in Profiles \cup {NoProfile}
         /\ local[t].answer.lane \in Lanes \cup {NoLane}
         /\ local[t].answer.deployment_profile \in Profiles =>
              local[t].answer.deployment_profile.id \in ProfileIds
         /\ local[t].answer.lane \in Lanes =>
              /\ local[t].answer.lane.id \in LaneIds
              /\ local[t].answer.lane.deployment_profile_id \in ProfileIds
<1>1. local[t].answer \in Answer  BY DEF TasksOK, Local
<1> QED BY <1>1, RuntimeAssumption DEF Answer, Profile, Lane

(* Rows are not taken away from under a task that does not move.           *)
LEMMA BehindKept ==
  ASSUME TasksOK, RowsGrow, NEW u \in Tasks, RowsBehind(u),
         pc'[u] = pc[u], local'[u] = local[u]
  PROVE  RowsBehind(u)'
BY AnswerTyped DEF RowsGrow, RowsBehind, HasProfile, HasLane

(* What is in force and what the device row names keeps its rows.          *)
LEMMA InForceKept ==
  ASSUME SharedOK, RowsGrow
  PROVE  /\ \A p \in Profiles \cup {NoProfile} : HasProfile(p) => HasProfile(p)'
         /\ \A n \in Lanes \cup {NoLane} : HasLane(n) => HasLane(n)'
         /\ deviceRow.profile_id # NoId /\ profileRows[deviceRow.profile_id] # NoProfile =>
              profileRows'[deviceRow.profile_id] # NoProfile
         /\ deviceRow.lane_id # NoId /\ laneRows[deviceRow.lane_id] # NoLane =>
              laneRows'[deviceRow.lane_id] # NoLane
BY RuntimeAssumption DEF SharedOK, RowsGrow, HasProfile, HasLane, Profile, Lane, DeviceRow

(* Every step keeps a row behind what is in force.                         *)
LEMMA RowsStep ==
  ASSUME TasksOK, SharedOK, RowsInv, [Next]_vars
  PROVE  RowsInv'
<1>1. ASSUME NEW t \in Tasks, Wait(t) PROVE RowsInv'
  BY <1>1 DEF Wait, rowVars, RowsInv, InForceIsStored, RowsBehind, HasProfile, HasLane
<1>2. ASSUME NEW t \in Tasks, SetDevice(t) PROVE RowsInv'
  <2>1. UNCHANGED <<profileRows, laneRows, deviceRow>>  BY <1>2 DEF SetDevice, rowVars
  <2>2. inner'.deployment_profile = inner.deployment_profile /\ inner'.lane = inner.lane
    BY <1>2 DEF SetDevice, SharedOK, RuntimeConfigInner
  <2>3. \A u \in Tasks : RowsBehind(u)'
    BY <1>2, <2>1, GoesAlone DEF SetDevice, RowsBehind, HasProfile, HasLane, RowsInv
  <2> QED BY <2>1, <2>2, <2>3 DEF RowsInv, InForceIsStored
<1>3. ASSUME NEW t \in Tasks, GetDevice(t) PROVE RowsInv'
  <2>1. UNCHANGED <<profileRows, laneRows, deviceRow, inner>>  BY <1>3 DEF GetDevice, rowVars, Goes, Ends
  <2>2. \A u \in Tasks : RowsBehind(u)'
    BY <1>3, <2>1, GoesAlone DEF GetDevice, RowsBehind, HasProfile, HasLane, RowsInv, Ends
  <2> QED BY <2>1, <2>2 DEF RowsInv, InForceIsStored
<1>4. ASSUME NEW t \in Tasks, StoreProfile(t) PROVE RowsInv'
  <2> DEFINE a == local[t].answer
  <2> DEFINE p == a.deployment_profile
  <2>1. UNCHANGED <<laneRows, deviceRow, inner>>  BY <1>4 DEF StoreProfile
  <2>2. p \in Profiles /\ p.id \in ProfileIds
    BY <1>4, AnswerTyped DEF StoreProfile, TasksOK, Needs
  <2>3. Stored(p).id = p.id /\ Stored(p) # NoProfile
    BY <2>2, RuntimeAssumption DEF Stored, Profile
  <2>4. profileRows' = [profileRows EXCEPT ![p.id] = Stored(p)]  BY <1>4 DEF StoreProfile
  <2>5. \A i \in ProfileIds : profileRows'[i] = IF i = p.id THEN Stored(p) ELSE profileRows[i]
    BY <2>4 DEF SharedOK
  <2>6. RowsGrow  BY <2>1, <2>3, <2>5 DEF RowsGrow
  <2>7. pc'[t] = "apply_profile" /\ local'[t] = local[t]  BY <1>4, GoesAlone DEF StoreProfile
  <2>8. RowsBehind(t)'  BY <2>2, <2>3, <2>5, <2>7 DEF RowsBehind, HasProfile
  <2>9. \A u \in Tasks : u # t => RowsBehind(u)'
    BY <1>4, <2>6, GoesAlone, BehindKept DEF StoreProfile, RowsInv
  <2>10. InForceIsStored'
    <3>1. inner.deployment_profile \in Profiles \cup {NoProfile} /\ inner.lane \in Lanes \cup {NoLane}
      BY DEF SharedOK, RuntimeConfigInner
    <3>2. \A i \in LaneIds : laneRows[i] # NoLane => laneRows[i].deployment_profile_id \in ProfileIds
      BY RuntimeAssumption DEF SharedOK, Lane
    <3>3. \A i \in LaneIds : laneRows[i] # NoLane =>
             profileRows'[laneRows[i].deployment_profile_id] # NoProfile
      BY <2>6, <3>2 DEF RowsGrow, RowsInv, InForceIsStored
    <3> QED BY <2>1, <2>6, <3>1, <3>3, InForceKept
         DEF InForceIsStored, RowsInv, HasProfile, HasLane
  <2> QED BY <2>1, <2>3, <2>5, <2>8, <2>9, <2>10 DEF RowsInv
<1>5. ASSUME NEW t \in Tasks, ApplyProfile(t) PROVE RowsInv'
  <2> DEFINE a == local[t].answer
  <2>1. UNCHANGED <<profileRows, laneRows, deviceRow>>  BY <1>5 DEF ApplyProfile, rowVars
  <2>2. inner'.deployment_profile = a.deployment_profile /\ inner'.lane = inner.lane
    BY <1>5 DEF ApplyProfile, SharedOK, RuntimeConfigInner
  <2>3. HasProfile(a.deployment_profile)  BY <1>5 DEF ApplyProfile, RowsInv, RowsBehind
  <2>4. local'[t].answer = a /\ pc'[t] \in {"lane_rows", "store_lane", "store_device"}
        /\ (pc'[t] = "store_device" => a.lane = NoLane \/ t = Restore)
    BY <1>5, GoesAlone DEF ApplyProfile, AfterProfile
  <2>5. pc'[t] = "store_device" => t # Restore  BY <1>5, GoesAlone DEF ApplyProfile
  <2>6. RowsBehind(t)'  BY <2>1, <2>3, <2>4, <2>5 DEF RowsBehind, HasProfile, HasLane
  <2>7. \A u \in Tasks : u # t => RowsBehind(u)'
    BY <1>5, <2>1, GoesAlone DEF ApplyProfile, RowsBehind, HasProfile, HasLane, RowsInv
  <2> QED BY <2>1, <2>2, <2>3, <2>6, <2>7 DEF RowsInv, InForceIsStored, HasProfile
<1>6. ASSUME NEW t \in Tasks, StoreLane(t) PROVE RowsInv'
  <2> DEFINE a == local[t].answer
  <2> DEFINE n == a.lane
  <2>1. UNCHANGED <<profileRows, deviceRow, inner>>  BY <1>6 DEF StoreLane
  <2>2. n \in Lanes /\ n.id \in LaneIds /\ n # NoLane
    BY <1>6, AnswerTyped DEF StoreLane, TasksOK, Needs
  <2>3. profileRows[n.deployment_profile_id] # NoProfile  BY <1>6 DEF StoreLane
  <2>4. laneRows' = [laneRows EXCEPT ![n.id] = n]  BY <1>6 DEF StoreLane
  <2>5. \A i \in LaneIds : laneRows'[i] = IF i = n.id THEN n ELSE laneRows[i]
    BY <2>4 DEF SharedOK
  <2>6. RowsGrow  BY <2>1, <2>2, <2>5 DEF RowsGrow
  <2>7. pc[t] = "store_lane" /\ pc'[t] = "apply_lane" /\ local'[t] = local[t]
    BY <1>6, GoesAlone DEF StoreLane
  <2>8. RowsBehind(t)'
    BY <2>1, <2>2, <2>5, <2>7 DEF RowsBehind, HasProfile, HasLane, RowsInv
  <2>9. \A u \in Tasks : u # t => RowsBehind(u)'
    BY <1>6, <2>6, GoesAlone, BehindKept DEF StoreLane, RowsInv
  <2>10. InForceIsStored'
    <3>1. inner.lane \in Lanes \cup {NoLane}  BY DEF SharedOK, RuntimeConfigInner
    <3>2. \A i \in LaneIds : laneRows'[i] # NoLane =>
             profileRows[laneRows'[i].deployment_profile_id] # NoProfile
      BY <2>3, <2>5 DEF RowsInv, InForceIsStored
    <3> QED BY <2>1, <2>6, <3>1, <3>2, InForceKept
         DEF InForceIsStored, RowsInv, HasProfile, HasLane
  <2> QED BY <2>1, <2>2, <2>5, <2>8, <2>9, <2>10 DEF RowsInv
<1>7. ASSUME NEW t \in Tasks, ApplyLane(t) PROVE RowsInv'
  <2> DEFINE a == local[t].answer
  <2>1. UNCHANGED <<profileRows, laneRows, deviceRow>>  BY <1>7 DEF ApplyLane, rowVars
  <2>2. inner'.deployment_profile = inner.deployment_profile /\ inner'.lane = a.lane
    BY <1>7 DEF ApplyLane, SharedOK, RuntimeConfigInner
  <2>3. HasLane(a.lane) /\ HasProfile(a.deployment_profile)
    BY <1>7 DEF ApplyLane, RowsInv, RowsBehind
  <2>4. pc'[t] = "done" \/ (pc'[t] = "store_device" /\ local'[t].answer = a)
    BY <1>7, GoesAlone DEF ApplyLane, Ends
  <2>5. RowsBehind(t)'  BY <2>1, <2>3, <2>4 DEF RowsBehind, HasProfile, HasLane
  <2>6. \A u \in Tasks : u # t => RowsBehind(u)'
    BY <1>7, <2>1, GoesAlone DEF ApplyLane, Ends, RowsBehind, HasProfile, HasLane, RowsInv
  <2> QED BY <2>1, <2>2, <2>3, <2>5, <2>6 DEF RowsInv, InForceIsStored, HasLane
<1>8. ASSUME NEW t \in Tasks, StoreDevice(t) PROVE RowsInv'
  <2> DEFINE a == local[t].answer
  <2>1. UNCHANGED <<profileRows, laneRows, inner>>  BY <1>8 DEF StoreDevice
  <2>2. HasProfile(a.deployment_profile) /\ HasLane(a.lane)
    BY <1>8 DEF StoreDevice, RowsInv, RowsBehind
  <2>3. /\ deviceRow'.profile_id = IF a.deployment_profile = NoProfile THEN NoId
                                   ELSE a.deployment_profile.id
        /\ deviceRow'.lane_id = IF a.lane = NoLane THEN NoId ELSE a.lane.id
    BY <1>8 DEF StoreDevice
  <2>4. \A u \in Tasks : RowsBehind(u)'
    BY <1>8, <2>1, GoesAlone DEF StoreDevice, Ends, RowsBehind, HasProfile, HasLane, RowsInv
  <2> QED BY <2>1, <2>2, <2>3, <2>4 DEF RowsInv, InForceIsStored, HasProfile, HasLane
<1>9. ASSUME NEW t \in Tasks, StoreFails(t) PROVE RowsInv'
  <2>1. UNCHANGED <<profileRows, laneRows, deviceRow, inner>>  BY <1>9 DEF StoreFails, rowVars, Goes, Ends
  <2>2. \A u \in Tasks : RowsBehind(u)'
    BY <1>9, <2>1, GoesAlone DEF StoreFails, RowsBehind, HasProfile, HasLane, RowsInv, Ends
  <2> QED BY <2>1, <2>2 DEF RowsInv, InForceIsStored
<1>10. ASSUME NEW t \in Tasks, TakeGuard(t) PROVE RowsInv'
  <2>1. UNCHANGED <<profileRows, laneRows, deviceRow, inner>>  BY <1>10 DEF TakeGuard, rowVars, Goes
  <2>2. \A u \in Tasks : RowsBehind(u)'
    BY <1>10, <2>1, GoesAlone DEF TakeGuard, RowsBehind, HasProfile, HasLane, RowsInv
  <2> QED BY <2>1, <2>2 DEF RowsInv, InForceIsStored
<1>11. ASSUME NEW t \in Tasks, ReadTtl(t) PROVE RowsInv'
  <2>1. UNCHANGED <<profileRows, laneRows, deviceRow, inner>>  BY <1>11 DEF ReadTtl, rowVars, Goes
  <2>2. \A u \in Tasks : RowsBehind(u)'
    BY <1>11, <2>1, GoesAlone DEF ReadTtl, RowsBehind, HasProfile, HasLane, RowsInv
  <2> QED BY <2>1, <2>2 DEF RowsInv, InForceIsStored
<1>12. ASSUME NEW t \in Tasks, ReadBiometric(t) PROVE RowsInv'
  <2>1. UNCHANGED <<profileRows, laneRows, deviceRow, inner>>  BY <1>12 DEF ReadBiometric, rowVars, Goes
  <2>2. \A u \in Tasks : RowsBehind(u)'
    BY <1>12, <2>1, GoesAlone DEF ReadBiometric, RowsBehind, HasProfile, HasLane, RowsInv
  <2> QED BY <2>1, <2>2 DEF RowsInv, InForceIsStored
<1>13. ASSUME NEW t \in Tasks, Reply(t) PROVE RowsInv'
  <2>1. UNCHANGED <<profileRows, laneRows, deviceRow, inner>>  BY <1>13 DEF Reply, rowVars, Goes, Ends
  <2>2. \A u \in Tasks : RowsBehind(u)'
    BY <1>13, <2>1, GoesAlone DEF Reply, RowsBehind, HasProfile, HasLane, RowsInv, Ends
  <2> QED BY <2>1, <2>2 DEF RowsInv, InForceIsStored
<1>14. ASSUME NEW t \in Tasks, Rollout(t) PROVE RowsInv'
  <2>1. UNCHANGED <<profileRows, laneRows, deviceRow, inner>>  BY <1>14 DEF Rollout, rowVars, Goes, Ends
  <2>2. \A u \in Tasks : RowsBehind(u)'
    BY <1>14, <2>1, GoesAlone DEF Rollout, RowsBehind, HasProfile, HasLane, RowsInv, Ends
  <2> QED BY <2>1, <2>2 DEF RowsInv, InForceIsStored
<1>15. ASSUME NEW t \in Tasks, Fetch(t) PROVE RowsInv'
  <2>1. UNCHANGED <<profileRows, laneRows, deviceRow, inner>>  BY <1>15 DEF Fetch, rowVars
  <2>2. PICK a \in Answers :
          Goes(t, IF a.deployment_profile # NoProfile THEN "store_profile" ELSE AfterProfile(a),
               [local[t] EXCEPT !.answer = a])
    BY <1>15 DEF Fetch
  <2>3. local'[t].answer = a
    <3>1. local'[t] = [local[t] EXCEPT !.answer = a]  BY <2>2, GoesAlone
    <3> QED BY <3>1 DEF TasksOK, Local
  <2>4. /\ pc'[t] \in {"store_profile", "store_lane", "store_device"}
        /\ pc'[t] # "store_profile" => a.deployment_profile = NoProfile
        /\ pc'[t] = "store_device" => a.lane = NoLane
    BY <2>2, GoesAlone DEF AfterProfile
  <2>5. RowsBehind(t)'  BY <2>3, <2>4 DEF RowsBehind, HasProfile, HasLane
  <2>6. \A u \in Tasks : u # t => RowsBehind(u)'
    BY <2>1, <2>2, GoesAlone DEF RowsBehind, HasProfile, HasLane, RowsInv
  <2> QED BY <2>1, <2>5, <2>6 DEF RowsInv, InForceIsStored
<1>16. ASSUME NEW t \in Tasks, FetchFails(t) PROVE RowsInv'
  <2>1. UNCHANGED <<profileRows, laneRows, deviceRow, inner>>  BY <1>16 DEF FetchFails, rowVars, Goes, Ends
  <2>2. \A u \in Tasks : RowsBehind(u)'
    BY <1>16, <2>1, GoesAlone DEF FetchFails, RowsBehind, HasProfile, HasLane, RowsInv, Ends
  <2> QED BY <2>1, <2>2 DEF RowsInv, InForceIsStored
<1>17. ASSUME NEW t \in Tasks, FindUpdate(t) PROVE RowsInv'
  <2>1. UNCHANGED <<profileRows, laneRows, deviceRow, inner>>  BY <1>17 DEF FindUpdate, rowVars
  <2>2. PICK next, l : next \in {"snapshot", "done"} /\ Goes(t, next, l)
    <3>1. CASE Goes(t, "done", Unread)
      BY <3>1
    <3>2. ASSUME NEW read, Goes(t, "snapshot", read)
          PROVE  \E next, l : next \in {"snapshot", "done"} /\ Goes(t, next, l)
      BY <3>2
    <3> QED BY <1>17, <3>1, <3>2 DEF FindUpdate, Ends
  <2>3. \A u \in Tasks : RowsBehind(u)'
    BY <2>1, <2>2, GoesAlone DEF RowsBehind, HasProfile, HasLane, RowsInv
  <2> QED BY <2>1, <2>3 DEF RowsInv, InForceIsStored
<1>18. ASSUME NEW t \in Tasks, Install(t) PROVE RowsInv'
  <2>1. UNCHANGED <<profileRows, laneRows, deviceRow, inner>>  BY <1>18 DEF Install, rowVars, Goes, Ends
  <2>2. \A u \in Tasks : RowsBehind(u)'
    BY <1>18, <2>1, GoesAlone DEF Install, RowsBehind, HasProfile, HasLane, RowsInv, Ends
  <2> QED BY <2>1, <2>2 DEF RowsInv, InForceIsStored
<1>19. ASSUME NEW t \in Tasks, BeginQuery(t) PROVE RowsInv'
  <2>1. UNCHANGED <<profileRows, laneRows, deviceRow, inner>>  BY <1>19 DEF BeginQuery, rowVars, Goes
  <2>2. \A u \in Tasks : RowsBehind(u)'
    BY <1>19, <2>1, GoesAlone DEF BeginQuery, RowsBehind, HasProfile, HasLane, RowsInv
  <2> QED BY <2>1, <2>2 DEF RowsInv, InForceIsStored
<1>20. ASSUME NEW t \in Tasks, BeginInstall(t) PROVE RowsInv'
  <2>1. UNCHANGED <<profileRows, laneRows, deviceRow, inner>>  BY <1>20 DEF BeginInstall, rowVars, Goes
  <2>2. \A u \in Tasks : RowsBehind(u)'
    BY <1>20, <2>1, GoesAlone DEF BeginInstall, RowsBehind, HasProfile, HasLane, RowsInv
  <2> QED BY <2>1, <2>2 DEF RowsInv, InForceIsStored
<1>21. ASSUME NEW t \in Tasks, NEW d \in Devices, BeginSync(t, d) PROVE RowsInv'
  <2>1. UNCHANGED <<profileRows, laneRows, deviceRow, inner>>  BY <1>21 DEF BeginSync, rowVars, Goes
  <2>2. \A u \in Tasks : RowsBehind(u)'
    BY <1>21, <2>1, GoesAlone DEF BeginSync, RowsBehind, HasProfile, HasLane, RowsInv
  <2> QED BY <2>1, <2>2 DEF RowsInv, InForceIsStored
<1>22. CASE ReadDeviceRow
  <2>0. Restore \in Tasks  BY DEF Tasks, Writers
  <2>1. UNCHANGED <<profileRows, laneRows, deviceRow, inner>>  BY <1>22 DEF ReadDeviceRow, rowVars
  <2>2. PICK next, l : Goes(Restore, next, l)  BY <1>22 DEF ReadDeviceRow, Ends
  <2>3. \A u \in Tasks : u # Restore => RowsBehind(u)'
    BY <2>0, <2>1, <2>2, GoesAlone DEF RowsBehind, HasProfile, HasLane, RowsInv
  <2>4. RowsBehind(Restore)'
    BY <1>22, <2>0, GoesAlone DEF ReadDeviceRow, Ends, RowsBehind
  <2> QED BY <2>1, <2>3, <2>4 DEF RowsInv, InForceIsStored
<1>23. CASE ReadProfileRow
  <2>0. Restore \in Tasks  BY DEF Tasks, Writers
  <2>1. UNCHANGED <<profileRows, laneRows, deviceRow, inner>>  BY <1>23 DEF ReadProfileRow, rowVars
  <2>2. PICK next, l : Goes(Restore, next, l)  BY <1>23 DEF ReadProfileRow, Ends
  <2>3. \A u \in Tasks : u # Restore => RowsBehind(u)'
    BY <2>0, <2>1, <2>2, GoesAlone DEF RowsBehind, HasProfile, HasLane, RowsInv
  <2>4. RowsBehind(Restore)'
    <3>1. CASE Ends(Restore)  BY <2>0, <3>1, GoesAlone DEF Ends, RowsBehind
    <3>2. CASE ~Ends(Restore)
      <4> DEFINE id == local[Restore].row.profile_id
                 m == [local[Restore] EXCEPT !.answer.deployment_profile = profileRows[id]]
      <4>1. id # NoId /\ profileRows[id] # NoProfile /\ Goes(Restore, "apply_profile", m)
        BY <1>23, <3>2 DEF ReadProfileRow
      <4>2. id \in ProfileIds  BY <2>0, <4>1 DEF TasksOK, Local, DeviceRow
      <4>3. pc'[Restore] = "apply_profile" /\ local'[Restore] = m  BY <2>0, <4>1, GoesAlone
      <4>4. m.answer.deployment_profile = profileRows[id]  BY <2>0 DEF TasksOK, Local, Answer
      <4> QED BY <2>1, <4>1, <4>2, <4>3, <4>4 DEF RowsBehind, HasProfile, RowsInv
    <3> QED BY <3>1, <3>2
  <2> QED BY <2>1, <2>3, <2>4 DEF RowsInv, InForceIsStored
<1>24. CASE ReadLaneRows
  <2>0. Restore \in Tasks  BY DEF Tasks, Writers
  <2>1. UNCHANGED <<profileRows, laneRows, deviceRow, inner>>  BY <1>24 DEF ReadLaneRows, rowVars
  <2>2. PICK next, l : Goes(Restore, next, l)  BY <1>24 DEF ReadLaneRows, Ends
  <2>3. \A u \in Tasks : u # Restore => RowsBehind(u)'
    BY <2>0, <2>1, <2>2, GoesAlone DEF RowsBehind, HasProfile, HasLane, RowsInv
  <2>4. RowsBehind(Restore)'
    <3>1. CASE Ends(Restore)  BY <2>0, <3>1, GoesAlone DEF Ends, RowsBehind
    <3>2. ASSUME NEW n \in LanesOf(local[Restore].row),
                 Goes(Restore, "apply_lane", [local[Restore] EXCEPT !.answer.lane = n])
          PROVE  RowsBehind(Restore)'
      <4> DEFINE m == [local[Restore] EXCEPT !.answer.lane = n]
      <4>1. n \in Lanes /\ n \in {laneRows[i] : i \in LaneIds}  BY DEF LanesOf
      <4>2. laneRows[n.id] = n  BY <4>1, RuntimeAssumption DEF RowsInv
      <4>3. pc[Restore] = "lane_rows" /\ pc'[Restore] = "apply_lane" /\ local'[Restore] = m
        BY <1>24, <2>0, <3>2, GoesAlone DEF ReadLaneRows
      <4>4. m.answer.lane = n
            /\ m.answer.deployment_profile = local[Restore].answer.deployment_profile
        BY <2>0 DEF TasksOK, Local, Answer
      <4>5. HasProfile(local[Restore].answer.deployment_profile)
        BY <2>0, <4>3 DEF RowsInv, RowsBehind
      <4> QED BY <2>1, <4>1, <4>2, <4>3, <4>4, <4>5, RuntimeAssumption
           DEF RowsBehind, HasProfile, HasLane
    <3> QED BY <1>24, <3>1, <3>2 DEF ReadLaneRows
  <2> QED BY <2>1, <2>3, <2>4 DEF RowsInv, InForceIsStored
<1>25. CASE RestoreFails
  <2>0. Restore \in Tasks  BY DEF Tasks, Writers
  <2>1. UNCHANGED <<profileRows, laneRows, deviceRow, inner>>  BY <1>25 DEF RestoreFails, rowVars
  <2>2. PICK next, l : Goes(Restore, next, l)  BY <1>25 DEF RestoreFails, Ends
  <2>3. \A u \in Tasks : u # Restore => RowsBehind(u)'
    BY <2>0, <2>1, <2>2, GoesAlone DEF RowsBehind, HasProfile, HasLane, RowsInv
  <2>4. RowsBehind(Restore)'
    BY <1>25, <2>0, GoesAlone DEF RestoreFails, Ends, RowsBehind
  <2> QED BY <2>1, <2>3, <2>4 DEF RowsInv, InForceIsStored
<1>26. CASE Crash
  <2>1. UNCHANGED <<profileRows, laneRows, deviceRow>> /\ inner' = NewRuntime  BY <1>26 DEF Crash, rowVars
  <2>2. \A u \in Tasks : RowsBehind(u)'  BY <1>26 DEF Crash, AtStart, RowsBehind
  <2>3. inner'.deployment_profile = NoProfile /\ inner'.lane = NoLane  BY <2>1 DEF NewRuntime
  <2> QED BY <2>1, <2>2, <2>3 DEF RowsInv, InForceIsStored
<1>27. CASE UNCHANGED vars
  BY <1>27 DEF vars, rowVars, RowsInv, InForceIsStored, RowsBehind, HasProfile, HasLane
<1> QED BY <1>1, <1>2, <1>3, <1>4, <1>5, <1>6, <1>7, <1>8, <1>9, <1>10, <1>11, <1>12, <1>13, <1>14, <1>15, <1>16, <1>17, <1>18, <1>19, <1>20, <1>21, <1>22, <1>23, <1>24, <1>25, <1>26, <1>27 DEF Next, Works

LEMMA RowsHold == Spec => []RowsInv
<1>1. Init => RowsInv
  <2> SUFFICES ASSUME Init PROVE RowsInv  OBVIOUS
  <2>1. \A t \in Tasks : RowsBehind(t)  BY DEF Init, AtStart, RowsBehind
  <2> QED BY <2>1 DEF Init, NoRow, NewRuntime, RowsInv, InForceIsStored
<1>2. TypeOK /\ RowsInv /\ [Next]_vars => RowsInv'  BY TypeParts, RowsStep
<1> QED BY <1>1, <1>2, TypeHolds, PTL DEF Spec

(* store_deployment_profile, store_lane and store_device_config come before *)
(* what depends on them: nothing in force, and nothing the device row      *)
(* names, is without its row, wherever a sync failed or the process died.  *)
THEOREM InForceIsStoredHolds == Spec => []InForceIsStored
<1>1. RowsInv => InForceIsStored  BY DEF RowsInv
<1> QED BY <1>1, RowsHold, PTL

-------------------------------------------------------------------------------
\* What a snapshot has read so far is of one moment; for a viewer beside whom
\* nothing was written, of this one.
PolicyOf(i) ==
  i.lane # NoLane /\ i.lane.default_policy_id # NoPolicy =>
    i.active_policy_id = i.lane.default_policy_id

Picture(t) ==
  LET l == local[t] IN
  /\ pc[t] \in {"ttl", "biometric"} => l.view = inner
  /\ pc[t] \in {"biometric", "reply", "rollout"} =>
       l.offline_cache_ttl_hours = TtlHours(l.view.deployment_profile)
  /\ pc[t] \in {"reply", "rollout"} => l.biometric = Biometric(l.view.deployment_profile)
  /\ pc[t] \in {"ttl", "biometric", "reply", "rollout"} => PolicyOf(l.view)
  /\ t \in steady /\ pc[t] = "rollout" => l.view = inner
  /\ t \in steady /\ pc[t] = "download" => Eligible(inner, l.version)

PictureInv == PolicyOf(inner) /\ \A t \in Viewers : Picture(t)

(* A viewer that does not move keeps its picture, if nothing is written.   *)
LEMMA PictureKept ==
  ASSUME PictureInv, NEW u \in Viewers, pc'[u] = pc[u], local'[u] = local[u], inner' = inner,
         u \in steady' => u \in steady
  PROVE  Picture(u)'
BY DEF PictureInv, Picture

(* Nothing is written while a snapshot has its guard.                      *)
LEMMA PictureWritten ==
  ASSUME TasksOK, PictureInv, NEW t \in Tasks, t \notin Viewers, NEW next, NEW l, Goes(t, next, l),
         Holders = {}, steady' = {}, PolicyOf(inner')
  PROVE  PictureInv'
<1>1. ASSUME NEW u \in Viewers PROVE Picture(u)'
  <2>1. pc'[u] = pc[u] /\ local'[u] = local[u]  BY GoesAlone DEF Tasks
  <2>2. pc[u] \notin {"ttl", "biometric"}  BY DEF Holders
  <2> QED BY <2>1, <2>2 DEF PictureInv, Picture
<1> QED BY <1>1 DEF PictureInv, PolicyOf

(* A task that views nothing disturbs no picture.                          *)
LEMMA PictureBeside ==
  ASSUME TasksOK, PictureInv, NEW t \in Tasks, t \notin Viewers, NEW next, NEW l, Goes(t, next, l),
         inner' = inner, steady' = steady
  PROVE  PictureInv'
BY GoesAlone, PictureKept DEF PictureInv, PolicyOf, Tasks

(* A viewer that moves answers for its own picture.                        *)
LEMMA PictureMoves ==
  ASSUME TasksOK, PictureInv, NEW t \in Viewers, NEW next, NEW l, Goes(t, next, l),
         inner' = inner, steady' \ {t} \subseteq steady, Picture(t)'
  PROVE  PictureInv'
<1>1. t \in Tasks  BY DEF Tasks
<1>2. ASSUME NEW u \in Viewers, u # t PROVE Picture(u)'
  <2>1. pc'[u] = pc[u] /\ local'[u] = local[u]  BY <1>1, <1>2, GoesAlone DEF Tasks
  <2>2. u \in steady' => u \in steady  BY <1>2
  <2> QED BY <2>1, <2>2, PictureKept
<1> QED BY <1>2 DEF PictureInv, PolicyOf

(* Every step keeps every snapshot one picture.                            *)
LEMMA PictureStep ==
  ASSUME TasksOK, SharedOK, PictureInv, [Next]_vars
  PROVE  PictureInv'
<1>1. ASSUME NEW t \in Tasks, Wait(t) PROVE PictureInv'
  BY <1>1 DEF Wait, PictureInv, Picture, historyVars
<1>2. ASSUME NEW t \in Tasks, SetDevice(t) PROVE PictureInv'
  <2>1. t \notin Viewers  BY <1>2, KindOfStep DEF SetDevice, TasksOK, Needs
  <2>2. PICK next, l : Goes(t, next, l)  BY <1>2 DEF SetDevice, Ends
  <2>3. Holders = {}  BY <1>2 DEF SetDevice, Enters, WriteSteps
  <2>4. PolicyOf(inner')
    BY <1>2 DEF SetDevice, PictureInv, PolicyOf, SharedOK, RuntimeConfigInner
  <2> QED BY <1>2, <2>1, <2>2, <2>3, <2>4, PictureWritten DEF SetDevice
<1>3. ASSUME NEW t \in Tasks, GetDevice(t) PROVE PictureInv'
  <2>1. t \notin Viewers  BY <1>3, KindOfStep, Kinds DEF GetDevice, TasksOK, Needs
  <2>2. PICK next, l : Goes(t, next, l)  BY <1>3 DEF GetDevice, Ends
  <2> QED BY <1>3, <2>1, <2>2, PictureBeside DEF GetDevice, historyVars, rowVars
<1>4. ASSUME NEW t \in Tasks, StoreProfile(t) PROVE PictureInv'
  <2>1. t \notin Viewers  BY <1>4, KindOfStep, Kinds DEF StoreProfile, TasksOK, Needs
  <2>2. PICK next, l : Goes(t, next, l)  BY <1>4 DEF StoreProfile, Ends
  <2> QED BY <1>4, <2>1, <2>2, PictureBeside DEF StoreProfile, historyVars, rowVars
<1>5. ASSUME NEW t \in Tasks, ApplyProfile(t) PROVE PictureInv'
  <2>1. t \notin Viewers  BY <1>5, KindOfStep DEF ApplyProfile, TasksOK, Needs
  <2>2. PICK next, l : Goes(t, next, l)  BY <1>5 DEF ApplyProfile, Ends
  <2>3. Holders = {}  BY <1>5 DEF ApplyProfile, Enters, WriteSteps
  <2>4. PolicyOf(inner')
    BY <1>5 DEF ApplyProfile, PictureInv, PolicyOf, SharedOK, RuntimeConfigInner
  <2> QED BY <1>5, <2>1, <2>2, <2>3, <2>4, PictureWritten DEF ApplyProfile
<1>6. ASSUME NEW t \in Tasks, StoreLane(t) PROVE PictureInv'
  <2>1. t \notin Viewers  BY <1>6, KindOfStep, Kinds DEF StoreLane, TasksOK, Needs
  <2>2. PICK next, l : Goes(t, next, l)  BY <1>6 DEF StoreLane, Ends
  <2> QED BY <1>6, <2>1, <2>2, PictureBeside DEF StoreLane, historyVars, rowVars
<1>7. ASSUME NEW t \in Tasks, ApplyLane(t) PROVE PictureInv'
  <2>1. t \notin Viewers  BY <1>7, KindOfStep DEF ApplyLane, TasksOK, Needs
  <2>2. PICK next, l : Goes(t, next, l)  BY <1>7 DEF ApplyLane, Ends
  <2>3. Holders = {}  BY <1>7 DEF ApplyLane, Enters, WriteSteps
  <2>4. PolicyOf(inner')
    BY <1>7 DEF ApplyLane, PictureInv, PolicyOf, SharedOK, RuntimeConfigInner
  <2> QED BY <1>7, <2>1, <2>2, <2>3, <2>4, PictureWritten DEF ApplyLane
<1>8. ASSUME NEW t \in Tasks, StoreDevice(t) PROVE PictureInv'
  <2>1. t \notin Viewers  BY <1>8, KindOfStep, Kinds DEF StoreDevice, TasksOK, Needs
  <2>2. PICK next, l : Goes(t, next, l)  BY <1>8 DEF StoreDevice, Ends
  <2> QED BY <1>8, <2>1, <2>2, PictureBeside DEF StoreDevice, historyVars, rowVars
<1>9. ASSUME NEW t \in Tasks, StoreFails(t) PROVE PictureInv'
  <2>1. t \notin Viewers  BY <1>9, KindOfStep, Kinds DEF StoreFails, TasksOK, Needs
  <2>2. PICK next, l : Goes(t, next, l)  BY <1>9 DEF StoreFails, Ends
  <2> QED BY <1>9, <2>1, <2>2, PictureBeside DEF StoreFails, historyVars, rowVars
<1>10. ASSUME NEW t \in Tasks, TakeGuard(t) PROVE PictureInv'
  <2>1. t \in Viewers  BY <1>10, KindOfStep DEF TakeGuard, TasksOK, Needs
  <2>2. PICK next, l : Goes(t, next, l)  BY <1>10 DEF TakeGuard, Ends
  <2>3. inner' = inner /\ steady' = steady  BY <1>10 DEF TakeGuard, historyVars
  <2>5. local[t] \in Local  BY DEF TasksOK
  <2>6. pc'[t] = "ttl" /\ local'[t] = [local[t] EXCEPT !.view = inner]
    BY <1>10, GoesAlone DEF TakeGuard
  <2>7. local'[t].view = inner  BY <2>5, <2>6 DEF Local
  <2>4. Picture(t)'  BY <2>3, <2>6, <2>7 DEF Picture, PictureInv, PolicyOf
  <2> QED BY <2>1, <2>2, <2>3, <2>4, PictureMoves
<1>11. ASSUME NEW t \in Tasks, ReadTtl(t) PROVE PictureInv'
  <2>1. t \in Viewers  BY <1>11, KindOfStep DEF ReadTtl, TasksOK, Needs
  <2>2. PICK next, l : Goes(t, next, l)  BY <1>11 DEF ReadTtl, Ends
  <2>3. inner' = inner /\ steady' = steady  BY <1>11 DEF ReadTtl, historyVars
  <2>5. local[t] \in Local  BY DEF TasksOK
  <2>6. /\ pc[t] = "ttl" /\ pc'[t] = "biometric"
        /\ local'[t] = [local[t] EXCEPT !.offline_cache_ttl_hours = TtlHours(inner.deployment_profile)]
    BY <1>11, GoesAlone DEF ReadTtl
  <2>7. local'[t].view = local[t].view
        /\ local'[t].offline_cache_ttl_hours = TtlHours(inner.deployment_profile)
    BY <2>5, <2>6 DEF Local
  <2>8. local[t].view = inner  BY <2>1, <2>6 DEF PictureInv, Picture
  <2>4. Picture(t)'  BY <2>3, <2>6, <2>7, <2>8 DEF Picture, PictureInv, PolicyOf
  <2> QED BY <2>1, <2>2, <2>3, <2>4, PictureMoves
<1>12. ASSUME NEW t \in Tasks, ReadBiometric(t) PROVE PictureInv'
  <2>1. t \in Viewers  BY <1>12, KindOfStep DEF ReadBiometric, TasksOK, Needs
  <2>2. PICK next, l : Goes(t, next, l)  BY <1>12 DEF ReadBiometric, Ends
  <2>3. inner' = inner /\ steady' = steady  BY <1>12 DEF ReadBiometric, historyVars
  <2>5. local[t] \in Local  BY DEF TasksOK
  <2>6. /\ pc[t] = "biometric" /\ pc'[t] \in {"reply", "rollout"}
        /\ local'[t] = [local[t] EXCEPT !.biometric = Biometric(inner.deployment_profile)]
    BY <1>12, GoesAlone DEF ReadBiometric
  <2>7. local'[t].view = local[t].view
        /\ local'[t].offline_cache_ttl_hours = local[t].offline_cache_ttl_hours
        /\ local'[t].biometric = Biometric(inner.deployment_profile)
    BY <2>5, <2>6 DEF Local
  <2>8. /\ local[t].view = inner
        /\ local[t].offline_cache_ttl_hours = TtlHours(local[t].view.deployment_profile)
    BY <2>1, <2>6 DEF PictureInv, Picture
  <2>4. Picture(t)'  BY <2>3, <2>6, <2>7, <2>8 DEF Picture, PictureInv, PolicyOf
  <2> QED BY <2>1, <2>2, <2>3, <2>4, PictureMoves
<1>13. ASSUME NEW t \in Tasks, Reply(t) PROVE PictureInv'
  <2>1. t \in Viewers  BY <1>13, KindOfStep DEF Reply, TasksOK, Needs
  <2>2. PICK next, l : Goes(t, next, l)  BY <1>13 DEF Reply, Ends
  <2>3. inner' = inner /\ steady' = steady  BY <1>13 DEF Reply, historyVars
  <2>4. Picture(t)'  BY <1>13, GoesAlone DEF Reply, Ends, Picture
  <2> QED BY <2>1, <2>2, <2>3, <2>4, PictureMoves
<1>14. ASSUME NEW t \in Tasks, Rollout(t) PROVE PictureInv'
  <2>1. t \in Viewers  BY <1>14, KindOfStep DEF Rollout, TasksOK, Needs
  <2>2. PICK next, l : Goes(t, next, l)  BY <1>14 DEF Rollout, Ends
  <2>3. inner' = inner /\ steady' = steady  BY <1>14 DEF Rollout, historyVars
  <2>5. local[t] \in Local  BY DEF TasksOK
  <2>6. Ends(t) => Picture(t)'  BY GoesAlone DEF Ends, Picture
  <2>7. ASSUME ~Ends(t) PROVE Picture(t)'
    <3>1. /\ pc[t] = "rollout" /\ Eligible(local[t].view, local[t].version)
          /\ pc'[t] = "download" /\ local'[t] = [Unread EXCEPT !.version = local[t].version]
      BY <1>14, <2>7, GoesAlone DEF Rollout
    <3>2. local'[t].version = local[t].version  BY <3>1, NothingRead DEF Local
    <3>3. t \in steady => local[t].view = inner  BY <2>1, <3>1 DEF PictureInv, Picture
    <3> QED BY <2>3, <3>1, <3>2, <3>3 DEF Picture
  <2>4. Picture(t)'  BY <2>6, <2>7
  <2> QED BY <2>1, <2>2, <2>3, <2>4, PictureMoves
<1>15. ASSUME NEW t \in Tasks, Fetch(t) PROVE PictureInv'
  <2>1. t \notin Viewers  BY <1>15, KindOfStep, Kinds DEF Fetch, TasksOK, Needs
  <2>2. PICK next, l : Goes(t, next, l)  BY <1>15 DEF Fetch, Ends
  <2> QED BY <1>15, <2>1, <2>2, PictureBeside DEF Fetch, historyVars, rowVars
<1>16. ASSUME NEW t \in Tasks, FetchFails(t) PROVE PictureInv'
  <2>1. t \notin Viewers  BY <1>16, KindOfStep, Kinds DEF FetchFails, TasksOK, Needs
  <2>2. PICK next, l : Goes(t, next, l)  BY <1>16 DEF FetchFails, Ends
  <2> QED BY <1>16, <2>1, <2>2, PictureBeside DEF FetchFails, historyVars, rowVars
<1>17. ASSUME NEW t \in Tasks, FindUpdate(t) PROVE PictureInv'
  <2>1. t \in Viewers  BY <1>17, KindOfStep DEF FindUpdate, TasksOK, Needs
  <2>2. PICK next, l : Goes(t, next, l)  BY <1>17 DEF FindUpdate, Ends
  <2>3. inner' = inner /\ steady' = steady  BY <1>17 DEF FindUpdate, historyVars
  <2>5. pc'[t] \in {"snapshot", "done"}  BY <1>17, GoesAlone DEF FindUpdate, Ends
  <2>4. Picture(t)'  BY <2>5 DEF Picture
  <2> QED BY <2>1, <2>2, <2>3, <2>4, PictureMoves
<1>18. ASSUME NEW t \in Tasks, Install(t) PROVE PictureInv'
  <2>1. t \in Viewers  BY <1>18, KindOfStep DEF Install, TasksOK, Needs
  <2>2. PICK next, l : Goes(t, next, l)  BY <1>18 DEF Install, Ends
  <2>3. inner' = inner /\ steady' = steady  BY <1>18 DEF Install, historyVars
  <2>4. Picture(t)'  BY <1>18, GoesAlone DEF Install, Ends, Picture
  <2> QED BY <2>1, <2>2, <2>3, <2>4, PictureMoves
<1>19. ASSUME NEW t \in Tasks, BeginQuery(t) PROVE PictureInv'
  <2>1. t \in Viewers  BY <1>19 DEF BeginQuery
  <2>2. Goes(t, "snapshot", Unread)  BY <1>19 DEF BeginQuery
  <2>3. inner' = inner /\ steady' \ {t} \subseteq steady  BY <1>19 DEF BeginQuery, historyVars
  <2>4. Picture(t)'  BY <2>2, GoesAlone DEF Picture
  <2> QED BY <2>1, <2>2, <2>3, <2>4, PictureMoves
<1>20. ASSUME NEW t \in Tasks, BeginInstall(t) PROVE PictureInv'
  <2>1. t \in Viewers  BY <1>20 DEF BeginInstall
  <2>2. Goes(t, "check", Unread)  BY <1>20 DEF BeginInstall
  <2>3. inner' = inner /\ steady' \ {t} \subseteq steady  BY <1>20 DEF BeginInstall, historyVars
  <2>4. Picture(t)'  BY <2>2, GoesAlone DEF Picture
  <2> QED BY <2>1, <2>2, <2>3, <2>4, PictureMoves
<1>21. ASSUME NEW t \in Tasks, NEW d \in Devices, BeginSync(t, d) PROVE PictureInv'
  <2>1. t \notin Viewers  BY <1>21, RuntimeAssumption DEF BeginSync
  <2> QED BY <1>21, <2>1, PictureBeside DEF BeginSync
<1>22. CASE ReadDeviceRow
  <2>1. Restore \in Tasks /\ Restore \notin Viewers  BY RuntimeAssumption DEF Tasks, Writers
  <2>2. PICK next, l : Goes(Restore, next, l)  BY <1>22 DEF ReadDeviceRow, Ends
  <2> QED BY <1>22, <2>1, <2>2, PictureBeside DEF ReadDeviceRow, historyVars
<1>23. CASE ReadProfileRow
  <2>1. Restore \in Tasks /\ Restore \notin Viewers  BY RuntimeAssumption DEF Tasks, Writers
  <2>2. PICK next, l : Goes(Restore, next, l)  BY <1>23 DEF ReadProfileRow, Ends
  <2> QED BY <1>23, <2>1, <2>2, PictureBeside DEF ReadProfileRow, historyVars
<1>24. CASE ReadLaneRows
  <2>1. Restore \in Tasks /\ Restore \notin Viewers  BY RuntimeAssumption DEF Tasks, Writers
  <2>2. PICK next, l : Goes(Restore, next, l)  BY <1>24 DEF ReadLaneRows, Ends
  <2> QED BY <1>24, <2>1, <2>2, PictureBeside DEF ReadLaneRows, historyVars
<1>25. CASE RestoreFails
  <2>1. Restore \in Tasks /\ Restore \notin Viewers  BY RuntimeAssumption DEF Tasks, Writers
  <2>2. PICK next, l : Goes(Restore, next, l)  BY <1>25 DEF RestoreFails, Ends
  <2> QED BY <1>25, <2>1, <2>2, PictureBeside DEF RestoreFails, historyVars
<1>26. CASE Crash
  <2>1. inner' = NewRuntime  BY <1>26 DEF Crash
  <2>2. PolicyOf(inner')  BY <2>1 DEF PolicyOf, NewRuntime
  <2>3. ASSUME NEW u \in Viewers PROVE Picture(u)'
    <3>1. u \in Tasks /\ u # Restore  BY Kinds DEF Tasks
    <3>2. pc'[u] \in {"get_device", "idle", "done"}  BY <1>26, <3>1 DEF Crash, AtStart
    <3> QED BY <3>2 DEF Picture
  <2> QED BY <2>2, <2>3 DEF PictureInv, PolicyOf
<1>27. CASE UNCHANGED vars
  BY <1>27 DEF vars, PictureInv, Picture, historyVars
<1> QED BY <1>1, <1>2, <1>3, <1>4, <1>5, <1>6, <1>7, <1>8, <1>9, <1>10, <1>11, <1>12, <1>13, <1>14, <1>15, <1>16, <1>17, <1>18, <1>19, <1>20, <1>21, <1>22, <1>23, <1>24, <1>25, <1>26, <1>27 DEF Next, Works

LEMMA PictureHolds == Spec => []PictureInv
<1>1. Init => PictureInv
  <2> SUFFICES ASSUME Init PROVE PictureInv  OBVIOUS
  <2>1. ASSUME NEW u \in Viewers PROVE Picture(u)
    <3>1. u \in Tasks /\ u # Restore  BY Kinds DEF Tasks
    <3> QED BY <3>1 DEF Init, AtStart, Picture
  <2> QED BY <2>1 DEF Init, NewRuntime, PictureInv, PolicyOf
<1>2. TypeOK /\ PictureInv /\ [Next]_vars => PictureInv'  BY TypeParts, PictureStep
<1> QED BY <1>1, <1>2, TypeHolds, PTL DEF Spec

(* snapshot reads two fields after awaits; the guard it keeps makes its    *)
(* answer one picture all the same.                                        *)
THEOREM SnapshotHolds == Spec => []SnapshotIsOnePicture
<1>1. PictureInv => SnapshotIsOnePicture
  BY DEF PictureInv, Picture, SnapshotIsOnePicture, PolicyOf
<1> QED BY <1>1, PictureHolds, PTL

(* check_rollout_eligibility goes by a snapshot taken after the update was *)
(* found: an install that nothing was written beside suits what is in      *)
(* force.                                                                  *)
THEOREM InstallsHold == Spec => []InstallsFollowPolicy
<1>1. TypeOK /\ PictureInv => InstallsFollowPolicy
  BY DEF PictureInv, Picture, InstallsFollowPolicy, TypeOK
<1> QED BY <1>1, PictureHolds, TypeHolds, PTL

-------------------------------------------------------------------------------
\* Steps of a sync that has its answer.
Answered == {"store_profile", "apply_profile", "store_lane", "apply_lane", "store_device"}

\* How far a sync that nothing ran beside has brought its answer.
Progress(t) ==
  LET a == local[t].answer
      p == a.deployment_profile
      n == a.lane
  IN
  Complete(a) =>
    /\ pc[t] \in {"apply_profile", "store_lane", "apply_lane", "store_device"} =>
         profileRows[p.id] = Stored(p)
    /\ pc[t] \in {"store_lane", "apply_lane", "store_device"} => inner.deployment_profile = p
    /\ pc[t] \in {"apply_lane", "store_device"} => laneRows[n.id] = n
    /\ pc[t] = "store_device" => inner.lane = n /\ inner.active_policy_id = n.default_policy_id

\* A task nothing ran beside is a sync, and still runs beside nothing.
Undisturbed(t) ==
  /\ t \in Syncs
  /\ Running(t) => \A u \in Writers : u # t => ~Running(u)
  /\ Progress(t)

AgreedRows ==
  /\ profileRows[agreed.deployment_profile.id] = Stored(agreed.deployment_profile)
  /\ laneRows[agreed.lane.id] = agreed.lane
  /\ deviceRow.profile_id = agreed.deployment_profile.id
  /\ deviceRow.lane_id = agreed.lane.id

AgreedProfile ==
  inner.deployment_profile \in {agreed.deployment_profile, Stored(agreed.deployment_profile)}

AgreedLane ==
  inner.lane = agreed.lane /\ inner.active_policy_id = agreed.lane.default_policy_id

\* How far the restore has brought back what the rows say.
Restored ==
  LET l == local[Restore] IN
  /\ pc[Restore] \in {"profile_row", "apply_profile", "lane_rows"} => l.row = deviceRow
  /\ pc[Restore] = "apply_profile" =>
       l.answer.deployment_profile = Stored(agreed.deployment_profile)
  /\ pc[Restore] = "apply_lane" => l.answer.lane = agreed.lane
  /\ pc[Restore] \in {"lane_rows", "apply_lane", "done"} => AgreedProfile
  /\ pc[Restore] = "done" => AgreedLane

Agreement ==
  Complete(agreed) =>
    /\ \A t \in Syncs : pc[t] \notin Answered
    /\ AgreedRows
    /\ ~unreadable => Restored

PersistInv == Agreement /\ \A t \in alone : Undisturbed(t)

(* The three facts of the runtime configuration that a lane and a profile  *)
(* are about; the device is not one of them.                               *)
SameForce ==
  /\ inner'.deployment_profile = inner.deployment_profile /\ inner'.lane = inner.lane
  /\ inner'.active_policy_id = inner.active_policy_id

(* While a task that nothing ran beside runs, no other writer moves; when  *)
(* another one moves, it is over.                                          *)
LEMMA WriterMoves ==
  ASSUME TasksOK, PersistInv, NEW t \in Writers, Running(t), NEW next, NEW l, Goes(t, next, l),
         t \in alone => Progress(t)', alone' = alone
  PROVE  \A u \in alone' : Undisturbed(u)'
<1>1. ASSUME NEW u \in alone PROVE Undisturbed(u)'
  <2>1. u \in Syncs /\ u \in Writers /\ u \in Tasks /\ t \in Tasks /\ Undisturbed(u)
    BY DEF PersistInv, Undisturbed, Writers, Tasks
  <2>2. \A v \in Writers : v # t => pc'[v] = pc[v]  BY <2>1, GoesAlone DEF Tasks
  <2>3. CASE u = t
    <3>1. \A v \in Writers : v # t => ~Running(v)  BY <2>1, <2>3 DEF Undisturbed
    <3>2. \A v \in Writers : v # t => ~Running(v)'  BY <2>2, <3>1 DEF Running
    <3>3. Progress(t)'  BY <1>1, <2>3
    <3> QED BY <2>1, <2>3, <3>2, <3>3 DEF Undisturbed
  <2>4. CASE u # t
    <3>1. pc[u] \in {"idle", "done"}  BY <2>1, <2>4 DEF Undisturbed, Running
    <3>2. pc'[u] \in {"idle", "done"}  BY <2>1, <2>2, <2>4, <3>1
    <3> QED BY <2>1, <3>2 DEF Undisturbed, Running, Progress
  <2> QED BY <2>3, <2>4
<1> QED BY <1>1

(* What was agreed on stands while rows, what is in force and the restore  *)
(* stay, and no sync gets its answer.                                      *)
LEMMA AgreementKept ==
  ASSUME Agreement, UNCHANGED <<profileRows, laneRows, deviceRow>>, SameForce,
         agreed' = agreed, unreadable' = unreadable,
         pc'[Restore] = pc[Restore], local'[Restore] = local[Restore],
         \A t \in Syncs : pc'[t] \in Answered => pc[t] \in Answered
  PROVE  Agreement'
BY DEF Agreement, Complete, AgreedRows, AgreedProfile, AgreedLane, Restored, SameForce

(* A sync that has its answer has put an end to what was agreed on.        *)
LEMMA AgreementOver ==
  ASSUME Agreement, NEW t \in Syncs, pc[t] \in Answered, agreed' = agreed
  PROVE  Agreement'
BY DEF Agreement, Complete

(* A step of the restore answers for what it has brought back.             *)
LEMMA RestoreMoves ==
  ASSUME TasksOK, PersistInv, Running(Restore), NEW next, NEW l, Goes(Restore, next, l),
         UNCHANGED <<profileRows, laneRows, deviceRow, agreed, alone>>,
         Complete(agreed) /\ ~unreadable' => Restored'
  PROVE  PersistInv'
<1>1. Restore \in Writers /\ Restore \in Tasks /\ Restore \notin Syncs
  BY RuntimeAssumption DEF Tasks, Writers
<1>2. Restore \notin alone  BY <1>1 DEF PersistInv, Undisturbed
<1>3. \A u \in alone' : Undisturbed(u)'  BY <1>1, <1>2, WriterMoves
<1>4. \A u \in Syncs : pc'[u] = pc[u]  BY <1>1, GoesAlone DEF Tasks, Writers
<1>5. Agreement'  BY <1>4 DEF PersistInv, Agreement, Complete, AgreedRows
<1> QED BY <1>3, <1>5 DEF PersistInv

(* A task that only views leaves it all alone.                             *)
LEMMA ViewerMoves ==
  ASSUME TasksOK, PersistInv, NEW t \in Viewers, NEW next, NEW l, Goes(t, next, l),
         UNCHANGED <<profileRows, laneRows, deviceRow, inner, agreed, alone, unreadable>>
  PROVE  PersistInv'
<1>1. t \in Tasks /\ t \notin Writers  BY Kinds DEF Tasks, Writers
<1>2. \A u \in Writers : pc'[u] = pc[u] /\ local'[u] = local[u]  BY <1>1, GoesAlone DEF Tasks
<1>3. Agreement'  BY <1>2, AgreementKept DEF PersistInv, SameForce, Writers
<1>4. ASSUME NEW u \in alone PROVE Undisturbed(u)'
  <2>1. u \in Syncs /\ u \in Writers /\ Undisturbed(u)  BY DEF PersistInv, Undisturbed, Writers
  <2>2. Progress(u)'  BY <1>2, <2>1 DEF Undisturbed, Progress, Complete
  <2> QED BY <1>2, <2>1, <2>2 DEF Undisturbed, Running
<1> QED BY <1>3, <1>4 DEF PersistInv

(* A step of a sync before its answer, or its end, in which nothing that   *)
(* was agreed on is touched.                                               *)
LEMMA SyncMoves ==
  ASSUME TasksOK, PersistInv, NEW t \in Syncs, Running(t), NEW next, NEW l, Goes(t, next, l),
         next \in {"get_device", "fetch", "done"}, SameForce,
         UNCHANGED <<profileRows, laneRows, deviceRow, agreed, alone, unreadable>>
  PROVE  PersistInv'
<1>1. t \in Writers /\ t \in Tasks /\ t # Restore /\ Restore \in Tasks
  BY RuntimeAssumption DEF Writers, Tasks
<1>2. pc'[t] = next /\ \A u \in Tasks : u # t => pc'[u] = pc[u] /\ local'[u] = local[u]
  BY <1>1, GoesAlone
<1>3. Progress(t)'  BY <1>2 DEF Progress
<1>4. \A u \in alone' : Undisturbed(u)'  BY <1>1, <1>3, WriterMoves
<1>5. \A u \in Syncs : pc'[u] \in Answered => pc[u] \in Answered
  BY <1>2 DEF Answered, Tasks, Writers
<1>6. Agreement'  BY <1>1, <1>2, <1>5, AgreementKept DEF PersistInv
<1> QED BY <1>4, <1>6 DEF PersistInv

(* A step of a sync that has its answer.                                   *)
LEMMA AnsweredMoves ==
  ASSUME TasksOK, PersistInv, NEW t \in Syncs, pc[t] \in Answered, NEW next, NEW l,
         Goes(t, next, l), alone' = alone, agreed' = agreed, t \in alone => Progress(t)'
  PROVE  PersistInv'
<1>1. t \in Writers /\ Running(t)  BY DEF Writers, Running, Answered
<1>2. \A u \in alone' : Undisturbed(u)'  BY <1>1, WriterMoves
<1>3. Agreement'  BY AgreementOver DEF PersistInv
<1> QED BY <1>2, <1>3 DEF PersistInv

(* Every step carries an assignment on, or puts an end to it.              *)
LEMMA PersistStep ==
  ASSUME TasksOK, SharedOK, RowsInv, PersistInv, [Next]_vars
  PROVE  PersistInv'
<1>0. Restore \in Tasks /\ Restore \notin Syncs /\ Restore \notin Viewers
  BY RuntimeAssumption DEF Tasks, Writers
<1>1. ASSUME NEW t \in Tasks, Wait(t) PROVE PersistInv'
  BY <1>1 DEF Wait, rowVars, historyVars, PersistInv, Agreement, Complete, AgreedRows,
     AgreedProfile, AgreedLane, Restored, Undisturbed, Running, Progress
<1>2. ASSUME NEW t \in Tasks, SetDevice(t) PROVE PersistInv'
  <2>1. t \in Syncs /\ Running(t)  BY <1>2, KindOfStep DEF SetDevice, TasksOK, Needs, Running
  <2>2. SameForce  BY <1>2 DEF SetDevice, SharedOK, RuntimeConfigInner, SameForce
  <2>3. Goes(t, "get_device", local[t])  BY <1>2 DEF SetDevice
  <2> QED BY <1>2, <2>1, <2>2, <2>3, SyncMoves DEF SetDevice, rowVars
<1>3. ASSUME NEW t \in Tasks, GetDevice(t) PROVE PersistInv'
  <2>1. t \in Syncs /\ Running(t)  BY <1>3, KindOfStep DEF GetDevice, TasksOK, Needs, Running
  <2>2. SameForce  BY <1>3 DEF GetDevice, SameForce
  <2>3. PICK next \in {"fetch", "done"}, l \in {Unread, [local[t] EXCEPT !.device_id = inner.device_id]} :
          Goes(t, next, l)
    BY <1>3 DEF GetDevice, Ends
  <2> QED BY <1>3, <2>1, <2>2, <2>3, SyncMoves DEF GetDevice, rowVars, historyVars
<1>4. ASSUME NEW t \in Tasks, StoreProfile(t) PROVE PersistInv'
  <2> DEFINE p == local[t].answer.deployment_profile
  <2>1. t \in Syncs /\ pc[t] \in Answered
    BY <1>4, KindOfStep DEF StoreProfile, TasksOK, Needs, Answered
  <2>2. Goes(t, "apply_profile", local[t]) /\ pc'[t] = "apply_profile" /\ local'[t] = local[t]
    BY <1>4, GoesAlone DEF StoreProfile
  <2>3. p \in Profiles /\ p.id \in ProfileIds
    BY <1>4, AnswerTyped DEF StoreProfile, TasksOK, Needs
  <2>4. profileRows'[p.id] = Stored(p)  BY <1>4, <2>3 DEF StoreProfile, SharedOK
  <2>5. Progress(t)'  BY <2>2, <2>4 DEF Progress
  <2> QED BY <1>4, <2>1, <2>2, <2>5, AnsweredMoves DEF StoreProfile, historyVars
<1>5. ASSUME NEW t \in Tasks, ApplyProfile(t) PROVE PersistInv'
  <2> DEFINE a == local[t].answer
             next == IF t = Restore THEN "lane_rows" ELSE AfterProfile(a)
  <2>1. /\ pc[t] = "apply_profile" /\ t \in Writers
        /\ Goes(t, next, local[t]) /\ pc'[t] = next /\ local'[t] = local[t]
    BY <1>5, GoesAlone, KindOfStep DEF ApplyProfile, TasksOK, Needs
  <2>2. UNCHANGED <<profileRows, laneRows, deviceRow, agreed, alone, unreadable>>
    BY <1>5 DEF ApplyProfile, rowVars
  <2>3. inner'.deployment_profile = a.deployment_profile
    BY <1>5 DEF ApplyProfile, SharedOK, RuntimeConfigInner
  <2>4. CASE t = Restore
    <3>1. Complete(agreed) /\ ~unreadable' => Restored'
      BY <2>1, <2>2, <2>3, <2>4 DEF PersistInv, Agreement, Restored, AgreedProfile
    <3> QED BY <2>1, <2>2, <2>4, <3>1, RestoreMoves DEF Running
  <2>5. CASE t # Restore
    <3>1. t \in Syncs /\ pc[t] \in Answered  BY <2>1, <2>5 DEF Writers, Answered
    <3>2. Complete(a) => next = "store_lane"  BY <2>5 DEF Complete, AfterProfile
    <3>3. t \in alone => Progress(t)'
      BY <2>1, <2>2, <2>3, <3>2 DEF PersistInv, Undisturbed, Progress, Complete
    <3> QED BY <2>1, <2>2, <3>1, <3>3, AnsweredMoves
  <2> QED BY <2>4, <2>5
<1>6. ASSUME NEW t \in Tasks, StoreLane(t) PROVE PersistInv'
  <2> DEFINE n == local[t].answer.lane
  <2>1. t \in Syncs /\ pc[t] = "store_lane" /\ pc[t] \in Answered
    BY <1>6, KindOfStep DEF StoreLane, TasksOK, Needs, Answered
  <2>2. Goes(t, "apply_lane", local[t]) /\ pc'[t] = "apply_lane" /\ local'[t] = local[t]
    BY <1>6, GoesAlone DEF StoreLane
  <2>3. n \in Lanes /\ n.id \in LaneIds  BY <1>6, AnswerTyped DEF StoreLane, TasksOK, Needs
  <2>4. laneRows'[n.id] = n  BY <1>6, <2>3 DEF StoreLane, SharedOK
  <2>5. UNCHANGED <<profileRows, inner, alone, agreed>>  BY <1>6 DEF StoreLane, historyVars
  <2>6. t \in alone => Progress(t)'
    BY <2>1, <2>2, <2>4, <2>5 DEF PersistInv, Undisturbed, Progress, Complete
  <2> QED BY <2>1, <2>2, <2>5, <2>6, AnsweredMoves
<1>7. ASSUME NEW t \in Tasks, ApplyLane(t) PROVE PersistInv'
  <2> DEFINE n == local[t].answer.lane
  <2>1. pc[t] = "apply_lane" /\ t \in Writers
    BY <1>7, KindOfStep DEF ApplyLane, TasksOK, Needs
  <2>2. UNCHANGED <<profileRows, laneRows, deviceRow, agreed, alone, unreadable>>
    BY <1>7 DEF ApplyLane, rowVars
  <2>3. /\ inner'.deployment_profile = inner.deployment_profile /\ inner'.lane = n
        /\ n.default_policy_id # NoPolicy => inner'.active_policy_id = n.default_policy_id
    BY <1>7 DEF ApplyLane, SharedOK, RuntimeConfigInner
  <2>4. CASE t = Restore
    <3>1. Goes(t, "done", Unread) /\ pc'[t] = "done"  BY <1>7, <2>4, GoesAlone DEF ApplyLane, Ends
    <3>2. Complete(agreed) /\ ~unreadable' => Restored'
      BY <2>1, <2>2, <2>3, <2>4, <3>1
         DEF PersistInv, Agreement, Restored, AgreedProfile, AgreedLane, Complete
    <3> QED BY <2>1, <2>2, <2>4, <3>1, <3>2, RestoreMoves DEF Running
  <2>5. CASE t # Restore
    <3>1. t \in Syncs /\ pc[t] \in Answered  BY <2>1, <2>5 DEF Writers, Answered
    <3>2. Goes(t, "store_device", local[t]) /\ pc'[t] = "store_device" /\ local'[t] = local[t]
      BY <1>7, <2>5, GoesAlone DEF ApplyLane
    <3>3. t \in alone => Progress(t)'
      BY <2>1, <2>2, <2>3, <3>2 DEF PersistInv, Undisturbed, Progress, Complete
    <3> QED BY <2>2, <3>1, <3>2, <3>3, AnsweredMoves
  <2> QED BY <2>4, <2>5
<1>8. ASSUME NEW t \in Tasks, StoreDevice(t) PROVE PersistInv'
  <2> DEFINE a == local[t].answer
  <2>1. t \in Syncs /\ t \in Writers /\ pc[t] = "store_device" /\ Running(t)
    BY <1>8, KindOfStep DEF StoreDevice, TasksOK, Needs, Writers, Running
  <2>2. Goes(t, "done", Unread) /\ pc'[t] = "done"  BY <1>8, GoesAlone DEF StoreDevice, Ends
  <2>3. UNCHANGED <<profileRows, laneRows, inner, alone, unreadable>>  BY <1>8 DEF StoreDevice
  <2>4. Progress(t)'  BY <2>2 DEF Progress
  <2>5. \A u \in alone' : Undisturbed(u)'  BY <2>1, <2>2, <2>3, <2>4, WriterMoves
  <2>6. CASE t \notin alone
    <3>1. agreed' = NoAnswer  BY <1>8, <2>6 DEF StoreDevice
    <3> QED BY <2>5, <3>1 DEF PersistInv, Agreement, Complete, NoAnswer
  <2>7. CASE t \in alone
    <3>1. agreed' = a  BY <1>8, <2>7 DEF StoreDevice
    <3>2. \A u \in Writers : u # t => pc'[u] \in {"idle", "done"}
      <4>1. \A u \in Writers : u # t => pc'[u] = pc[u]  BY <2>2, GoesAlone DEF Tasks
      <4> QED BY <2>1, <2>7, <4>1 DEF PersistInv, Undisturbed, Running
    <3>3. \A u \in Syncs : pc'[u] \notin Answered  BY <2>2, <3>2 DEF Answered, Writers
    <3>4. pc'[Restore] = "done"
      <4>1. Needs(Restore, pc'[Restore], local'[Restore])
        BY <1>0, TasksStep DEF TasksOK
      <4> QED BY <1>0, <2>1, <3>2, <4>1 DEF Needs, StepsOf, RestoreSteps, Writers
    <3>5. ASSUME Complete(a)
          PROVE  /\ profileRows[a.deployment_profile.id] = Stored(a.deployment_profile)
                 /\ laneRows[a.lane.id] = a.lane
                 /\ inner.deployment_profile = a.deployment_profile
                 /\ inner.lane = a.lane /\ inner.active_policy_id = a.lane.default_policy_id
      BY <2>1, <2>7, <3>5 DEF PersistInv, Undisturbed, Progress
    <3>6. Complete(a) => deviceRow'.profile_id = a.deployment_profile.id
                         /\ deviceRow'.lane_id = a.lane.id
      BY <1>8 DEF StoreDevice, Complete
    <3>7. Agreement'
      BY <2>3, <3>1, <3>3, <3>4, <3>5, <3>6
         DEF Agreement, Complete, AgreedRows, Restored, AgreedProfile, AgreedLane
    <3> QED BY <2>5, <3>7 DEF PersistInv
  <2> QED BY <2>6, <2>7
<1>9. ASSUME NEW t \in Tasks, StoreFails(t) PROVE PersistInv'
  <2>1. t \in Syncs /\ pc[t] \in Answered
    BY <1>9, KindOfStep DEF StoreFails, TasksOK, Needs, Answered
  <2>2. Goes(t, "done", Unread) /\ pc'[t] = "done"  BY <1>9, GoesAlone DEF StoreFails, Ends
  <2>3. Progress(t)'  BY <2>2 DEF Progress
  <2> QED BY <1>9, <2>1, <2>2, <2>3, AnsweredMoves DEF StoreFails, historyVars
<1>10. ASSUME NEW t \in Tasks, TakeGuard(t) PROVE PersistInv'
  <2>1. t \in Viewers  BY <1>10, KindOfStep DEF TakeGuard, TasksOK, Needs
  <2>2. PICK next, l : Goes(t, next, l)  BY <1>10 DEF TakeGuard, Ends
  <2> QED BY <1>10, <2>1, <2>2, ViewerMoves DEF TakeGuard, rowVars, historyVars
<1>11. ASSUME NEW t \in Tasks, ReadTtl(t) PROVE PersistInv'
  <2>1. t \in Viewers  BY <1>11, KindOfStep DEF ReadTtl, TasksOK, Needs
  <2>2. PICK next, l : Goes(t, next, l)  BY <1>11 DEF ReadTtl, Ends
  <2> QED BY <1>11, <2>1, <2>2, ViewerMoves DEF ReadTtl, rowVars, historyVars
<1>12. ASSUME NEW t \in Tasks, ReadBiometric(t) PROVE PersistInv'
  <2>1. t \in Viewers  BY <1>12, KindOfStep DEF ReadBiometric, TasksOK, Needs
  <2>2. PICK next, l : Goes(t, next, l)  BY <1>12 DEF ReadBiometric, Ends
  <2> QED BY <1>12, <2>1, <2>2, ViewerMoves DEF ReadBiometric, rowVars, historyVars
<1>13. ASSUME NEW t \in Tasks, Reply(t) PROVE PersistInv'
  <2>1. t \in Viewers  BY <1>13, KindOfStep DEF Reply, TasksOK, Needs
  <2>2. PICK next, l : Goes(t, next, l)  BY <1>13 DEF Reply, Ends
  <2> QED BY <1>13, <2>1, <2>2, ViewerMoves DEF Reply, rowVars, historyVars
<1>14. ASSUME NEW t \in Tasks, Rollout(t) PROVE PersistInv'
  <2>1. t \in Viewers  BY <1>14, KindOfStep DEF Rollout, TasksOK, Needs
  <2>2. PICK next, l : Goes(t, next, l)  BY <1>14 DEF Rollout, Ends
  <2> QED BY <1>14, <2>1, <2>2, ViewerMoves DEF Rollout, rowVars, historyVars
<1>15. ASSUME NEW t \in Tasks, Fetch(t) PROVE PersistInv'
  <2>1. t \in Syncs /\ t \in Writers /\ Running(t)
    BY <1>15, KindOfStep DEF Fetch, TasksOK, Needs, Writers, Running
  <2>2. PICK a \in Answers :
          Goes(t, IF a.deployment_profile # NoProfile THEN "store_profile" ELSE AfterProfile(a),
               [local[t] EXCEPT !.answer = a])
    BY <1>15 DEF Fetch
  <2>3. local'[t].answer = a
    <3>1. local'[t] = [local[t] EXCEPT !.answer = a]  BY <2>2, GoesAlone
    <3> QED BY <3>1 DEF TasksOK, Local
  <2>4. a.deployment_profile # NoProfile => pc'[t] = "store_profile"  BY <2>2, GoesAlone
  <2>5. Progress(t)'  BY <2>3, <2>4 DEF Progress, Complete
  <2>6. alone' = alone /\ agreed' = NoAnswer  BY <1>15 DEF Fetch
  <2>7. \A u \in alone' : Undisturbed(u)'  BY <2>1, <2>2, <2>5, <2>6, WriterMoves
  <2> QED BY <2>6, <2>7 DEF PersistInv, Agreement, Complete, NoAnswer
<1>16. ASSUME NEW t \in Tasks, FetchFails(t) PROVE PersistInv'
  <2>1. t \in Syncs /\ Running(t)  BY <1>16, KindOfStep DEF FetchFails, TasksOK, Needs, Running
  <2>2. SameForce /\ Goes(t, "done", Unread)  BY <1>16 DEF FetchFails, SameForce, Ends
  <2> QED BY <1>16, <2>1, <2>2, SyncMoves DEF FetchFails, rowVars, historyVars
<1>17. ASSUME NEW t \in Tasks, FindUpdate(t) PROVE PersistInv'
  <2>1. t \in Viewers  BY <1>17, KindOfStep DEF FindUpdate, TasksOK, Needs
  <2>2. PICK next, l : Goes(t, next, l)  BY <1>17 DEF FindUpdate, Ends
  <2> QED BY <1>17, <2>1, <2>2, ViewerMoves DEF FindUpdate, rowVars, historyVars
<1>18. ASSUME NEW t \in Tasks, Install(t) PROVE PersistInv'
  <2>1. t \in Viewers  BY <1>18, KindOfStep DEF Install, TasksOK, Needs
  <2>2. PICK next, l : Goes(t, next, l)  BY <1>18 DEF Install, Ends
  <2> QED BY <1>18, <2>1, <2>2, ViewerMoves DEF Install, rowVars, historyVars
<1>19. ASSUME NEW t \in Tasks, BeginQuery(t) PROVE PersistInv'
  <2>1. t \in Viewers  BY <1>19 DEF BeginQuery
  <2>2. PICK next, l : Goes(t, next, l)  BY <1>19 DEF BeginQuery
  <2> QED BY <1>19, <2>1, <2>2, ViewerMoves DEF BeginQuery, rowVars, historyVars
<1>20. ASSUME NEW t \in Tasks, BeginInstall(t) PROVE PersistInv'
  <2>1. t \in Viewers  BY <1>20 DEF BeginInstall
  <2>2. PICK next, l : Goes(t, next, l)  BY <1>20 DEF BeginInstall
  <2> QED BY <1>20, <2>1, <2>2, ViewerMoves DEF BeginInstall, rowVars, historyVars
<1>21. ASSUME NEW t \in Tasks, NEW d \in Devices, BeginSync(t, d) PROVE PersistInv'
  <2>1. t \in Syncs /\ t \in Writers /\ t # Restore  BY <1>0, <1>21 DEF BeginSync, Syncs, Writers
  <2>2. pc'[t] = "set_device" /\ \A u \in Tasks : u # t => pc'[u] = pc[u] /\ local'[u] = local[u]
    BY <1>21, GoesAlone DEF BeginSync
  <2>3. SameForce /\ UNCHANGED <<profileRows, laneRows, deviceRow, agreed, unreadable>>
    BY <1>21 DEF BeginSync, SameForce, rowVars
  <2>4. \A u \in Syncs : pc'[u] \in Answered => pc[u] \in Answered
    BY <2>2 DEF Answered, Tasks, Writers
  <2>5. Agreement'  BY <1>0, <2>1, <2>2, <2>3, <2>4, AgreementKept DEF PersistInv
  <2>6. ASSUME NEW u \in alone' PROVE Undisturbed(u)'
    <3>1. u = t /\ \A v \in Writers : ~Running(v)  BY <1>21, <2>6 DEF BeginSync
    <3>2. \A v \in Writers : v # t => ~Running(v)'  BY <2>2, <3>1 DEF Running, Tasks
    <3>3. Progress(t)'  BY <2>2 DEF Progress
    <3> QED BY <2>1, <3>1, <3>2, <3>3 DEF Undisturbed
  <2> QED BY <2>5, <2>6 DEF PersistInv
<1>22. CASE ReadDeviceRow
  <2>1. Running(Restore)  BY <1>22 DEF ReadDeviceRow, Running
  <2>2. UNCHANGED <<profileRows, laneRows, deviceRow, inner, agreed, alone, unreadable>>
    BY <1>22 DEF ReadDeviceRow, rowVars, historyVars
  <2>3. PICK next, l : Goes(Restore, next, l)  BY <1>22 DEF ReadDeviceRow, Ends
  <2>4. ASSUME Complete(agreed) PROVE Restored'
    <3>1. deviceRow.profile_id = agreed.deployment_profile.id  BY <2>4 DEF PersistInv, Agreement, AgreedRows
    <3>2. agreed.deployment_profile.id \in ProfileIds
      BY <2>4, RuntimeAssumption DEF SharedOK, Answer, Complete, Profile
    <3>3. deviceRow # NoRow  BY <3>1, <3>2, RuntimeAssumption DEF NoRow
    <3> DEFINE m == [local[Restore] EXCEPT !.row = deviceRow]
    <3>4. pc'[Restore] = "profile_row" /\ local'[Restore] = m
      BY <1>0, <1>22, <3>3, GoesAlone DEF ReadDeviceRow
    <3>5. m.row = deviceRow  BY <1>0 DEF TasksOK, Local
    <3> QED BY <2>2, <3>4, <3>5 DEF Restored
  <2> QED BY <2>1, <2>2, <2>3, <2>4, RestoreMoves
<1>23. CASE ReadProfileRow
  <2>1. Running(Restore) /\ pc[Restore] = "profile_row"  BY <1>23 DEF ReadProfileRow, Running
  <2>2. UNCHANGED <<profileRows, laneRows, deviceRow, inner, agreed, alone, unreadable>>
    BY <1>23 DEF ReadProfileRow, rowVars, historyVars
  <2>3. PICK next, l : Goes(Restore, next, l)  BY <1>23 DEF ReadProfileRow, Ends
  <2>4. ASSUME Complete(agreed), ~unreadable PROVE Restored'
    <3> DEFINE p == agreed.deployment_profile
    <3>1. local[Restore].row = deviceRow  BY <2>1, <2>4 DEF PersistInv, Agreement, Restored
    <3>2. deviceRow.profile_id = p.id /\ profileRows[p.id] = Stored(p)
      BY <2>4 DEF PersistInv, Agreement, AgreedRows
    <3>3. p \in Profiles /\ p.id \in ProfileIds
      BY <2>4, RuntimeAssumption DEF SharedOK, Answer, Complete, Profile
    <3>4. p.id # NoId /\ Stored(p) # NoProfile  BY <3>3, RuntimeAssumption
    <3> DEFINE m == [local[Restore] EXCEPT !.answer.deployment_profile = Stored(p)]
    <3>5. pc'[Restore] = "apply_profile" /\ local'[Restore] = m
      BY <1>0, <1>23, <3>1, <3>2, <3>4, GoesAlone DEF ReadProfileRow
    <3>6. m.row = local[Restore].row /\ m.answer.deployment_profile = Stored(p)
      BY <1>0 DEF TasksOK, Local, Answer
    <3> QED BY <2>2, <3>1, <3>5, <3>6 DEF Restored
  <2> QED BY <2>1, <2>2, <2>3, <2>4, RestoreMoves
<1>24. CASE ReadLaneRows
  <2>1. Running(Restore) /\ pc[Restore] = "lane_rows"  BY <1>24 DEF ReadLaneRows, Running
  <2>2. UNCHANGED <<profileRows, laneRows, deviceRow, inner, agreed, alone, unreadable>>
    BY <1>24 DEF ReadLaneRows, rowVars, historyVars
  <2>3. PICK next, l : Goes(Restore, next, l)  BY <1>24 DEF ReadLaneRows, Ends
  <2>4. ASSUME Complete(agreed), ~unreadable PROVE Restored'
    <3> DEFINE n == agreed.lane
    <3>1. local[Restore].row = deviceRow /\ AgreedProfile
      BY <2>1, <2>4 DEF PersistInv, Agreement, Restored
    <3>2. /\ deviceRow.profile_id = n.deployment_profile_id /\ deviceRow.lane_id = n.id
          /\ laneRows[n.id] = n
      BY <2>4 DEF PersistInv, Agreement, AgreedRows, Complete
    <3>3. n \in Lanes /\ n.id \in LaneIds
      BY <2>4, RuntimeAssumption DEF SharedOK, Answer, Complete, Lane
    <3>4. LanesOf(deviceRow) = {n}
      <4>1. n \in LanesOf(deviceRow)  BY <3>2, <3>3 DEF LanesOf
      <4>2. ASSUME NEW k \in LanesOf(deviceRow) PROVE k = n
        <5>1. PICK i \in LaneIds : k = laneRows[i]  BY DEF LanesOf
        <5>2. k \in Lanes /\ k.id = n.id  BY <3>2 DEF LanesOf
        <5>3. k.id = i  BY <5>1, <5>2, RuntimeAssumption DEF RowsInv
        <5> QED BY <3>2, <5>1, <5>2, <5>3
      <4> QED BY <4>1, <4>2
    <3> DEFINE m == [local[Restore] EXCEPT !.answer.lane = n]
    <3>5. Goes(Restore, "apply_lane", m)  BY <1>24, <3>1, <3>4 DEF ReadLaneRows
    <3>6. pc'[Restore] = "apply_lane" /\ local'[Restore] = m  BY <1>0, <3>5, GoesAlone
    <3>7. m.answer.lane = n  BY <1>0 DEF TasksOK, Local, Answer
    <3> QED BY <2>2, <3>1, <3>6, <3>7 DEF Restored, AgreedProfile
  <2> QED BY <2>1, <2>2, <2>3, <2>4, RestoreMoves
<1>25. CASE RestoreFails
  <2>1. Running(Restore) /\ unreadable' = TRUE  BY <1>25 DEF RestoreFails, Running
  <2>2. PICK next, l : Goes(Restore, next, l)  BY <1>25 DEF RestoreFails, Ends
  <2> QED BY <1>25, <2>1, <2>2, RestoreMoves DEF RestoreFails, rowVars
<1>26. CASE Crash
  <2>1. UNCHANGED <<profileRows, laneRows, deviceRow, agreed>> /\ alone' = {}
    BY <1>26 DEF Crash, rowVars
  <2>2. pc'[Restore] = "device_row"  BY <1>0, <1>26 DEF Crash, AtStart
  <2>3. \A u \in Syncs : pc'[u] \notin Answered
    BY <1>0, <1>26 DEF Crash, AtStart, Answered, Tasks, Writers
  <2>4. Agreement'
    BY <2>1, <2>2, <2>3 DEF PersistInv, Agreement, Complete, AgreedRows, Restored
  <2> QED BY <2>1, <2>4 DEF PersistInv
<1>27. CASE UNCHANGED vars
  BY <1>27 DEF vars, rowVars, historyVars, PersistInv, Agreement, Complete, AgreedRows,
     AgreedProfile, AgreedLane, Restored, Undisturbed, Running, Progress
<1> QED BY <1>1, <1>2, <1>3, <1>4, <1>5, <1>6, <1>7, <1>8, <1>9, <1>10, <1>11, <1>12, <1>13, <1>14, <1>15, <1>16, <1>17, <1>18, <1>19, <1>20, <1>21, <1>22, <1>23, <1>24, <1>25, <1>26, <1>27 DEF Next, Works

(* "... for persistence across restarts": what a sync that ran beside no   *)
(* other has stored is what profile_sync.rs brings back, to the lane and   *)
(* its policy, and what is in force whenever no task writes.               *)
THEOREM AssignmentPersistsHolds == Spec => []AssignmentPersists
<1>1. Init => PersistInv
  BY RuntimeAssumption DEF Init, NoAnswer, PersistInv, Agreement, Complete
<1>2. TypeOK /\ RowsInv /\ PersistInv /\ [Next]_vars => PersistInv'  BY TypeParts, PersistStep
<1>3. TypeOK /\ PersistInv => AssignmentPersists
  <2> SUFFICES ASSUME TypeOK, PersistInv, Complete(agreed), ~unreadable,
                      \A t \in Writers : ~Running(t)
               PROVE  AgreedProfile /\ AgreedLane
    BY DEF AssignmentPersists, AgreedProfile, AgreedLane
  <2>1. Restore \in Writers /\ Restore \in Tasks  BY DEF Writers, Tasks
  <2>2. pc[Restore] = "done"
    BY <2>1, TypeParts DEF TasksOK, Needs, StepsOf, RestoreSteps, Running
  <2> QED BY <2>2 DEF PersistInv, Agreement, Restored
<1> QED BY <1>1, <1>2, <1>3, TypeHolds, RowsHold, PTL DEF Spec

-------------------------------------------------------------------------------
(* The lock.  Whoever waits for it waits once, and is at a step that takes *)
(* it.                                                                     *)
LockSteps == WriteSteps \cup ReadSteps

QueueInv ==
  /\ \A i, j \in DOMAIN queue : queue[i] = queue[j] => i = j
  /\ \A i \in DOMAIN queue : pc[queue[i]] \in LockSteps

\* A step that takes the lock, of a task that waits or of one that comes.
TakesLock(t) == Enters(t) /\ pc[t] \in LockSteps

\* A step that neither takes the lock nor waits for it.
Elsewhere(t) == UNCHANGED queue /\ pc[t] \notin LockSteps

Moves(t) == t \in Tasks /\ \A u \in Tasks : u # t => pc'[u] = pc[u]

(* A step of a process takes the lock, waits for it, or has nothing to do  *)
(* with it; only a writer changes what is in force.                        *)
LEMMA LockMoves ==
  ASSUME TasksOK, Next, ~Crash
  PROVE  \E t \in Tasks :
           \/ Wait(t)
           \/ /\ Moves(t) /\ (TakesLock(t) \/ Elsewhere(t))
              /\ inner' = inner \/ pc[t] \in WriteSteps
<1> USE DEF LockSteps, WriteSteps, ReadSteps
<1>1. ASSUME NEW t \in Tasks, Wait(t) PROVE \E u \in Tasks : Wait(u)
  BY <1>1
<1> DEFINE Moved(t) == /\ Moves(t) /\ (TakesLock(t) \/ Elsewhere(t))
                       /\ inner' = inner \/ pc[t] \in WriteSteps
<1>2. ASSUME NEW t \in Tasks, NEW next, NEW l, Goes(t, next, l) PROVE Moves(t)
  BY <1>2, GoesAlone DEF Moves
<1>3. ASSUME NEW t \in Tasks, Ends(t) PROVE Moves(t)
  BY <1>2, <1>3 DEF Ends
<1>4. ASSUME NEW t \in Tasks, SetDevice(t) \/ ApplyProfile(t) PROVE Moved(t)
  BY <1>2, <1>4 DEF SetDevice, ApplyProfile, TakesLock
<1>5. ASSUME NEW t \in Tasks, ApplyLane(t) PROVE Moved(t)
  BY <1>2, <1>3, <1>5 DEF ApplyLane, TakesLock
<1>6. ASSUME NEW t \in Tasks, GetDevice(t) PROVE Moved(t)
  BY <1>2, <1>3, <1>6 DEF GetDevice, TakesLock
<1>7. ASSUME NEW t \in Tasks, TakeGuard(t) \/ ReadTtl(t) \/ ReadBiometric(t) PROVE Moved(t)
  BY <1>2, <1>7 DEF TakeGuard, ReadTtl, ReadBiometric, TakesLock
<1>8. ASSUME NEW t \in Tasks, StoreProfile(t) \/ StoreLane(t) \/ Fetch(t) PROVE Moved(t)
  BY <1>2, <1>8 DEF StoreProfile, StoreLane, Fetch, Elsewhere
<1>9. ASSUME NEW t \in Tasks,
             StoreDevice(t) \/ StoreFails(t) \/ FetchFails(t) \/ Reply(t) \/ Install(t)
      PROVE  Moved(t)
  BY <1>3, <1>9 DEF StoreDevice, StoreFails, FetchFails, Reply, Install, Elsewhere
<1>10. ASSUME NEW t \in Tasks, FindUpdate(t) \/ Rollout(t) PROVE Moved(t)
  BY <1>2, <1>3, <1>10 DEF FindUpdate, Rollout, Elsewhere
<1>11. ASSUME NEW t \in Tasks, BeginQuery(t) \/ BeginInstall(t) PROVE Moved(t)
  BY <1>2, <1>11 DEF BeginQuery, BeginInstall, Elsewhere
<1>12. ASSUME NEW t \in Tasks, NEW d \in Devices, BeginSync(t, d) PROVE Moved(t)
  BY <1>2, <1>12 DEF BeginSync, Elsewhere
<1>13. ASSUME ReadDeviceRow \/ ReadProfileRow \/ ReadLaneRows \/ RestoreFails PROVE Moved(Restore)
  <2>1. Restore \in Tasks  BY DEF Tasks, Writers
  <2> QED BY <1>2, <1>3, <1>13, <2>1
       DEF ReadDeviceRow, ReadProfileRow, ReadLaneRows, RestoreFails, Elsewhere
<1> HIDE DEF Moved
<1>15. (\E t \in Tasks : Wait(t)) \/ (\E t \in Tasks : Moved(t)) \/ Moved(Restore)
  BY <1>1, <1>4, <1>5, <1>6, <1>7, <1>8, <1>9, <1>10, <1>11, <1>12, <1>13 DEF Next, Works
<1> QED BY <1>15 DEF Moved, Tasks, Writers

(* Whoever enters is no longer in the queue, and the others move up.       *)
LEMMA QueueMoves ==
  ASSUME queue \in Seq(Tasks), NEW t \in Tasks, Enters(t)
  PROVE  /\ queue = <<>> => queue' = queue
         /\ queue # <<>> =>
              /\ queue[1] = t
              /\ DOMAIN queue' = 1 .. Len(queue) - 1
              /\ \A i \in DOMAIN queue' : i + 1 \in DOMAIN queue /\ queue'[i] = queue[i + 1]
BY DEF Enters

(* Nobody waits twice, and a task waits at the step it is at.              *)
LEMMA QueueStep ==
  ASSUME TasksOK, SharedOK, QueueInv, [Next]_vars
  PROVE  QueueInv'
<1> USE DEF QueueInv
<1>1. CASE UNCHANGED vars  BY <1>1 DEF vars
<1>2. CASE Crash
  <2>1. DOMAIN queue' = {}  BY <1>2 DEF Crash
  <2> QED BY <2>1
<1>3. ASSUME NEW t \in Tasks, Wait(t) PROVE QueueInv'
  <2>1. t \notin Waiting /\ pc[t] \in LockSteps /\ queue' = Append(queue, t) /\ pc' = pc
    BY <1>3 DEF Wait, LockSteps
  <2>2. /\ DOMAIN queue' = 1 .. Len(queue) + 1 /\ DOMAIN queue = 1 .. Len(queue)
        /\ Len(queue) \in Nat
        /\ queue'[Len(queue) + 1] = t /\ \A i \in DOMAIN queue : queue'[i] = queue[i]
    BY <2>1 DEF SharedOK
  <2>3. \A i \in DOMAIN queue : queue[i] # t  BY <2>1 DEF Waiting
  <2>4. \A i \in DOMAIN queue' : i \in DOMAIN queue \/ i = Len(queue) + 1  BY <2>2
  <2> QED BY <2>1, <2>2, <2>3, <2>4
<1>4. ASSUME NEW t \in Tasks, Moves(t), Elsewhere(t) PROVE QueueInv'
  <2>1. queue' = queue /\ pc[t] \notin LockSteps  BY <1>4 DEF Elsewhere
  <2>2. \A i \in DOMAIN queue : queue[i] \in Tasks /\ queue[i] # t  BY <2>1 DEF SharedOK
  <2> QED BY <1>4, <2>1, <2>2 DEF Moves
<1>5. ASSUME NEW t \in Tasks, Moves(t), TakesLock(t) PROVE QueueInv'
  <2>1. CASE queue = <<>>
    <3>1. queue' = <<>> /\ DOMAIN queue' = {}  BY <1>5, <2>1 DEF TakesLock, Enters
    <3> QED BY <3>1
  <2>2. CASE queue # <<>>
    <3>1. /\ queue[1] = t /\ 1 \in DOMAIN queue
          /\ DOMAIN queue' = 1 .. Len(queue) - 1 /\ Len(queue) \in Nat
          /\ \A i \in DOMAIN queue' : i + 1 \in DOMAIN queue /\ queue'[i] = queue[i + 1]
      BY <1>5, <2>2, QueueMoves DEF TakesLock, SharedOK
    <3>2. \A i \in DOMAIN queue' : i \in Int /\ i + 1 # 1  BY <3>1
    <3>3. \A i \in DOMAIN queue' : queue'[i] # t  BY <3>1, <3>2
    <3>4. \A i \in DOMAIN queue : queue[i] \in Tasks  BY DEF SharedOK
    <3>5. \A i \in DOMAIN queue' : pc'[queue'[i]] \in LockSteps
      BY <1>5, <3>1, <3>3, <3>4 DEF Moves
    <3>6. \A i, j \in DOMAIN queue' : queue'[i] = queue'[j] => i = j
      BY <3>1, <3>2
    <3> QED BY <3>5, <3>6
  <2> QED BY <2>1, <2>2
<1>6. CASE Next /\ ~Crash  BY <1>3, <1>4, <1>5, <1>6, LockMoves
<1> QED BY <1>1, <1>2, <1>6

(* The queue stays in order.                                               *)
LEMMA QueueHolds == Spec => []QueueInv
<1>1. Init => QueueInv  BY DEF Init, QueueInv
<1>2. TypeOK /\ QueueInv /\ [Next]_vars => QueueInv'  BY TypeParts, QueueStep
<1> QED BY <1>1, <1>2, TypeHolds, PTL DEF Spec

(* A snapshot h is wedged by the n-th task of the queue, and task t, which *)
(* waits there or behind, with it.                                         *)
WedgedAt(h, n, t) ==
  /\ h \in Holders /\ pc[h] \in ReadSteps
  /\ n \in DOMAIN queue /\ pc[queue[n]] \in WriteSteps
  /\ \A m \in 1 .. n : queue[m] # h
  /\ \E k \in DOMAIN queue : n <= k /\ queue[k] = t

StuckBehind(h, t) == \E n \in DOMAIN queue : WedgedAt(h, n, t)

LEMMA WedgesSomebody ==
  ASSUME SharedOK, NEW h
  PROVE  /\ Wedges(h) => \E n \in DOMAIN queue : WedgedAt(h, n, queue[n])
         /\ \A t : StuckBehind(h, t) => Wedges(h)
<1>1. \A n \in DOMAIN queue : n <= n  BY DEF SharedOK
<1> QED BY <1>1 DEF Wedges, WedgedAt, StuckBehind

(* No step of a process unwedges a snapshot or what waits behind it, and   *)
(* none changes what is in force.                                          *)
LEMMA WedgeStep ==
  ASSUME TasksOK, SharedOK, QueueInv, [Next]_vars, crashes' = crashes,
         NEW h \in Viewers, NEW n, NEW u, WedgedAt(h, n, u)
  PROVE  StuckBehind(h, u)' /\ inner' = inner
<1> USE DEF WriteSteps, ReadSteps
<1>0. h \in Tasks /\ h \in Holders /\ pc[h] \in {"ttl", "biometric"}
  BY DEF WedgedAt, Tasks, Holders
<1>1. PICK k \in DOMAIN queue : n <= k /\ queue[k] = u  BY DEF WedgedAt
<1>2. /\ DOMAIN queue = 1 .. Len(queue) /\ Len(queue) \in Nat /\ n \in Nat /\ 1 <= n
      /\ queue # <<>> /\ queue[n] \in Tasks /\ n \in DOMAIN queue
      /\ pc[queue[n]] \in WriteSteps /\ \A m \in 1 .. n : queue[m] # h
  BY DEF SharedOK, WedgedAt
<1>3. ASSUME NEW t \in Tasks, Wait(t) PROVE StuckBehind(h, u)' /\ inner' = inner
  <2>1. pc' = pc /\ inner' = inner /\ queue' = Append(queue, t)  BY <1>3 DEF Wait
  <2>2. DOMAIN queue \subseteq DOMAIN queue' /\ \A m \in DOMAIN queue : queue'[m] = queue[m]
    BY <2>1 DEF SharedOK
  <2>3. \A m \in 1 .. n : queue'[m] # h  BY <1>2, <2>2
  <2> QED BY <1>0, <1>1, <1>2, <2>1, <2>2, <2>3 DEF WedgedAt, StuckBehind, Holders
<1>4. ASSUME NEW t \in Tasks, Moves(t), Elsewhere(t), inner' = inner \/ pc[t] \in WriteSteps
      PROVE  StuckBehind(h, u)' /\ inner' = inner
  <2>1. queue' = queue /\ t # h /\ t # queue[n] /\ inner' = inner
    BY <1>0, <1>2, <1>4 DEF Elsewhere, LockSteps
  <2>2. pc'[h] = pc[h] /\ pc'[queue[n]] = pc[queue[n]]  BY <1>0, <1>2, <1>4, <2>1 DEF Moves
  <2> QED BY <1>0, <1>1, <1>2, <2>1, <2>2 DEF WedgedAt, StuckBehind, Holders
<1>5. ASSUME NEW t \in Tasks, Moves(t), TakesLock(t), inner' = inner \/ pc[t] \in WriteSteps
      PROVE  StuckBehind(h, u)' /\ inner' = inner
  <2>1. /\ queue[1] = t /\ DOMAIN queue' = 1 .. Len(queue) - 1
        /\ \A i \in DOMAIN queue' : i + 1 \in DOMAIN queue /\ queue'[i] = queue[i + 1]
    BY <1>2, <1>5, QueueMoves DEF TakesLock, SharedOK
  <2>2. pc[t] \notin WriteSteps  BY <1>0, <1>5 DEF TakesLock, Enters
  <2>3. t # h /\ n # 1  BY <1>2, <2>1, <2>2
  <2>4. \A i \in n .. Len(queue) : i - 1 \in DOMAIN queue' /\ queue'[i - 1] = queue[i]
    <3> SUFFICES ASSUME NEW i \in n .. Len(queue)
                 PROVE  i - 1 \in DOMAIN queue' /\ queue'[i - 1] = queue[i]
      OBVIOUS
    <3>1. i - 1 \in 1 .. Len(queue) - 1 /\ (i - 1) + 1 = i  BY <1>2, <2>3
    <3> QED BY <2>1, <3>1
  <2>5. \A m \in 1 .. n - 1 : queue'[m] # h
    <3> SUFFICES ASSUME NEW m \in 1 .. n - 1 PROVE queue'[m] # h  OBVIOUS
    <3>1. m \in 1 .. Len(queue) - 1 /\ m + 1 \in 1 .. n  BY <1>2
    <3> QED BY <1>2, <2>1, <3>1
  <2>6. queue[n] # t  BY <1>2, <2>1, <2>3 DEF QueueInv
  <2>7. pc'[h] = pc[h] /\ pc'[queue[n]] = pc[queue[n]]
    BY <1>0, <1>2, <1>5, <2>3, <2>6 DEF Moves
  <2>8. n \in n .. Len(queue) /\ k \in n .. Len(queue) /\ n - 1 <= k - 1  BY <1>1, <1>2
  <2>9. pc'[queue'[n - 1]] \in WriteSteps /\ n - 1 \in DOMAIN queue'
    BY <1>2, <2>4, <2>7, <2>8
  <2>10. k - 1 \in DOMAIN queue' /\ queue'[k - 1] = u  BY <1>1, <2>4, <2>8
  <2>11. h \in Holders' /\ pc'[h] \in ReadSteps  BY <1>0, <2>7 DEF Holders
  <2>12. WedgedAt(h, n - 1, u)'  BY <2>5, <2>8, <2>9, <2>10, <2>11 DEF WedgedAt
  <2> QED BY <1>5, <2>2, <2>9, <2>12 DEF StuckBehind
<1>6. CASE UNCHANGED vars  BY <1>1, <1>2, <1>0, <1>6 DEF vars, WedgedAt, StuckBehind, Holders
<1>7. ~Crash  BY DEF Crash, SharedOK
<1> QED BY <1>3, <1>4, <1>5, <1>6, <1>7, LockMoves

WedgeIsFinal ==
  [][crashes' = crashes => \A h \in Viewers : Wedges(h) => Wedges(h)' /\ inner' = inner]_vars

(* runtime_config.rs awaits the read lock again while it holds it: as long *)
(* as the process lives, no step of any task ends such a wedge, and none   *)
(* brings anything into force.                                             *)
THEOREM WedgeIsFinalHolds == Spec => WedgeIsFinal
<1>1. TypeOK /\ QueueInv /\ [Next]_vars =>
        [crashes' = crashes => \A h \in Viewers : Wedges(h) => Wedges(h)' /\ inner' = inner]_vars
  <2> SUFFICES ASSUME TypeOK, QueueInv, [Next]_vars, crashes' = crashes, NEW h \in Viewers, Wedges(h)
               PROVE  Wedges(h)' /\ inner' = inner
    OBVIOUS
  <2>1. PICK n, u : WedgedAt(h, n, u)  BY TypeParts, WedgesSomebody
  <2>2. StuckBehind(h, u)' /\ inner' = inner  BY <2>1, TypeParts, WedgeStep
  <2>3. \E i \in DOMAIN queue' : h \in Holders' /\ pc'[h] \in ReadSteps
          /\ pc'[queue'[i]] \in WriteSteps /\ \A m \in 1 .. i : queue'[m] # h
    BY <2>2 DEF StuckBehind, WedgedAt
  <2> QED BY <2>2, <2>3 DEF Wedges
<1> QED BY <1>1, TypeHolds, QueueHolds, PTL DEF Spec, WedgeIsFinal

(* In a process that goes on a wedged snapshot never returns, and whoever  *)
(* waits in the queue where its writer does or behind, another command, a  *)
(* snapshot, or the same one, never gets the lock.                         *)
THEOREM WedgedForEver ==
  ASSUME NEW h \in Viewers, NEW t \in Tasks
  PROVE  Spec /\ [][crashes' = crashes]_vars => [](StuckBehind(h, t) => []StuckBehind(h, t))
<1>1. TypeOK /\ QueueInv /\ [Next]_vars /\ [crashes' = crashes]_vars /\ StuckBehind(h, t)
        => StuckBehind(h, t)'
  <2> SUFFICES ASSUME TypeOK, QueueInv, [Next]_vars, [crashes' = crashes]_vars, StuckBehind(h, t)
               PROVE  StuckBehind(h, t)'
    OBVIOUS
  <2>1. crashes' = crashes  BY DEF vars
  <2>2. PICK n : WedgedAt(h, n, t)  BY DEF StuckBehind
  <2> QED BY <2>1, <2>2, TypeParts, WedgeStep
<1> QED BY <1>1, TypeHolds, QueueHolds, PTL DEF Spec

\* The lock is free for a task that is at a step that takes it.
MayEnter(t) ==
  /\ queue # <<>> => Head(queue) = t
  /\ pc[t] \in WriteSteps => Holders = {}

NoOtherDeadlock ==
  (\E t \in Tasks : pc[t] \in LockSteps) =>
    Wedged \/ \E t \in Tasks : pc[t] \in LockSteps /\ MayEnter(t)

(* Nothing else makes the lock of runtime_config.rs stand still: unless a  *)
(* snapshot is wedged, one of the tasks that want the lock may have it.    *)
THEOREM NoOtherDeadlockHolds == Spec => []NoOtherDeadlock
<1>1. TypeOK /\ QueueInv => NoOtherDeadlock
  <2> SUFFICES ASSUME TypeOK, QueueInv, NEW t \in Tasks, pc[t] \in LockSteps
               PROVE  Wedged \/ \E u \in Tasks : pc[u] \in LockSteps /\ MayEnter(u)
    BY DEF NoOtherDeadlock
  <2> USE DEF LockSteps, WriteSteps, ReadSteps
  <2>1. \A h \in Holders : h \in Viewers /\ h \in Tasks /\ pc[h] \in {"ttl", "biometric"}
    BY DEF Holders, Tasks
  <2>2. CASE queue = <<>>
    <3>1. CASE Holders = {}  BY <2>2, <3>1 DEF MayEnter
    <3>2. CASE Holders # {}
      <4>1. PICK h \in Holders : TRUE  BY <3>2
      <4> QED BY <2>1, <2>2, <4>1 DEF MayEnter
    <3> QED BY <3>1, <3>2
  <2>3. CASE queue # <<>>
    <3>1. 1 \in DOMAIN queue /\ Head(queue) = queue[1] /\ queue[1] \in Tasks
      BY <2>3 DEF TypeOK
    <3>2. pc[queue[1]] \in LockSteps  BY <3>1 DEF QueueInv
    <3>3. CASE pc[queue[1]] \in WriteSteps => Holders = {}
      BY <3>1, <3>2, <3>3 DEF MayEnter
    <3>4. CASE pc[queue[1]] \in WriteSteps /\ Holders # {}
      <4>1. PICK h \in Holders : TRUE  BY <3>4
      <4>2. \A m \in 1 .. 1 : queue[m] # h  BY <2>1, <3>4, <4>1
      <4> QED BY <2>1, <3>1, <3>4, <4>1, <4>2 DEF Wedges, Wedged
    <3> QED BY <3>3, <3>4
  <2> QED BY <2>2, <2>3
<1> QED BY <1>1, TypeHolds, QueueHolds, PTL

\* How far along its sequence a step is, whichever sequence it belongs to.
StepNumber ==
  [idle |-> 0, set_device |-> 1, device_row |-> 1, check |-> 1, get_device |-> 2,
   profile_row |-> 2, fetch |-> 3, snapshot |-> 3, store_profile |-> 4, ttl |-> 4,
   apply_profile |-> 5, biometric |-> 5, lane_rows |-> 6, store_lane |-> 6, apply_lane |-> 7,
   reply |-> 7, rollout |-> 7, store_device |-> 8, download |-> 8, done |-> 9]

Advances(t) == Moves(t) /\ StepNumber[pc'[t]] > StepNumber[pc[t]]

Queues(t) == t \notin Waiting /\ queue' = Append(queue, t) /\ pc' = pc

CallsAdvance ==
  [][crashes' = crashes => \E t \in Tasks : Advances(t) \/ Queues(t)]_vars

(* Each step goes by the numbers.                                          *)
LEMMA CallAdvances ==
  ASSUME TasksOK, Next, ~Crash
  PROVE  \E t \in Tasks : Advances(t) \/ Queues(t)
<1>1. ASSUME NEW t \in Tasks, Wait(t) PROVE Queues(t)
  BY <1>1 DEF Wait, Queues
<1>2. ASSUME NEW t \in Tasks, NEW next, NEW l, Goes(t, next, l),
             StepNumber[next] > StepNumber[pc[t]]
      PROVE  Advances(t)
  BY <1>2, GoesAlone DEF Advances, Moves
<1>3. ASSUME NEW t \in Tasks, Ends(t), StepNumber[pc[t]] < 9 PROVE Advances(t)
  BY <1>2, <1>3 DEF Ends, StepNumber
<1> USE DEF StepNumber
<1>4. ASSUME NEW t \in Tasks, SetDevice(t) PROVE Advances(t)  BY <1>2, <1>4 DEF SetDevice
<1>5. ASSUME NEW t \in Tasks, ApplyProfile(t) PROVE Advances(t)
  BY <1>2, <1>5 DEF ApplyProfile, AfterProfile
<1>6. ASSUME NEW t \in Tasks, ApplyLane(t) PROVE Advances(t)  BY <1>2, <1>3, <1>6 DEF ApplyLane
<1>7. ASSUME NEW t \in Tasks, GetDevice(t) PROVE Advances(t)  BY <1>2, <1>3, <1>7 DEF GetDevice
<1>8. ASSUME NEW t \in Tasks, TakeGuard(t) PROVE Advances(t)  BY <1>2, <1>8 DEF TakeGuard
<1>9. ASSUME NEW t \in Tasks, ReadTtl(t) PROVE Advances(t)  BY <1>2, <1>9 DEF ReadTtl
<1>10. ASSUME NEW t \in Tasks, ReadBiometric(t) PROVE Advances(t)
  BY <1>2, <1>10 DEF ReadBiometric
<1>11. ASSUME NEW t \in Tasks, StoreProfile(t) PROVE Advances(t)  BY <1>2, <1>11 DEF StoreProfile
<1>12. ASSUME NEW t \in Tasks, StoreLane(t) PROVE Advances(t)  BY <1>2, <1>12 DEF StoreLane
<1>13. ASSUME NEW t \in Tasks, Fetch(t) PROVE Advances(t)
  BY <1>2, <1>13 DEF Fetch, AfterProfile
<1>14. ASSUME NEW t \in Tasks,
              StoreDevice(t) \/ StoreFails(t) \/ FetchFails(t) \/ Reply(t) \/ Install(t)
       PROVE  Advances(t)
  BY <1>3, <1>14 DEF StoreDevice, StoreFails, FetchFails, Reply, Install
<1>15. ASSUME NEW t \in Tasks, FindUpdate(t) PROVE Advances(t)
  <2>1. pc[t] = "check" /\ (Ends(t) \/ \E l : Goes(t, "snapshot", l))
    BY <1>15 DEF FindUpdate
  <2> QED BY <1>2, <1>3, <2>1
<1>16. ASSUME NEW t \in Tasks, Rollout(t) PROVE Advances(t)
  <2>1. CASE Ends(t)  BY <1>3, <1>16, <2>1 DEF Rollout
  <2>2. CASE ~Ends(t)
    <3>1. Goes(t, "download", [Unread EXCEPT !.version = local[t].version])
      BY <1>16, <2>2 DEF Rollout
    <3> QED BY <1>2, <1>16, <3>1 DEF Rollout
  <2> QED BY <2>1, <2>2
<1>17. ASSUME NEW t \in Tasks, BeginQuery(t) \/ BeginInstall(t) PROVE Advances(t)
  BY <1>2, <1>17 DEF BeginQuery, BeginInstall
<1>18. ASSUME NEW t \in Tasks, NEW d \in Devices, BeginSync(t, d) PROVE Advances(t)
  BY <1>2, <1>18 DEF BeginSync
<1>19. ASSUME ReadDeviceRow \/ ReadProfileRow \/ ReadLaneRows \/ RestoreFails
       PROVE  Advances(Restore)
  <2>1. Restore \in Tasks  BY DEF Tasks, Writers
  <2>2. CASE ReadDeviceRow  BY <1>2, <1>3, <2>1, <2>2 DEF ReadDeviceRow
  <2>3. CASE ReadProfileRow
    <3>1. pc[Restore] = "profile_row"
          /\ (Ends(Restore) \/ \E l : Goes(Restore, "apply_profile", l))
      BY <2>3 DEF ReadProfileRow
    <3> QED BY <1>2, <1>3, <2>1, <3>1
  <2>4. CASE ReadLaneRows
    <3>1. pc[Restore] = "lane_rows"
          /\ (Ends(Restore) \/ \E l : Goes(Restore, "apply_lane", l))
      BY <2>4 DEF ReadLaneRows
    <3> QED BY <1>2, <1>3, <2>1, <3>1
  <2>5. CASE RestoreFails  BY <1>3, <2>1, <2>5 DEF RestoreFails
  <2> QED BY <1>19, <2>2, <2>3, <2>4, <2>5
<1> QED BY <1>1, <1>4, <1>5, <1>6, <1>7, <1>8, <1>9, <1>10, <1>11, <1>12, <1>13, <1>14, <1>15, <1>16, <1>17,
       <1>18, <1>19 DEF Next, Works, Tasks, Writers

(* No call loops and none goes back: every step of a process takes one     *)
(* task on along its sequence, or puts it in the queue of the lock, where  *)
(* it was not.  So a process that stands still is finished, out on the     *)
(* network, or wedged (NoOtherDeadlock).                                   *)
THEOREM CallsAdvanceHolds == Spec => CallsAdvance
<1>1. TypeOK /\ [Next]_vars =>
        [crashes' = crashes => \E t \in Tasks : Advances(t) \/ Queues(t)]_vars
  <2> SUFFICES ASSUME TypeOK, Next, crashes' = crashes
               PROVE  \E t \in Tasks : Advances(t) \/ Queues(t)
    OBVIOUS
  <2>1. ~Crash  BY DEF Crash, TypeOK
  <2> QED BY <2>1, TypeParts, CallAdvances
<1> QED BY <1>1, TypeHolds, PTL DEF Spec, CallsAdvance

================================================================================
