--------------------------- MODULE ConfigUpdateProofs ---------------------------
(***************************************************************************)
(* What ConfigUpdate keeps, for any configurations and any number of       *)
(* overlapping updates: types, nothing in force that was not saved,        *)
(* nothing unsound on disk or in force, and agreement of the copies when   *)
(* updates do not overlap.                                                 *)
(***************************************************************************)
EXTENDS ConfigUpdate, TLAPS

\* What a running update may rely on, whatever the others do.
UpdatesAreSaved ==
  /\ \A u \in Updaters : upc[u] # "idle" => new_config[u] \in Sound
  /\ \A u \in Updaters :
       upc[u] \in {"reporter", "engine", "config"} => new_config[u] \in saved
  /\ file \in Configs => file \in saved
  /\ ~running => Idle

\* An update that overlaps no other finds its own writes.
AloneInv ==
  /\ \A u \in Updaters : upc[u] # "idle" /\ ~mixed => alone[u]
  /\ \A u \in Updaters : upc[u] # "idle" /\ alone[u] =>
       /\ \A w \in Updaters : w # u => upc[w] = "idle"
       /\ upc[u] = "write" => file = Empty
       /\ upc[u] \in {"reporter", "engine", "config"} => file = new_config[u]
       /\ upc[u] \in {"engine", "config"} => reporter = new_config[u]
       /\ upc[u] = "config" => engine = new_config[u]

\* Until an update reaches the reporter, the copies are as they were.
UntouchedInv ==
  running /\ ~mixed =>
    \A u \in Updaters :
      /\ upc[u] \in {"empty", "write", "reporter"} => reporter = config /\ engine = config
      /\ upc[u] = "empty" => file \in {config, Empty}

IInv == /\ ConfigTypeOK
        /\ UpdatesAreSaved /\ ActiveWasSaved /\ UnsoundStaysOut
        /\ AloneInv /\ UntouchedInv /\ CopiesAgree

-------------------------------------------------------------------------------
(* Every step keeps the types.                                             *)
LEMMA TypeStep ==
  ASSUME ConfigTypeOK, UnsoundStaysOut, UpdatesAreSaved, [ConfigNext]_configVars
  PROVE  ConfigTypeOK'
<1> USE ConfigAssumption DEF ConfigAssumption, ConfigTypeOK, UnsoundStaysOut,
           UpdatesAreSaved, copies, updateVars, history
<1>1. ASSUME NEW u \in Updaters, NEW c \in Configs, UpdateStart(u, c) PROVE ConfigTypeOK'
  BY <1>1 DEF UpdateStart, Validates
<1>2. ASSUME NEW u \in Updaters, SaveEmpties(u) PROVE ConfigTypeOK'
  BY <1>2 DEF SaveEmpties
<1>3. ASSUME NEW u \in Updaters, SaveWrites(u) PROVE ConfigTypeOK'
  BY <1>3 DEF SaveWrites
<1>4. ASSUME NEW u \in Updaters, SaveFails(u) PROVE ConfigTypeOK'
  BY <1>4 DEF SaveFails
<1>5. ASSUME NEW u \in Updaters, SetReporter(u) PROVE ConfigTypeOK'
  BY <1>5 DEF SetReporter
<1>6. ASSUME NEW u \in Updaters, SetEngine(u) PROVE ConfigTypeOK'
  BY <1>6 DEF SetEngine
<1>7. ASSUME NEW u \in Updaters, SetConfig(u) PROVE ConfigTypeOK'
  BY <1>7 DEF SetConfig
<1>8. CASE Crash
  <2>1. crashes' \in 0 .. MaxCrashes  BY <1>8 DEF Crash
  <2>2. upc' \in [Updaters -> {"idle", "empty", "write", "reporter", "engine", "config"}]
    BY <1>8 DEF Crash
  <2>3. running' \in BOOLEAN  BY <1>8 DEF Crash
  <2> QED BY <1>8, <2>1, <2>2, <2>3, Zenon DEF Crash
<1>9. CASE Start  BY <1>9 DEF Start
<1>10. CASE UNCHANGED configVars  BY <1>10 DEF configVars
<1> QED BY <1>1, <1>2, <1>3, <1>4, <1>5, <1>6, <1>7, <1>8, <1>9, <1>10 DEF ConfigNext, Update

(* What an update carries was validated, and saved before it is copied.    *)
LEMMA SavedStep ==
  ASSUME ConfigTypeOK, UpdatesAreSaved, [ConfigNext]_configVars
  PROVE  UpdatesAreSaved'
<1> USE ConfigAssumption DEF ConfigAssumption, ConfigTypeOK, UpdatesAreSaved, Idle, copies, updateVars, history
<1>1. ASSUME NEW u \in Updaters, NEW c \in Configs, UpdateStart(u, c) PROVE UpdatesAreSaved'
  BY <1>1 DEF UpdateStart, Validates
<1>2. ASSUME NEW u \in Updaters, SaveEmpties(u) PROVE UpdatesAreSaved'
  BY <1>2 DEF SaveEmpties
<1>3. ASSUME NEW u \in Updaters, SaveWrites(u) PROVE UpdatesAreSaved'
  BY <1>3 DEF SaveWrites
<1>4. ASSUME NEW u \in Updaters, SaveFails(u) PROVE UpdatesAreSaved'
  BY <1>4 DEF SaveFails
<1>5. ASSUME NEW u \in Updaters, SetReporter(u) PROVE UpdatesAreSaved'
  BY <1>5 DEF SetReporter
<1>6. ASSUME NEW u \in Updaters, SetEngine(u) PROVE UpdatesAreSaved'
  BY <1>6 DEF SetEngine
<1>7. ASSUME NEW u \in Updaters, SetConfig(u) PROVE UpdatesAreSaved'
  BY <1>7 DEF SetConfig
<1>8. CASE Crash  BY <1>8 DEF Crash
<1>9. CASE Start  BY <1>9 DEF Start
<1>10. CASE UNCHANGED configVars  BY <1>10 DEF configVars
<1> QED BY <1>1, <1>2, <1>3, <1>4, <1>5, <1>6, <1>7, <1>8, <1>9, <1>10 DEF ConfigNext, Update

(* A copy is taken from a saved configuration.                             *)
LEMMA ActiveStep ==
  ASSUME ConfigTypeOK, UpdatesAreSaved, ActiveWasSaved, [ConfigNext]_configVars
  PROVE  ActiveWasSaved'
<1> USE ConfigAssumption DEF ConfigAssumption, UpdatesAreSaved, ActiveWasSaved, copies, updateVars, history
<1>1. ASSUME NEW u \in Updaters, NEW c \in Configs, UpdateStart(u, c) PROVE ActiveWasSaved'
  BY <1>1 DEF UpdateStart, Validates
<1>2. ASSUME NEW u \in Updaters, SaveEmpties(u) PROVE ActiveWasSaved'
  BY <1>2 DEF SaveEmpties
<1>3. ASSUME NEW u \in Updaters, SaveWrites(u) PROVE ActiveWasSaved'
  BY <1>3 DEF SaveWrites
<1>4. ASSUME NEW u \in Updaters, SaveFails(u) PROVE ActiveWasSaved'
  BY <1>4 DEF SaveFails
<1>5. ASSUME NEW u \in Updaters, SetReporter(u) PROVE ActiveWasSaved'
  BY <1>5 DEF SetReporter
<1>6. ASSUME NEW u \in Updaters, SetEngine(u) PROVE ActiveWasSaved'
  BY <1>6 DEF SetEngine
<1>7. ASSUME NEW u \in Updaters, SetConfig(u) PROVE ActiveWasSaved'
  BY <1>7 DEF SetConfig
<1>8. CASE Crash  BY <1>8 DEF Crash
<1>9. CASE Start  BY <1>9 DEF Start
<1>10. CASE UNCHANGED configVars  BY <1>10 DEF configVars
<1> QED BY <1>1, <1>2, <1>3, <1>4, <1>5, <1>6, <1>7, <1>8, <1>9, <1>10 DEF ConfigNext, Update

(* A copy is taken from a validated configuration.                         *)
LEMMA SoundStep ==
  ASSUME ConfigTypeOK, UpdatesAreSaved, UnsoundStaysOut, [ConfigNext]_configVars
  PROVE  UnsoundStaysOut'
<1> USE ConfigAssumption DEF ConfigAssumption, ConfigTypeOK, UpdatesAreSaved, UnsoundStaysOut, copies, updateVars, history
<1>1. ASSUME NEW u \in Updaters, NEW c \in Configs, UpdateStart(u, c) PROVE UnsoundStaysOut'
  BY <1>1 DEF UpdateStart, Validates
<1>2. ASSUME NEW u \in Updaters, SaveEmpties(u) PROVE UnsoundStaysOut'
  BY <1>2 DEF SaveEmpties
<1>3. ASSUME NEW u \in Updaters, SaveWrites(u) PROVE UnsoundStaysOut'
  BY <1>3 DEF SaveWrites
<1>4. ASSUME NEW u \in Updaters, SaveFails(u) PROVE UnsoundStaysOut'
  BY <1>4 DEF SaveFails
<1>5. ASSUME NEW u \in Updaters, SetReporter(u) PROVE UnsoundStaysOut'
  BY <1>5 DEF SetReporter
<1>6. ASSUME NEW u \in Updaters, SetEngine(u) PROVE UnsoundStaysOut'
  BY <1>6 DEF SetEngine
<1>7. ASSUME NEW u \in Updaters, SetConfig(u) PROVE UnsoundStaysOut'
  BY <1>7 DEF SetConfig
<1>8. CASE Crash  BY <1>8 DEF Crash
<1>9. CASE Start  BY <1>9 DEF Start
<1>10. CASE UNCHANGED configVars  BY <1>10 DEF configVars
<1> QED BY <1>1, <1>2, <1>3, <1>4, <1>5, <1>6, <1>7, <1>8, <1>9, <1>10 DEF ConfigNext, Update

(* Nobody else writes while an update is alone.                            *)
LEMMA AloneStep ==
  ASSUME ConfigTypeOK, UpdatesAreSaved, AloneInv, [ConfigNext]_configVars
  PROVE  AloneInv'
<1> USE ConfigAssumption DEF ConfigAssumption, ConfigTypeOK, UpdatesAreSaved, AloneInv, Idle, copies, updateVars, history
<1>1. ASSUME NEW u \in Updaters, NEW c \in Configs, UpdateStart(u, c) PROVE AloneInv'
  BY <1>1 DEF UpdateStart, Validates
<1>2. ASSUME NEW u \in Updaters, SaveEmpties(u) PROVE AloneInv'
  BY <1>2 DEF SaveEmpties
<1>3. ASSUME NEW u \in Updaters, SaveWrites(u) PROVE AloneInv'
  BY <1>3 DEF SaveWrites
<1>4. ASSUME NEW u \in Updaters, SaveFails(u) PROVE AloneInv'
  BY <1>4 DEF SaveFails
<1>5. ASSUME NEW u \in Updaters, SetReporter(u) PROVE AloneInv'
  BY <1>5 DEF SetReporter
<1>6. ASSUME NEW u \in Updaters, SetEngine(u) PROVE AloneInv'
  BY <1>6 DEF SetEngine
<1>7. ASSUME NEW u \in Updaters, SetConfig(u) PROVE AloneInv'
  BY <1>7 DEF SetConfig
<1>8. CASE Crash  BY <1>8 DEF Crash
<1>9. CASE Start  BY <1>9 DEF Start
<1>10. CASE UNCHANGED configVars  BY <1>10 DEF configVars
<1> QED BY <1>1, <1>2, <1>3, <1>4, <1>5, <1>6, <1>7, <1>8, <1>9, <1>10 DEF ConfigNext, Update

(* Saving leaves the copies alone.                                         *)
LEMMA UntouchedStep ==
  ASSUME IInv, [ConfigNext]_configVars
  PROVE  UntouchedInv'
<1> USE ConfigAssumption DEF ConfigAssumption, IInv, ConfigTypeOK, UntouchedInv, CopiesAgree, AloneInv, Idle, copies, updateVars, history
<1>1. ASSUME NEW u \in Updaters, NEW c \in Configs, UpdateStart(u, c) PROVE UntouchedInv'
  BY <1>1 DEF UpdateStart, Validates
<1>2. ASSUME NEW u \in Updaters, SaveEmpties(u) PROVE UntouchedInv'
  BY <1>2 DEF SaveEmpties
<1>3. ASSUME NEW u \in Updaters, SaveWrites(u) PROVE UntouchedInv'
  BY <1>3 DEF SaveWrites
<1>4. ASSUME NEW u \in Updaters, SaveFails(u) PROVE UntouchedInv'
  BY <1>4 DEF SaveFails
<1>5. ASSUME NEW u \in Updaters, SetReporter(u) PROVE UntouchedInv'
  BY <1>5 DEF SetReporter
<1>6. ASSUME NEW u \in Updaters, SetEngine(u) PROVE UntouchedInv'
  BY <1>6 DEF SetEngine
<1>7. ASSUME NEW u \in Updaters, SetConfig(u) PROVE UntouchedInv'
  BY <1>7 DEF SetConfig
<1>8. CASE Crash  BY <1>8 DEF Crash
<1>9. CASE Start  BY <1>9 DEF Start
<1>10. CASE UNCHANGED configVars  BY <1>10 DEF configVars
<1> QED BY <1>1, <1>2, <1>3, <1>4, <1>5, <1>6, <1>7, <1>8, <1>9, <1>10 DEF ConfigNext, Update

(* The last copy ends the disagreement.                                    *)
LEMMA AgreeStep ==
  ASSUME IInv, [ConfigNext]_configVars
  PROVE  CopiesAgree'
<1> USE ConfigAssumption DEF ConfigAssumption, IInv, ConfigTypeOK, UntouchedInv, CopiesAgree, AloneInv, UpdatesAreSaved, Idle, copies, updateVars, history
<1>1. ASSUME NEW u \in Updaters, NEW c \in Configs, UpdateStart(u, c) PROVE CopiesAgree'
  BY <1>1 DEF UpdateStart, Validates
<1>2. ASSUME NEW u \in Updaters, SaveEmpties(u) PROVE CopiesAgree'
  BY <1>2 DEF SaveEmpties
<1>3. ASSUME NEW u \in Updaters, SaveWrites(u) PROVE CopiesAgree'
  BY <1>3 DEF SaveWrites
<1>4. ASSUME NEW u \in Updaters, SaveFails(u) PROVE CopiesAgree'
  BY <1>4 DEF SaveFails
<1>5. ASSUME NEW u \in Updaters, SetReporter(u) PROVE CopiesAgree'
  BY <1>5 DEF SetReporter
<1>6. ASSUME NEW u \in Updaters, SetEngine(u) PROVE CopiesAgree'
  BY <1>6 DEF SetEngine
<1>7. ASSUME NEW u \in Updaters, SetConfig(u) PROVE CopiesAgree'
  BY <1>7 DEF SetConfig
<1>8. CASE Crash  BY <1>8 DEF Crash
<1>9. CASE Start  BY <1>9 DEF Start
<1>10. CASE UNCHANGED configVars  BY <1>10 DEF configVars
<1> QED BY <1>1, <1>2, <1>3, <1>4, <1>5, <1>6, <1>7, <1>8, <1>9, <1>10 DEF ConfigNext, Update

LEMMA InitInv == ConfigInit => IInv
<1> SUFFICES ASSUME ConfigInit PROVE IInv  OBVIOUS
<1> USE ConfigAssumption DEF ConfigAssumption, ConfigInit
<1>1. ConfigTypeOK /\ UnsoundStaysOut
  <2>1. crashes \in 0 .. MaxCrashes  OBVIOUS
  <2>2. file \in Sound /\ file \in Configs  OBVIOUS
  <2>3. running \in BOOLEAN /\ mixed \in BOOLEAN  BY Zenon
  <2>4. /\ upc \in [Updaters -> {"idle", "empty", "write", "reporter", "engine", "config"}]
        /\ alone \in [Updaters -> BOOLEAN]
        /\ new_config \in [Updaters -> Configs]
    BY <2>2
  <2> QED BY <2>1, <2>2, <2>3, <2>4 DEF ConfigTypeOK, UnsoundStaysOut
<1>2. ActiveWasSaved  BY DEF ActiveWasSaved
<1>3. UpdatesAreSaved
  <2>1. running /\ file \in saved  OBVIOUS
  <2>2. \A u \in Updaters : upc[u] = "idle"  OBVIOUS
  <2> QED BY <2>1, <2>2 DEF UpdatesAreSaved
<1>4. AloneInv /\ UntouchedInv /\ CopiesAgree  BY DEF AloneInv, UntouchedInv, CopiesAgree
<1> QED BY <1>1, <1>2, <1>3, <1>4 DEF IInv

LEMMA StepInv == IInv /\ [ConfigNext]_configVars => IInv'
BY TypeStep, SavedStep, ActiveStep, SoundStep, AloneStep, UntouchedStep, AgreeStep DEF IInv

LEMMA InvHolds == ConfigSpec => []IInv
BY InitInv, StepInv, PTL DEF ConfigSpec

-------------------------------------------------------------------------------
(* Every reachable state is well typed; a copy is always a configuration,  *)
(* never what a broken save left on disk.                                  *)
THEOREM TypeCorrect == ConfigSpec => []ConfigTypeOK
<1>1. IInv => ConfigTypeOK  BY DEF IInv
<1> QED BY <1>1, InvHolds, PTL

(* No copy of the configuration is in force before it was saved.           *)
THEOREM SavedFirst == ConfigSpec => []ActiveWasSaved
<1>1. IInv => ActiveWasSaved  BY DEF IInv
<1> QED BY <1>1, InvHolds, PTL

(* An unsound configuration reaches neither the file nor a copy.           *)
THEOREM OnlySound == ConfigSpec => []UnsoundStaysOut
<1>1. IInv => UnsoundStaysOut  BY DEF IInv
<1> QED BY <1>1, InvHolds, PTL

(* Updates that do not overlap leave the copies and the file in agreement, *)
(* and never damage the file.                                              *)
THEOREM Agreement == ConfigSpec => []CopiesAgree
<1>1. IInv => CopiesAgree  BY DEF IInv
<1> QED BY <1>1, InvHolds, PTL

-------------------------------------------------------------------------------
(* The process is down and cannot come up.                                 *)
LockedOut == ~running /\ file \notin Sound

LEMMA LockedOutStep ==
  ASSUME IInv, [ConfigNext]_configVars, LockedOut
  PROVE  LockedOut'
<1>1. ~running /\ file \notin Sound /\ \A u \in Updaters : upc[u] = "idle"
  BY DEF LockedOut, IInv, UpdatesAreSaved, Idle
<1>2. ASSUME NEW u \in Updaters PROVE ~Update(u)
  BY <1>1, <1>2 DEF Update, UpdateStart, SaveEmpties, SaveWrites, SaveFails, SetReporter,
       SetEngine, SetConfig
<1>3. ~Crash /\ ~Start
  BY <1>1 DEF Crash, Start
<1>4. UNCHANGED configVars
  BY <1>2, <1>3 DEF ConfigNext
<1> QED
  BY <1>4 DEF LockedOut, configVars

(* A crash that finds the file emptied or damaged is final: no start       *)
(* succeeds until somebody repairs the file by hand (AppConfig::load).     *)
THEOREM LockedOutForGood == ConfigSpec => [](LockedOut => []LockedOut)
<1>1. IInv /\ [ConfigNext]_configVars /\ LockedOut => LockedOut'  BY LockedOutStep
<1> QED BY <1>1, InvHolds, PTL DEF ConfigSpec

(* What there is to lock the process out: a file that a save has emptied,  *)
(* or one that overlapping saves have damaged.                             *)
LockoutCause == file \notin Sound => file = Empty \/ (file = Damaged /\ mixed)

LEMMA CauseFollows == IInv => LockoutCause
<1>1. IInv => file \in Configs \cup {Empty, Damaged} /\ (file \in Configs => file \in Sound)
  BY DEF IInv, ConfigTypeOK, UnsoundStaysOut
<1>2. IInv => (file = Damaged => mixed)
  BY Zenon DEF IInv, CopiesAgree
<1>3. IInv => file \in Sound \/ file = Empty \/ file = Damaged
  BY <1>1
<1> QED BY <1>2, <1>3, Zenon DEF LockoutCause

(* AppConfig::load finds a file it rejects only where a save has emptied   *)
(* it and not filled it again, or where overlapping saves have mixed       *)
(* their texts (AppConfig::save).                                          *)
THEOREM LockoutHasCause == ConfigSpec => []LockoutCause
BY CauseFollows, InvHolds, PTL

(* An emptied file is the doing of a save under way, and the next save     *)
(* that gets through puts its own configuration there.                     *)
EmptyUntilSaved ==
  /\ file # Empty /\ file' = Empty => \E u \in Updaters : upc'[u] = "write"
  /\ file = Empty /\ file' # Empty =>
       \E u \in Updaters : upc[u] = "write" /\ file' = new_config[u] /\ file' \in Sound

LEMMA EmptyStep == IInv /\ [ConfigNext]_configVars => [EmptyUntilSaved]_configVars
<1> SUFFICES ASSUME IInv, ConfigNext PROVE EmptyUntilSaved
  BY DEF EmptyUntilSaved, configVars
<1>1. ASSUME NEW u \in Updaters, SaveEmpties(u) PROVE EmptyUntilSaved
  BY <1>1 DEF SaveEmpties, EmptyUntilSaved, IInv, ConfigTypeOK
<1>2. ASSUME NEW u \in Updaters, SaveWrites(u) PROVE EmptyUntilSaved
  <2>1. new_config[u] \in Sound /\ new_config[u] \in Configs
    BY <1>2, ConfigAssumption DEF SaveWrites, IInv, UpdatesAreSaved
  <2> QED BY <1>2, <2>1, ConfigAssumption DEF SaveWrites, EmptyUntilSaved
<1>3. ASSUME NEW u \in Updaters, Update(u), ~SaveEmpties(u), ~SaveWrites(u) PROVE file' = file
  BY <1>3 DEF Update, UpdateStart, SaveFails, SetReporter, SetEngine, SetConfig
<1>4. Crash \/ Start => file' = file  BY DEF Crash, Start
<1> QED BY <1>1, <1>2, <1>3, <1>4 DEF ConfigNext, EmptyUntilSaved

(* The gap between truncating and filling the file is that of the save in  *)
(* hand, and a save that returns closes it (std::fs::write).               *)
THEOREM EmptiedBySaves == ConfigSpec => [][EmptyUntilSaved]_configVars
BY EmptyStep, InvHolds, PTL DEF ConfigSpec
===============================================================================
