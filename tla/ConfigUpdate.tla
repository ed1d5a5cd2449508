------------------------------ MODULE ConfigUpdate ------------------------------
(***************************************************************************)
(* Saving the settings: update_config (commands/config.rs) writes the      *)
(* configuration file and then replaces the copies that the reporter, the  *)
(* sync engine and the application keep, one after the other.  Updates     *)
(* take no common lock, so two of them interleave between any two writes.  *)
(*                                                                         *)
(* std::fs::write empties the file before it fills it; the two are steps   *)
(* of their own.  A start reads the file into all three copies, or fails.  *)
(***************************************************************************)
EXTENDS Naturals

CONSTANTS
  Configs,          \* the configurations the settings page can save
  Sound,            \* the ones whose trust domain validate_trust_domain accepts
  Empty, Damaged,   \* a file that was emptied, and a mixture of two writes
  Updaters,         \* concurrent update_config calls
  MaxCrashes        \* bound: crashes of the process

ASSUME ConfigAssumption ==
  /\ Sound \subseteq Configs
  /\ Empty \notin Configs /\ Damaged \notin Configs /\ Empty # Damaged
  /\ MaxCrashes \in Nat

VARIABLES
  file,                       \* the configuration file
  reporter, engine, config,   \* Reporter.config, SyncEngine.config, AppState.config
  upc, new_config,            \* per update: next step, its argument
  running, crashes,           \* the process is up; crashes so far
  saved,                      \* history: configurations whose save has returned
  alone, mixed                \* history: updates that overlapped no other; an
                              \* update that did was not followed by one that did not

copies     == <<reporter, engine, config>>
updateVars == <<upc, new_config>>
history    == <<saved, alone, mixed>>
configVars == <<file, copies, updateVars, running, crashes, history>>

ConfigInit ==
  /\ file \in Sound
  /\ reporter = file /\ engine = file /\ config = file
  /\ upc = [u \in Updaters |-> "idle"]
  /\ new_config = [u \in Updaters |-> file]
  /\ running = TRUE /\ crashes = 0
  /\ saved = {file}
  /\ alone = [u \in Updaters |-> FALSE] /\ mixed = FALSE

Idle == \A u \in Updaters : upc[u] = "idle"

-------------------------------------------------------------------------------
(* update_config.                                                          *)

\* Wrong: the check is left to set_config of the sync engine.
ValidatesLater(c) == TRUE
Validates(c) == c \in Sound

\* Wrong: the reporter gets the configuration first.
UpdateStartReporting(u, c) ==
  /\ running /\ upc[u] = "idle"
  /\ Validates(c)
  /\ upc' = [upc EXCEPT ![u] = "empty"]
  /\ new_config' = [new_config EXCEPT ![u] = c]
  /\ reporter' = c
  /\ alone' = [w \in Updaters |-> w = u /\ Idle]
  /\ mixed' = (mixed \/ ~Idle)
  /\ UNCHANGED <<file, engine, config, running, crashes, saved>>

UpdateStart(u, c) ==
  /\ running /\ upc[u] = "idle"
  /\ Validates(c)
  /\ upc' = [upc EXCEPT ![u] = "empty"]
  /\ new_config' = [new_config EXCEPT ![u] = c]
  /\ alone' = [w \in Updaters |-> w = u /\ Idle]
  /\ mixed' = (mixed \/ ~Idle)
  /\ UNCHANGED <<file, copies, running, crashes, saved>>

\* save, first half: std::fs::write opens the file and truncates it.
SaveEmpties(u) ==
  /\ upc[u] = "empty"
  /\ file' = Empty
  /\ upc' = [upc EXCEPT ![u] = "write"]
  /\ UNCHANGED <<copies, new_config, running, crashes, history>>

\* save, second half.  Over what another save wrote meanwhile, a shorter
\* text leaves the end of the longer one behind.
SaveWrites(u) ==
  /\ upc[u] = "write"
  /\ file' \in {new_config[u]} \cup (IF file = Empty THEN {} ELSE {Damaged})
  /\ upc' = [upc EXCEPT ![u] = "reporter"]
  /\ saved' = saved \cup {new_config[u]}
  /\ UNCHANGED <<copies, new_config, running, crashes, alone, mixed>>

\* No access, no space: update_config returns the error.
SaveFails(u) ==
  /\ upc[u] \in {"empty", "write"}
  /\ upc' = [upc EXCEPT ![u] = "idle"]
  /\ UNCHANGED <<file, copies, new_config, running, crashes, history>>

SetReporter(u) ==
  /\ upc[u] = "reporter"
  /\ reporter' = new_config[u]
  /\ upc' = [upc EXCEPT ![u] = "engine"]
  /\ UNCHANGED <<file, engine, config, new_config, running, crashes, history>>

\* Wrong: the engine keeps the configuration it was created with.
SetEngineNothing(u) ==
  /\ upc[u] = "engine"
  /\ upc' = [upc EXCEPT ![u] = "config"]
  /\ UNCHANGED <<file, copies, new_config, running, crashes, history>>

\* SyncEngine.set_config validates again; its error ends the update here.
SetEngine(u) ==
  /\ upc[u] = "engine"
  /\ IF new_config[u] \in Sound
       THEN engine' = new_config[u] /\ upc' = [upc EXCEPT ![u] = "config"]
       ELSE upc' = [upc EXCEPT ![u] = "idle"] /\ UNCHANGED engine
  /\ UNCHANGED <<file, reporter, config, new_config, running, crashes, history>>

SetConfig(u) ==
  /\ upc[u] = "config"
  /\ config' = new_config[u]
  /\ upc' = [upc EXCEPT ![u] = "idle"]
  /\ mixed' = (mixed /\ ~alone[u])
  /\ UNCHANGED <<file, reporter, engine, new_config, running, crashes, saved, alone>>

Update(u) ==
  \/ \E c \in Configs : UpdateStart(u, c)
  \/ SaveEmpties(u) \/ SaveWrites(u) \/ SaveFails(u)
  \/ SetReporter(u) \/ SetEngine(u) \/ SetConfig(u)

-------------------------------------------------------------------------------
(* The process.                                                            *)

Crash ==
  /\ running /\ crashes < MaxCrashes
  /\ running' = FALSE
  /\ crashes' = crashes + 1
  /\ upc' = [u \in Updaters |-> "idle"]
  /\ UNCHANGED <<file, copies, new_config, history>>

\* Wrong: whatever is on disk is taken over.
StartUnchecked ==
  /\ ~running
  /\ running' = TRUE
  /\ reporter' = file /\ engine' = file /\ config' = file
  /\ mixed' = FALSE
  /\ UNCHANGED <<file, updateVars, crashes, saved, alone>>

\* AppConfig::load parses the file and SyncEngine::new validates it; the
\* process does not come up when either fails.
Start ==
  /\ ~running
  /\ file \in Sound
  /\ running' = TRUE
  /\ reporter' = file /\ engine' = file /\ config' = file
  /\ mixed' = FALSE
  /\ UNCHANGED <<file, updateVars, crashes, saved, alone>>

ConfigNext == (\E u \in Updaters : Update(u)) \/ Crash \/ Start

ConfigSpec == ConfigInit /\ [][ConfigNext]_configVars

-------------------------------------------------------------------------------
(* The copies are configurations, never the remains of a broken write.     *)
ConfigTypeOK ==
  /\ file \in Configs \cup {Empty, Damaged}
  /\ reporter \in Configs /\ engine \in Configs /\ config \in Configs
  /\ upc \in [Updaters -> {"idle", "empty", "write", "reporter", "engine", "config"}]
  /\ new_config \in [Updaters -> Configs]
  /\ running \in BOOLEAN /\ crashes \in 0 .. MaxCrashes
  /\ saved \subseteq Configs
  /\ alone \in [Updaters -> BOOLEAN] /\ mixed \in BOOLEAN

(* "Replace runtime reporting policy after the application configuration   *)
(* is saved" (reporter.rs): nothing is in force that a save has not put on *)
(* disk before, however updates interleave, fail or die.                   *)
ActiveWasSaved == reporter \in saved /\ engine \in saved /\ config \in saved

(* "Validate a configuration before it is persisted or activated"          *)
(* (engine.rs): an unsound one reaches neither the file, which would keep  *)
(* the process from starting again, nor a copy.                            *)
UnsoundStaysOut ==
  /\ file \in Configs => file \in Sound
  /\ reporter \in Sound /\ engine \in Sound /\ config \in Sound

(* Between updates the gate of the engine, the record check of the         *)
(* application and the reporter go by one configuration, the one on disk   *)
(* unless saving it failed half-way; only overlapping updates can leave    *)
(* them apart or damage the file, and the next one alone repairs it.       *)
CopiesAgree ==
  /\ running /\ Idle /\ ~mixed =>
       /\ reporter = config /\ engine = config
       /\ file \in {config, Empty}
  /\ file = Damaged => mixed
===============================================================================
