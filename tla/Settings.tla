------------------------------ MODULE Settings ------------------------------
(***************************************************************************)
(* The persistent settings (backend/service/config_store.go) and the       *)
(* handler that saves them (backend/handler/settings.go).                  *)
(*                                                                         *)
(* The store holds the configuration in memory and in one JSON file that   *)
(* is written in place.  A request carries the whole configuration; the    *)
(* bot token it carries may be the mask that GetSettings shows instead of  *)
(* the token.  ConfigStore.mu makes Get and Update atomic; the handler     *)
(* around them is not.                                                     *)
(*                                                                         *)
(* Of the configuration the model keeps the backup schedule, the token and *)
(* whether a named connection profile is enabled.                          *)
(***************************************************************************)
EXTENDS Naturals

CONSTANTS
  Saver,            \* the requests to save; one may be made again and again
  Form,             \* the configurations that are ever sent
  Schedule,         \* the values of AppConfig.Backup
  DefaultSchedule,  \* its value in defaultConfig
  Token,            \* the bot tokens, among them
  NoToken,          \* the empty one
  Mask,             \* "****"
  Torn              \* the contents of a file that is missing or does not parse

Config  == [schedule : Schedule, token : Token, profileOn : BOOLEAN]
Request == [schedule : Schedule, token : Token \cup {Mask}, profileOn : BOOLEAN]

ASSUME SettingsAssumption ==
  /\ DefaultSchedule \in Schedule
  /\ NoToken \in Token /\ Mask \notin Token
  /\ Form \subseteq Request
  /\ Torn \notin Request

VARIABLES
  memory,   \* ConfigStore.config
  disk,     \* the file
  spc,      \* where each request to save is
  req,      \* the configuration it is about to save
  unsaved   \* history: a write has failed since the last that did not

settingsVars == <<memory, disk, spc, req, unsaved>>

DefaultConfig ==
  [schedule |-> DefaultSchedule, token |-> NoToken, profileOn |-> TRUE]

\* In particular the mask is never stored as a token (settings.go 43).
SettingsTypeOK ==
  /\ memory \in Config
  /\ disk \in Config \cup {Torn}
  /\ spc \in [Saver -> {"idle", "mask", "kept", "update", "restart"}]
  /\ req \in [Saver -> Request]
  /\ unsaved \in BOOLEAN

\* applyConnectionDefaultsLocked: a profile that has a name is enabled.
Normal(config) == [config EXCEPT !.profileOn = TRUE]

\* A first start: the defaults, written to the file.
SettingsInit ==
  /\ memory = DefaultConfig
  /\ disk = DefaultConfig
  /\ spc = [s \in Saver |-> "idle"]
  /\ req = [s \in Saver |-> DefaultConfig]
  /\ unsaved = FALSE

-----------------------------------------------------------------------------
(* UpdateSettings *)

\* The handler has answered.
Done(s) ==
  /\ spc' = [spc EXCEPT ![s] = "idle"]
  /\ req' = [req EXCEPT ![s] = DefaultConfig]

Decode(s) ==
  /\ spc[s] = "idle"
  /\ \E c \in Form :
       /\ req' = [req EXCEPT ![s] = c]
       /\ spc' = [spc EXCEPT ![s] = IF c.token = Mask THEN "mask" ELSE "update"]
  /\ UNCHANGED <<memory, disk, unsaved>>

\* Variant for checking the properties: the mask is taken for a token.
KeepTokenNever(s) ==
  /\ spc[s] = "mask"
  /\ req' = [req EXCEPT ![s].token = Mask]
  /\ spc' = [spc EXCEPT ![s] = "kept"]
  /\ UNCHANGED <<memory, disk, unsaved>>

\* A masked token is replaced by the one that is stored now.
KeepToken(s) ==
  /\ spc[s] = "mask"
  /\ req' = [req EXCEPT ![s].token = memory.token]
  /\ spc' = [spc EXCEPT ![s] = "kept"]
  /\ UNCHANGED <<memory, disk, unsaved>>

\* About to write the file; with a token that was looked up for it, or not.
Writing == {"kept", "update"}

\* Variant for checking the properties: what is written was read before the lock.
UpdateStale(s) ==
  /\ spc[s] \in Writing
  /\ memory' = Normal(req[s])
  /\ \/ disk' = memory /\ unsaved' = FALSE
        /\ spc' = [spc EXCEPT ![s] = "restart"] /\ UNCHANGED req
     \/ disk' \in {disk, Torn} /\ unsaved' = TRUE
        /\ Done(s)

\* Update: memory first, then the file.  When the write fails, the handler
\* answers with an error and the memory keeps what it was given; the file is
\* untouched if it could not be opened and cut short otherwise.
Update(s) ==
  /\ spc[s] \in Writing
  /\ memory' = Normal(req[s])
  /\ \/ disk' = memory' /\ unsaved' = FALSE
        /\ spc' = [spc EXCEPT ![s] = "restart"] /\ UNCHANGED req
     \/ disk' \in {disk, Torn} /\ unsaved' = TRUE
        /\ Done(s)

\* The answer; the scheduler is restarted before it (module Scheduler).
Answer(s) ==
  /\ spc[s] = "restart"
  /\ Done(s)
  /\ UNCHANGED <<memory, disk, unsaved>>

-----------------------------------------------------------------------------
(* The process dies and is started again. *)

\* Variant for checking the properties: the file is not looked at.
LoadNever(file) ==
  /\ memory' = DefaultConfig
  /\ disk' = file /\ unsaved' = FALSE

\* NewConfigStore: a file that does not load is replaced by the defaults, if
\* it can be written.
Load(file) ==
  \/ /\ file # Torn
     /\ memory' = Normal(file)
     /\ disk' = file /\ unsaved' = FALSE
  \/ /\ file = Torn
     /\ memory' = DefaultConfig
     /\ \/ disk' = DefaultConfig /\ unsaved' = FALSE
        \/ disk' = Torn /\ unsaved' = TRUE

\* A request that was being saved may have got as far as its file.
Crash ==
  LET writing == {s \in Saver : spc[s] \in Writing}
      files   == {disk} \cup (IF writing = {} THEN {} ELSE {Torn})
                   \cup {Normal(req[s]) : s \in writing}
  IN  /\ \E file \in files : Load(file)
      /\ spc' = [s \in Saver |-> "idle"]
      /\ req' = [s \in Saver |-> DefaultConfig]

-----------------------------------------------------------------------------
Save(s) == Decode(s) \/ KeepToken(s) \/ Update(s)

SettingsNext == (\E s \in Saver : Save(s) \/ Answer(s)) \/ Crash

SettingsSpec == SettingsInit /\ [][SettingsNext]_settingsVars

-----------------------------------------------------------------------------
\* What a handler has in hand after its work on the token may be stored.
RequestsReady == \A s \in Saver : spc[s] \notin {"idle", "mask"} => req[s] \in Config

\* What the file holds has its defaults applied: loading it changes nothing.
FileIsNormal == disk # Torn => disk.profileOn

\* What is in memory is what a restart would bring back, as long as no write
\* failed: any order of saves and restarts leaves the two in step.
MemoryIsSaved == ~unsaved => disk = memory

\* A restart brings back the settings in effect, unless a write had failed or
\* was under way.
RestartKeepsSettings ==
  [][Crash /\ ~unsaved /\ (\A s \in Saver : spc[s] \notin Writing)
       => memory' = memory]_settingsVars
=============================================================================
