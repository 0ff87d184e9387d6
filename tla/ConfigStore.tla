---------------------------- MODULE ConfigStore ----------------------------
(***************************************************************************)
(* The device's configuration and its EEPROM record: ConfigStore.cpp, and  *)
(* the deferred save of main.cpp (markConfigDirty, updateConfigSave) with  *)
(* everything that changes a configuration.  Power may fail at any step,   *)
(* in the middle of a write included, and a write may fail verification:   *)
(* the record is then a mixture of the old and the new one.  A checksum is *)
(* modelled by what it was computed from, so that it fits nothing else.    *)
(***************************************************************************)
EXTENDS Naturals

CONSTANTS Mode, Manual,       \* HomeMode, and its default
          MaxVersion,         \* bound: configuration versions
          SaveDelay,          \* CONFIG_SAVE_DELAY_MS, in ticks
          SaveRetry,          \* CONFIG_SAVE_RETRY_MS, in ticks
          MaxCommands,        \* bound: commands and desired states applied
          MaxFailures,        \* bound: failed EEPROM writes
          MaxBoots            \* bound

ASSUME ConfigAssumption == /\ Manual \in Mode
                           /\ MaxVersion \in Nat
                           /\ SaveDelay \in Nat /\ SaveRetry \in Nat
                           /\ MaxCommands \in Nat /\ MaxFailures \in Nat
                           /\ MaxBoots \in Nat

Config == [mode : Mode, manualLightOn : BOOLEAN, version : 0..MaxVersion]
Defaults == [mode |-> Manual, manualLightOn |-> FALSE, version |-> 0]

\* A record: its version (junk if it is neither), fields and checksum.
Kinds == {"v1", "v2", "junk"}
Records == [kind : Kinds, config : Config, sum : Kinds \X Config]

Signed(k, c) == [kind |-> k, config |-> c, sum |-> <<k, c>>]
V2(c) == Signed("v2", c)              \* makeRecord
V1(c) == Signed("v1", c)
Junk == Signed("junk", Defaults)
NotSaved == [kind |-> "none"]         \* ~hasSavedConfig_

\* Mutant: the checksum is not looked at.
IsValidV2Unchecked(r) == r.kind = "v2"

IsValidV2(r) == r.kind = "v2" /\ r.sum = <<"v2", r.config>>
IsValidV1(r) == r.kind = "v1" /\ r.sum = <<"v1", r.config>>
IsValid(r) == IsValidV1(r) \/ IsValidV2(r)

\* A write of new over old that is not completed, or goes wrong: every field is
\* of one of them, the bytes of the version and of the checksum may be of both.
Mixed(c, d) == [mode : {c.mode, d.mode},
                manualLightOn : {c.manualLightOn, d.manualLightOn},
                version : 0..MaxVersion]

Torn(old, new) == [kind : {old.kind, new.kind},
                   config : Mixed(old.config, new.config),
                   sum : {old.sum, new.sum, Junk.sum}]

VARIABLES
  eeprom,      \* the record at PERSISTED_CONFIG_ADDRESS
  running,     \* FALSE while the device is off
  config,      \* appState.mode, manualLightOn, configVersion
  saved,       \* ConfigStore's copy of what it last loaded or verified
  dirty,       \* configDirty
  wait,        \* ticks until configSaveWaitMs has passed
  commands, failures, boots,   \* what the bounds count
  suspect,     \* history: a write of this boot failed, and none was verified since
  held         \* history: the configurations the device has had

counters == <<commands, failures, boots>>
vars == <<eeprom, running, config, saved, dirty, wait, counters, suspect, held>>

\* The EEPROM of a device that has run this release, an earlier one, or neither.
Init == /\ eeprom \in {V2(c) : c \in Config} \cup {Junk}
                     \cup {V1(c) : c \in {d \in Config : d.version = 0}}
        /\ running = FALSE
        /\ config = Defaults
        /\ saved = NotSaved
        /\ dirty = FALSE
        /\ wait = 0
        /\ commands = 0 /\ failures = 0 /\ boots = 0
        /\ suspect = FALSE
        /\ held = {Defaults, eeprom.config}
-----------------------------------------------------------------------------
(* ConfigStore::save. *)

\* The record is already what the store believes is in the EEPROM: no write.
SaveSkipped(c) ==
  /\ saved = V2(c)
  /\ UNCHANGED <<eeprom, saved, failures, suspect>>

\* The record is written, read back and found equal.
SaveVerified(c) ==
  /\ saved # V2(c)
  /\ eeprom' = V2(c)
  /\ saved' = V2(c)
  /\ suspect' = FALSE
  /\ UNCHANGED failures

\* Verification fails: the EEPROM kept the old record, took the new one and was
\* read back wrongly, or holds something in between.  The store's copy stays.
SaveFailed(c) ==
  /\ saved # V2(c)
  /\ failures < MaxFailures
  /\ failures' = failures + 1
  /\ eeprom' \in Torn(eeprom, V2(c))
  /\ suspect' = TRUE
  /\ UNCHANGED saved

SaveReturnsTrue(c) == SaveSkipped(c) \/ SaveVerified(c)
-----------------------------------------------------------------------------
(* main.cpp *)

\* setup() restores the configuration; what load finds decides the rest.
BootFrom(c) ==
  /\ config' = c
  /\ held' = held \cup {c}

LoadValid ==
  /\ IsValidV2(eeprom)
  /\ BootFrom(eeprom.config)
  /\ saved' = V2(eeprom.config)
  /\ UNCHANGED <<eeprom, dirty, wait, failures, suspect>>

LoadMigrated ==
  /\ IsValidV1(eeprom)
  /\ BootFrom([eeprom.config EXCEPT !.version = 0])
  /\ dirty' = TRUE
  /\ wait' = SaveDelay
  /\ UNCHANGED <<eeprom, saved, failures, suspect>>

LoadInvalid ==
  /\ ~IsValid(eeprom)
  /\ BootFrom(Defaults)
  /\ \/ SaveReturnsTrue(Defaults) /\ UNCHANGED <<dirty, wait>>
     \/ SaveFailed(Defaults) /\ dirty' = TRUE /\ wait' = SaveRetry

Boot == /\ ~running
        /\ boots < MaxBoots
        /\ boots' = boots + 1
        /\ running' = TRUE
        /\ LoadValid \/ LoadMigrated \/ LoadInvalid
        /\ UNCHANGED commands

\* RAM is lost; globals get their initial values before the next setup().
PowerOff == /\ running' = FALSE
            /\ config' = Defaults
            /\ saved' = NotSaved
            /\ dirty' = FALSE
            /\ wait' = 0
            /\ suspect' = FALSE
            /\ UNCHANGED <<counters, held>>

PowerLoss == running /\ PowerOff /\ UNCHANGED eeprom

\* markConfigDirty: a later change restarts the interval.
MarkConfigDirty == dirty' = TRUE /\ wait' = SaveDelay

Change(c) ==
  /\ running
  /\ commands < MaxCommands
  /\ commands' = commands + 1
  /\ config' = c
  /\ held' = held \cup {c}
  /\ MarkConfigDirty
  /\ UNCHANGED <<eeprom, running, saved, failures, boots, suspect>>

\* handleCommand "mode ...": only a different mode is a change.
SerialMode == \E m \in Mode : /\ m # config.mode
                              /\ Change([config EXCEPT !.mode = m])

\* Mutant: the light command does not mark the configuration.
SerialLightUnmarked ==
  /\ running
  /\ commands < MaxCommands
  /\ commands' = commands + 1
  /\ config' = [config EXCEPT !.manualLightOn = ~config.manualLightOn]
  /\ held' = held \cup {config'}
  /\ UNCHANGED <<eeprom, running, saved, dirty, wait, failures, boots, suspect>>

\* handleCommand "light ...": the command is stored in either mode.
SerialLight == Change([config EXCEPT !.manualLightOn = ~config.manualLightOn])

\* Mutant: stale versions are adopted too.
ApplyAnyDesired == \E c \in Config : Change(c)

\* applyDesiredState: a newer desired state replaces everything.
ApplyDesired == \E c \in Config : c.version > config.version /\ Change(c)

Tick == /\ running
        /\ wait > 0
        /\ wait' = wait - 1
        /\ UNCHANGED <<eeprom, running, config, saved, dirty, counters, suspect, held>>

SaveDue == running /\ dirty /\ wait = 0

\* Mutant: a successful save does not clear configDirty.
UpdateConfigSaveStaysDirty ==
  /\ SaveDue
  /\ \/ SaveReturnsTrue(config) /\ UNCHANGED <<dirty, wait>>
     \/ SaveFailed(config) /\ wait' = SaveRetry /\ UNCHANGED dirty
  /\ UNCHANGED <<running, config, commands, boots, held>>

\* updateConfigSave
UpdateConfigSave ==
  /\ SaveDue
  /\ \/ SaveReturnsTrue(config) /\ dirty' = FALSE /\ UNCHANGED wait
     \/ SaveFailed(config) /\ wait' = SaveRetry /\ UNCHANGED dirty
  /\ UNCHANGED <<running, config, commands, boots, held>>

\* Power fails while EEPROM.put is storing the record.
PowerLossInWrite ==
  /\ SaveDue
  /\ saved # V2(config)
  /\ eeprom' \in Torn(eeprom, V2(config))
  /\ PowerOff

Next == \/ Boot \/ PowerLoss \/ PowerLossInWrite
        \/ SerialMode \/ SerialLight \/ ApplyDesired
        \/ Tick \/ UpdateConfigSave

Spec == Init /\ [][Next]_vars

\* The loop runs and time passes; commands and failures are bounded.
FairSpec == Spec /\ WF_vars(Tick) /\ WF_vars(UpdateConfigSave)
-----------------------------------------------------------------------------
(* Correctness. *)

TypeOK ==
  /\ eeprom \in Records
  /\ running \in BOOLEAN /\ dirty \in BOOLEAN /\ suspect \in BOOLEAN
  /\ config \in Config
  /\ saved \in {V2(c) : c \in Config} \cup {NotSaved}
  /\ wait \in Nat
  /\ commands \in Nat /\ failures \in Nat /\ boots \in Nat

Persisted == running /\ ~dirty => eeprom = V2(config)

\* Unless a write has failed and none was verified since, a device with nothing
\* left to save would restore exactly what it is running: through coalesced
\* commands, desired states, migration, power loss and torn writes.
PersistedUnlessSuspect == suspect \/ Persisted

\* "Saves are read back and validated; a failed verification leaves the
\* configuration dirty and retries" (firmware/README.md:40-42): a device with
\* nothing left to save has its configuration in the EEPROM.
CleanMeansPersisted == Persisted

\* A record that load accepts is a configuration the device really had, never a
\* mixture of several: through torn writes over good records and over torn ones.
NoInventedRecord == IsValid(eeprom) => eeprom.config \in held

\* A valid record is never replaced by a valid one of an older version: the saves
\* of a boot cannot go back behind what it restored or has saved.  Until a boot
\* has done either, it may: a failed write over a torn record can complete the
\* old one, and the defaults are saved over it.
DurableVersionMonotonic ==
  [][saved # NotSaved /\ IsValidV2(eeprom) /\ IsValidV2(eeprom')
       => eeprom'.config.version >= eeprom.config.version]_vars

\* A changed configuration does not stay unsaved for ever.
EventuallyClean == dirty ~> ~dirty
=============================================================================
