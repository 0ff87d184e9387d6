----------------------------- MODULE DesiredSync -----------------------------
(***************************************************************************)
(* How the device comes to run the desired state.  The backend is the      *)
(* versioned register of DesiredRegister (which DesiredState implements);  *)
(* the device (main.cpp, BackendClient.cpp) reports its version with every *)
(* heartbeat, gets the desired state back and adopts it when it is newer.  *)
(* Serial commands change the device's own copy under the version it has.  *)
(* The copy is saved some time later, so a reset restores an older one, or *)
(* the defaults when the EEPROM cannot be read.  Heartbeats are lost,      *)
(* answered late or given up, and a handler whose device has given up may  *)
(* still record its report.                                                *)
(***************************************************************************)
EXTENDS DesiredRegister

CONSTANTS MaxFaults,    \* bound: resets, restarts and calls given up
          MaxOverrides  \* bound: serial commands

ASSUME SyncAssumption == /\ Manual \in Mode
                         /\ MaxVersion \in Nat \ {0}
                         /\ MaxFaults \in Nat /\ MaxOverrides \in Nat

\* What the device holds: its configuration, and (history) whether a serial
\* command changed it since its version was adopted.
Configs == [mode : Mode, manual_light_on : BOOLEAN, config_version : 0..MaxVersion]
Copies == [config : Configs, overridden : BOOLEAN]
Factory == [config |-> [mode |-> Manual, manual_light_on |-> FALSE, config_version |-> 0],
            overridden |-> FALSE]

NoReport == MaxVersion + 1    \* StoredState.reported is None

VARIABLES
  device,    \* appState's configuration
  eeprom,    \* the record a reset restores
  call,      \* the heartbeat the device waits for: its report, stage, answer
  late,      \* versions reported by heartbeats given up, not yet recorded
  reported,  \* StoredState.reported's version
  faults, overrides

NoCall == [stage |-> "none", report |-> 0, desired |-> Default]

counters == <<faults, overrides>>
syncVars == <<value, device, eeprom, call, late, reported, counters>>

\* A device never synchronised: with the defaults, or migrated from a record
\* of version 1, which has no configuration version.
New == {c \in Copies : c.config.config_version = 0 /\ ~c.overridden}

SyncInit == /\ Init
            /\ device \in New
            /\ eeprom = device
            /\ call = NoCall
            /\ late = {}
            /\ reported = NoReport
            /\ faults = 0 /\ overrides = 0
-----------------------------------------------------------------------------
Fault == faults < MaxFaults /\ faults' = faults + 1

\* A dashboard command is accepted.
Command == Next /\ UNCHANGED <<device, eeprom, call, late, reported, counters>>

\* The process is killed: it forgets the report and the call it was serving;
\* an answer already sent stays on its way.
BackendRestart ==
  /\ Fault
  /\ reported' = NoReport
  /\ call' = IF call.stage \in {"sent", "recorded"}
             THEN [call EXCEPT !.stage = "dead"] ELSE call
  /\ UNCHANGED <<value, device, eeprom, late, overrides>>

\* performHeartbeat sends the request and blocks.
SendHeartbeat ==
  /\ call = NoCall
  /\ call' = [stage |-> "sent", report |-> device.config.config_version,
              desired |-> Default]
  /\ UNCHANGED <<value, device, eeprom, late, reported, counters>>

\* record_heartbeat_at
RecordReport ==
  /\ call.stage = "sent"
  /\ call' = [call EXCEPT !.stage = "recorded"]
  /\ reported' = call.report
  /\ UNCHANGED <<value, device, eeprom, late, counters>>

\* The end of record_heartbeat: the desired state of that moment is the answer.
AnswerHeartbeat ==
  /\ call.stage = "recorded"
  /\ call' = [call EXCEPT !.stage = "answered", !.desired = value]
  /\ UNCHANGED <<value, device, eeprom, late, reported, counters>>

\* Mutant: the next version is not enough.
MuchNewer(d) == d.config_version > device.config.config_version + 1

\* applyDesiredState: equal and stale versions change nothing.
Newer(d) == d.config_version > device.config.config_version

\* Mutant: the manual command of the desired state is left out.
ApplyDesiredModeOnly ==
  /\ call.stage = "answered"
  /\ call' = NoCall
  /\ IF Newer(call.desired)
     THEN device' = [config |-> [call.desired EXCEPT
                                   !.manual_light_on = device.config.manual_light_on],
                     overridden |-> FALSE]
     ELSE UNCHANGED device
  /\ UNCHANGED <<value, eeprom, late, reported, counters>>

ApplyDesired ==
  /\ call.stage = "answered"
  /\ call' = NoCall
  /\ IF Newer(call.desired)
     THEN device' = [config |-> call.desired, overridden |-> FALSE]
     ELSE UNCHANGED device
  /\ UNCHANGED <<value, eeprom, late, reported, counters>>

\* The device closes the connection; a request not yet recorded is lost, or
\* still on its way to a handler.
Abandoned == IF call.stage = "sent" THEN {call.report} ELSE {}

GiveUp ==
  /\ call # NoCall
  /\ IF call.stage = "dead" THEN UNCHANGED faults ELSE Fault
  /\ late' \in {late, late \cup Abandoned}
  /\ call' = NoCall
  /\ UNCHANGED <<value, device, eeprom, reported, overrides>>

\* The handler of a heartbeat given up runs after all, or dies.
RecordLate ==
  /\ \E v \in late : /\ late' = late \ {v}
                     /\ reported' \in {v, reported}
  /\ UNCHANGED <<value, device, eeprom, call, counters>>

\* Mutant: a serial command takes a version of its own.
SerialOverrideVersioned ==
  /\ call = NoCall
  /\ overrides < MaxOverrides
  /\ overrides' = overrides + 1
  /\ device' = [config |-> [device.config EXCEPT
                              !.config_version = device.config.config_version + 1],
                overridden |-> TRUE]
  /\ UNCHANGED <<value, eeprom, call, late, reported, faults>>

\* handleCommand "mode" and "light" set the device's own copy; loop() runs them
\* between two heartbeats.
SerialOverride ==
  /\ call = NoCall
  /\ overrides < MaxOverrides
  /\ overrides' = overrides + 1
  /\ \E m \in Mode, on \in BOOLEAN :
       /\ (m # device.config.mode) # (on # device.config.manual_light_on)
       /\ device' = [config |-> [device.config EXCEPT !.mode = m, !.manual_light_on = on],
                     overridden |-> TRUE]
  /\ UNCHANGED <<value, eeprom, call, late, reported, faults>>

\* updateConfigSave, once the save succeeds.
Save == /\ call = NoCall
        /\ eeprom # device
        /\ eeprom' = device
        /\ UNCHANGED <<value, device, call, late, reported, counters>>

\* A reset restores the record, or the defaults if it was torn.
Reset ==
  /\ Fault
  /\ device' \in {eeprom, Factory}
  /\ eeprom' = device'
  /\ late' \in {late, late \cup Abandoned}
  /\ call' = NoCall
  /\ UNCHANGED <<value, reported, overrides>>

SyncNext == \/ Command \/ BackendRestart
            \/ SendHeartbeat \/ RecordReport \/ AnswerHeartbeat \/ ApplyDesired
            \/ GiveUp \/ RecordLate \/ SerialOverride \/ Save \/ Reset

SyncSpec == SyncInit /\ [][SyncNext]_syncVars

\* loop() keeps sending heartbeats, and one that no fault meets is answered.
SyncFairSpec ==
  /\ SyncSpec
  /\ WF_syncVars(SendHeartbeat) /\ WF_syncVars(RecordReport)
  /\ WF_syncVars(AnswerHeartbeat) /\ WF_syncVars(ApplyDesired)
  /\ WF_syncVars(GiveUp)
-----------------------------------------------------------------------------
(* Correctness. *)

\* Every variable holds what its type says.
SyncTypeOK ==
  /\ value \in DesiredStates
  /\ device \in Copies /\ eeprom \in Copies
  /\ call \in [stage : {"none", "sent", "recorded", "answered", "dead"},
               report : 0..MaxVersion, desired : DesiredStates]
  /\ late \subseteq 0..MaxVersion
  /\ reported \in 0..(MaxVersion + 1)
  /\ faults \in Nat /\ overrides \in Nat

\* A device at the desired version runs the desired state, unless a serial
\* command changed it there: no lost answer, restored record or late response
\* leaves it with the version and not the state, which no heartbeat would mend.
SameVersionSameState ==
  device.config.config_version = value.config_version /\ ~device.overridden
    => device.config = value

\* The dashboard never shows a device ahead of the desired state beside it
\* (app.js renders both versions), whichever handler recorded the report.
ReportNotAhead ==
  reported = NoReport \/ reported <= value.config_version

\* Once commands and faults have stopped, the device gets the desired version
\* and the dashboard shows it.
EventuallySynced ==
  <>[](/\ device.config.config_version = value.config_version
       /\ reported = value.config_version)
=============================================================================
