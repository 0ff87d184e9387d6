------------------------- MODULE DesiredSyncProofs -------------------------
(***************************************************************************)
(* Proofs about the device's adoption of the desired state, for any modes, *)
(* versions, faults and serial commands.                                   *)
(***************************************************************************)
EXTENDS DesiredSync, TLAPS

(* A copy is not ahead of the desired state, and is it at the same version *)
(* unless overridden.  It holds of the running copy and of the record.     *)
Follows(c) ==
  /\ c.config.config_version <= value.config_version
  /\ c.config.config_version = value.config_version /\ ~c.overridden
       => c.config = value

(* An answer on its way was the desired state once. *)
AnswerFollows ==
  call.stage = "answered"
    => \/ call.desired.config_version < value.config_version
       \/ call.desired = value

ReportsBehind ==
  /\ call.report <= value.config_version
  /\ \A v \in late : v <= value.config_version
  /\ ReportNotAhead

Inv == /\ SyncTypeOK
       /\ Follows(device) /\ Follows(eeprom)
       /\ AnswerFollows
       /\ ReportsBehind

LEMMA Versions == /\ \A d \in DesiredStates : d.config_version \in Nat
                                              /\ d.config_version >= 1
                                              /\ d.config_version <= MaxVersion
                  /\ \A c \in Copies : c.config.config_version \in Nat
                                       /\ c.config.config_version <= MaxVersion
BY SyncAssumption DEF DesiredStates, Copies, Configs

LEMMA FactoryFacts ==
  /\ Factory \in Copies
  /\ Factory.config.config_version = 0
BY SyncAssumption DEF Factory, Copies, Configs

LEMMA FactoryFollows == ASSUME value \in DesiredStates PROVE Follows(Factory)
BY FactoryFacts, Versions DEF Follows

LEMMA NewFollows ==
  ASSUME value \in DesiredStates, NEW c \in New
  PROVE  c \in Copies /\ Follows(c)
BY Versions DEF New, Follows

LEMMA DefaultType == Default \in DesiredStates /\ Default.config_version = 1
BY SyncAssumption DEF Default, DesiredStates

LEMMA InitInv == SyncInit => Inv
<1> SUFFICES ASSUME SyncInit PROVE Inv
  OBVIOUS
<1>1. SyncTypeOK
  BY DefaultType, SyncAssumption
  DEF SyncInit, Init, New, SyncTypeOK, NoCall, NoReport
<1>2. Follows(device) /\ Follows(eeprom)
  BY NewFollows, DefaultType DEF SyncInit, Init
<1>3. AnswerFollows /\ ReportsBehind
  BY DefaultType
  DEF SyncInit, Init, AnswerFollows, ReportsBehind, ReportNotAhead, NoCall, NoReport
<1> QED
  BY <1>1, <1>2, <1>3 DEF Inv
-----------------------------------------------------------------------------
(* The desired state moves on: everything that followed it still does. *)
LEMMA CommandInv == ASSUME Inv, Command PROVE Inv'
<1>0. /\ value \in DesiredStates /\ value' \in DesiredStates
      /\ value'.config_version = value.config_version + 1
      /\ UNCHANGED <<device, eeprom, call, late, reported, counters>>
  BY DEF Command, Next, Evolves, Inv, SyncTypeOK
<1>1. value.config_version \in Nat
  BY <1>0, Versions
<1>2. SyncTypeOK'
  BY <1>0 DEF Inv, SyncTypeOK, counters
<1>3. /\ device.config.config_version < value'.config_version
      /\ eeprom.config.config_version < value'.config_version
      /\ device.config.config_version \in Nat /\ eeprom.config.config_version \in Nat
  BY <1>0, <1>1, Versions DEF Inv, SyncTypeOK, Follows
<1>4. Follows(device)' /\ Follows(eeprom)'
  BY <1>0, <1>1, <1>3 DEF Follows
<1>5. AnswerFollows'
  <2>1. call.stage = "answered"
          => /\ call.desired \in DesiredStates
             /\ call.desired.config_version <= value.config_version
    BY <1>1, Versions DEF Inv, AnswerFollows, SyncTypeOK
  <2> QED
    BY <1>0, <1>1, <2>1, Versions DEF AnswerFollows
<1>6. ReportsBehind'
  <2>1. call.report \in Nat /\ late \subseteq Nat /\ reported \in Nat
    BY SyncAssumption DEF Inv, SyncTypeOK
  <2>2. NoReport' = NoReport
    BY DEF NoReport
  <2> QED
    BY <1>0, <1>1, <2>1, <2>2 DEF Inv, ReportsBehind, ReportNotAhead
<1> QED
  BY <1>2, <1>4, <1>5, <1>6 DEF Inv

(* Every other step leaves the desired state alone.  It keeps the invariant *)
(* when the new copies and the new call follow and the new reports are not  *)
(* ahead.                                                                   *)
LEMMA StillInv ==
  ASSUME Inv, SyncTypeOK', UNCHANGED value,
         device' \in {device, eeprom, Factory} \/ Follows(device)',
         eeprom' \in {device, eeprom, Factory},
         AnswerFollows',
         call'.report <= value.config_version,
         \A v \in late' : v \in late \cup {call.report},
         reported' \in late \cup {reported, call.report, NoReport}
  PROVE  Inv'
<1>1. Follows(device) /\ Follows(eeprom) /\ Follows(Factory)
  BY FactoryFollows DEF Inv, SyncTypeOK
<1>2. Follows(eeprom)'
  BY <1>1 DEF Follows
<1>3. Follows(device)'
  BY <1>1 DEF Follows
<1>4. NoReport' = NoReport
  BY DEF NoReport
<1>5. ReportsBehind'
  BY <1>4 DEF Inv, ReportsBehind, ReportNotAhead
<1> QED
  BY <1>2, <1>3, <1>5 DEF Inv

LEMMA TypeFacts ==
  ASSUME Inv
  PROVE  /\ value \in DesiredStates
         /\ device \in Copies /\ eeprom \in Copies /\ Factory \in Copies
         /\ call \in [stage : {"none", "sent", "recorded", "answered", "dead"},
                      report : 0..MaxVersion, desired : DesiredStates]
         /\ late \subseteq 0..MaxVersion /\ reported \in 0..(MaxVersion + 1)
         /\ NoReport \in 0..(MaxVersion + 1)
         /\ 0..MaxVersion \subseteq 0..(MaxVersion + 1)
         /\ faults \in Nat /\ overrides \in Nat
         /\ NoCall.stage = "none" /\ NoCall.report = 0
         /\ NoCall \in [stage : {"none", "sent", "recorded", "answered", "dead"},
                        report : 0..MaxVersion, desired : DesiredStates]
         /\ 0 <= value.config_version
<1>1. /\ NoCall.stage = "none" /\ NoCall.report = 0
      /\ NoCall \in [stage : {"none", "sent", "recorded", "answered", "dead"},
                     report : 0..MaxVersion, desired : DesiredStates]
  BY DefaultType, SyncAssumption DEF NoCall
<1> QED
  BY <1>1, FactoryFacts, Versions, SyncAssumption DEF Inv, SyncTypeOK, NoReport

LEMMA BackendRestartInv == ASSUME Inv, BackendRestart PROVE Inv'
<1> USE TypeFacts
<1>1. /\ UNCHANGED <<value, device, eeprom, late, overrides>>
      /\ reported' = NoReport /\ faults' \in Nat
      /\ call' = call \/ call' = [call EXCEPT !.stage = "dead"]
  BY DEF BackendRestart, Fault
<1>2. /\ call' \in [stage : {"none", "sent", "recorded", "answered", "dead"},
                    report : 0..MaxVersion, desired : DesiredStates]
      /\ call'.report = call.report
      /\ call' = call \/ call'.stage = "dead"
  BY <1>1
<1>3. SyncTypeOK'
  BY <1>1, <1>2 DEF SyncTypeOK
<1>4. AnswerFollows'
  BY <1>1, <1>2 DEF Inv, AnswerFollows
<1> QED
  BY <1>1, <1>2, <1>3, <1>4, StillInv DEF Inv, ReportsBehind

LEMMA SendHeartbeatInv == ASSUME Inv, SendHeartbeat PROVE Inv'
<1> USE TypeFacts
<1>1. /\ UNCHANGED <<value, device, eeprom, late, reported, counters>>
      /\ call' = [stage |-> "sent", report |-> device.config.config_version,
                  desired |-> Default]
  BY DEF SendHeartbeat
<1>2. /\ call'.stage = "sent" /\ call'.report = device.config.config_version
      /\ device.config.config_version \in 0..MaxVersion
  BY <1>1 DEF Copies, Configs
<1>3. call' \in [stage : {"none", "sent", "recorded", "answered", "dead"},
                 report : 0..MaxVersion, desired : DesiredStates]
  BY <1>1, <1>2, DefaultType
<1>4. SyncTypeOK'
  BY <1>1, <1>3 DEF SyncTypeOK, counters
<1>5. call'.report <= value.config_version
  BY <1>2 DEF Inv, Follows
<1> QED
  BY <1>1, <1>2, <1>4, <1>5, StillInv DEF AnswerFollows

LEMMA RecordReportInv == ASSUME Inv, RecordReport PROVE Inv'
<1> USE TypeFacts
<1>1. /\ UNCHANGED <<value, device, eeprom, late, counters>>
      /\ call' = [call EXCEPT !.stage = "recorded"] /\ reported' = call.report
  BY DEF RecordReport
<1>2. call'.stage = "recorded" /\ call'.report = call.report
  BY <1>1
<1>3. SyncTypeOK'
  BY <1>1 DEF SyncTypeOK, counters
<1> QED
  BY <1>1, <1>2, <1>3, StillInv DEF AnswerFollows, Inv, ReportsBehind

LEMMA AnswerHeartbeatInv == ASSUME Inv, AnswerHeartbeat PROVE Inv'
<1> USE TypeFacts
<1>1. /\ UNCHANGED <<value, device, eeprom, late, reported, counters>>
      /\ call' = [call EXCEPT !.stage = "answered", !.desired = value]
  BY DEF AnswerHeartbeat
<1>2. call'.desired = value /\ call'.report = call.report
  BY <1>1
<1>3. SyncTypeOK'
  BY <1>1 DEF SyncTypeOK, counters
<1> QED
  BY <1>1, <1>2, <1>3, StillInv DEF AnswerFollows, Inv, ReportsBehind

LEMMA ApplyDesiredInv == ASSUME Inv, ApplyDesired PROVE Inv'
<1> USE TypeFacts
<1>1. /\ UNCHANGED <<value, eeprom, late, reported, counters>> /\ call' = NoCall
      /\ call.stage = "answered"
      /\ device' = device \/ device' = [config |-> call.desired, overridden |-> FALSE]
  BY DEF ApplyDesired
<1>2. call.desired \in DesiredStates /\ call.desired \in Configs
  BY SyncAssumption DEF DesiredStates, Configs
<1>3. SyncTypeOK'
  <2>1. [config |-> call.desired, overridden |-> FALSE] \in Copies
    BY <1>2 DEF Copies
  <2>2. device' \in Copies
    BY <1>1, <2>1
  <2> QED
    BY <1>1, <2>2 DEF SyncTypeOK, counters
<1>4. CASE device' = device
  BY <1>1, <1>3, <1>4, StillInv DEF AnswerFollows
<1>5. CASE device' = [config |-> call.desired, overridden |-> FALSE]
  <2>1. device'.config = call.desired /\ value' = value
    BY <1>1, <1>5
  <2>2. \/ call.desired.config_version < value.config_version
        \/ call.desired = value
    BY <1>1 DEF Inv, AnswerFollows
  <2>3. call.desired.config_version \in Nat /\ value.config_version \in Nat
    BY <1>2, Versions
  <2>4. Follows(device)'
    BY <2>1, <2>2, <2>3 DEF Follows
  <2> QED
    BY <1>1, <1>3, <2>4, StillInv DEF AnswerFollows
<1> QED
  BY <1>1, <1>4, <1>5

LEMMA GiveUpInv == ASSUME Inv, GiveUp PROVE Inv'
<1> USE TypeFacts
<1>1. /\ UNCHANGED <<value, device, eeprom, reported, overrides>> /\ call' = NoCall
      /\ faults' \in Nat /\ \A v \in late' : v \in late \cup {call.report}
  BY DEF GiveUp, Fault, Abandoned
<1>2. SyncTypeOK'
  BY <1>1 DEF SyncTypeOK
<1> QED
  BY <1>1, <1>2, StillInv DEF AnswerFollows

LEMMA RecordLateInv == ASSUME Inv, RecordLate PROVE Inv'
<1> USE TypeFacts
<1>1. /\ UNCHANGED <<value, device, eeprom, call, counters>>
      /\ late' \subseteq late /\ reported' \in late \cup {reported}
  BY DEF RecordLate
<1>2. SyncTypeOK'
  BY <1>1 DEF SyncTypeOK, counters
<1> QED
  BY <1>1, <1>2, StillInv DEF AnswerFollows, Inv, ReportsBehind

LEMMA SerialOverrideInv == ASSUME Inv, SerialOverride PROVE Inv'
<1> USE TypeFacts
<1>1. PICK m \in Mode, on \in BOOLEAN :
        device' = [config |-> [device.config EXCEPT !.mode = m, !.manual_light_on = on],
                   overridden |-> TRUE]
  BY DEF SerialOverride
<1>2. UNCHANGED <<value, eeprom, call, late, reported, faults>> /\ overrides' \in Nat
  BY DEF SerialOverride
<1>3. device.config \in Configs
  BY DEF Copies
<1>4. /\ device' \in Copies /\ device'.overridden = TRUE
      /\ device'.config.config_version = device.config.config_version
  BY <1>1, <1>3 DEF Copies, Configs
<1>5. SyncTypeOK'
  BY <1>2, <1>4 DEF SyncTypeOK
<1>6. Follows(device)'
  BY <1>2, <1>4 DEF Inv, Follows
<1> QED
  BY <1>2, <1>5, <1>6, StillInv DEF AnswerFollows, Inv, ReportsBehind

LEMMA SaveInv == ASSUME Inv, Save PROVE Inv'
<1> USE TypeFacts
<1>1. /\ UNCHANGED <<value, device, call, late, reported, counters>>
      /\ eeprom' = device
  BY DEF Save
<1>2. SyncTypeOK'
  BY <1>1 DEF SyncTypeOK, counters
<1> QED
  BY <1>1, <1>2, StillInv DEF AnswerFollows, Inv, ReportsBehind

LEMMA ResetInv == ASSUME Inv, Reset PROVE Inv'
<1> USE TypeFacts
<1>1. /\ UNCHANGED <<value, reported, overrides>> /\ call' = NoCall
      /\ faults' \in Nat /\ device' \in {eeprom, Factory} /\ eeprom' = device'
      /\ \A v \in late' : v \in late \cup {call.report}
  BY DEF Reset, Fault, Abandoned
<1>2. SyncTypeOK'
  BY <1>1 DEF SyncTypeOK
<1> QED
  BY <1>1, <1>2, StillInv DEF AnswerFollows

LEMMA NextInv == Inv /\ [SyncNext]_syncVars => Inv'
<1> SUFFICES ASSUME Inv, [SyncNext]_syncVars PROVE Inv'
  OBVIOUS
<1>1. CASE UNCHANGED syncVars
  BY <1>1
  DEF syncVars, counters, Inv, SyncTypeOK, Follows, AnswerFollows, ReportsBehind,
      ReportNotAhead, NoReport
<1> QED
  BY <1>1, CommandInv, BackendRestartInv, SendHeartbeatInv, RecordReportInv,
     AnswerHeartbeatInv, ApplyDesiredInv, GiveUpInv, RecordLateInv,
     SerialOverrideInv, SaveInv, ResetInv
  DEF SyncNext

LEMMA SpecInv == SyncSpec => []Inv
BY InitInv, NextInv, PTL DEF SyncSpec
-----------------------------------------------------------------------------
(* Every variable keeps its type. *)
THEOREM SyncTypeCorrect == SyncSpec => []SyncTypeOK
<1>1. Inv => SyncTypeOK
  BY DEF Inv
<1> QED
  BY SpecInv, <1>1, PTL

(* A device at the desired version runs the desired state unless overridden. *)
THEOREM VersionMeansState == SyncSpec => []SameVersionSameState
<1>1. Inv => SameVersionSameState
  BY DEF Inv, Follows, SameVersionSameState
<1> QED
  BY SpecInv, <1>1, PTL

(* The dashboard never shows a device ahead of its desired state. *)
THEOREM ReportsNotAhead == SyncSpec => []ReportNotAhead
<1>1. Inv => ReportNotAhead
  BY DEF Inv, ReportsBehind
<1> QED
  BY SpecInv, <1>1, PTL
=============================================================================
