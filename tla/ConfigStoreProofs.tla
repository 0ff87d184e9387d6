------------------------- MODULE ConfigStoreProofs -------------------------
(***************************************************************************)
(* Proofs about the configuration and its EEPROM record, for any modes,    *)
(* versions, delays and bounds.                                            *)
(***************************************************************************)
EXTENDS ConfigStore, TLAPS

(* The store's copy is the record, unless a write has failed since. *)
CopyIsRecord == saved # NotSaved /\ ~suspect => eeprom = saved

(* With nothing to save, the copy is the running configuration. *)
CleanIsCopied == running /\ ~dirty => saved = V2(config)

(* A device that is off has no RAM. *)
OffIsBlank == ~running => saved = NotSaved /\ ~dirty /\ ~suspect

(* The running configuration is one of those held. *)
RunningIsHeld == config \in held /\ Defaults \in held

(* Every checksum in the EEPROM was computed from a configuration held, of   *)
(* which a torn record need hold nothing else; and, once this boot has       *)
(* restored or saved a record, from none newer than the running one.         *)
SumIsHeld == eeprom.sum[2] \in held
SumNotAhead == saved # NotSaved => eeprom.sum[2].version <= config.version

Inv == /\ TypeOK
       /\ CopyIsRecord
       /\ CleanIsCopied
       /\ OffIsBlank
       /\ RunningIsHeld /\ SumIsHeld /\ SumNotAhead

(* What makeRecord makes is valid, and keeps what it holds. *)
LEMMA RecordFacts ==
  /\ \A c : /\ V2(c).kind = "v2" /\ V2(c).config = c /\ V2(c).sum = <<"v2", c>>
            /\ V2(c).sum[2] = c /\ IsValidV2(V2(c)) /\ V2(c) # NotSaved
  /\ \A c, d : V2(c) = V2(d) => c = d
  /\ NotSaved.kind = "none"
<1>1. \A c : V2(c).kind = "v2" /\ V2(c).config = c /\ V2(c).sum = <<"v2", c>>
  BY DEF V2, Signed
<1>2. NotSaved.kind = "none"
  BY DEF NotSaved
<1>3. \A c : V2(c) # NotSaved /\ IsValidV2(V2(c)) /\ V2(c).sum[2] = c
  BY <1>1, <1>2 DEF IsValidV2
<1>4. \A c, d : V2(c) = V2(d) => c = d
  BY <1>1
<1> QED
  BY <1>1, <1>2, <1>3, <1>4

LEMMA DefaultsFacts == Defaults \in Config /\ Defaults.version = 0
BY ConfigAssumption DEF Defaults, Config

LEMMA RecordTypes ==
  /\ \A c \in Config : V2(c) \in Records /\ V1(c) \in Records
  /\ Junk \in Records /\ Junk.config = Defaults /\ Junk.sum = <<"junk", Defaults>>
  /\ \A r \in Records : /\ r.config \in Config /\ r.sum[2] \in Config
                         /\ r.sum[2].version \in Nat
BY DefaultsFacts, ConfigAssumption DEF Records, V2, V1, Junk, Signed, Kinds, Config

(* A torn record has the checksum of one of the two, or of neither. *)
LEMMA TornFacts ==
  ASSUME NEW old \in Records, NEW c \in Config, NEW r \in Torn(old, V2(c))
  PROVE  /\ r \in Records
         /\ r.sum \in {old.sum, <<"v2", c>>, <<"junk", Defaults>>}
<1>1. /\ V2(c) \in Records /\ V2(c).sum = <<"v2", c>> /\ Junk \in Records
      /\ Junk.sum = <<"junk", Defaults>>
  BY RecordTypes, RecordFacts
<1>2. Mixed(old.config, V2(c).config) \subseteq Config
  BY <1>1 DEF Mixed, Config, Records
<1> QED
  BY <1>1, <1>2 DEF Torn, Records

LEMMA InitInv == Init => Inv
<1> SUFFICES ASSUME Init PROVE Inv
  OBVIOUS
<1>1. /\ eeprom \in Records /\ eeprom.sum[2] = eeprom.config
      /\ held = {Defaults, eeprom.config}
  <2>1. eeprom \in {V2(c) : c \in Config} \cup {V1(c) : c \in Config} \cup {Junk}
    BY DEF Init
  <2>2. held = {Defaults, eeprom.config}
    BY DEF Init
  <2>3. ASSUME NEW c \in Config, eeprom = V2(c) \/ eeprom = V1(c)
        PROVE  eeprom \in Records /\ eeprom.sum[2] = eeprom.config
    <3>1. eeprom \in Records
      BY <2>3, RecordTypes
    <3> QED
      BY <2>3, <3>1 DEF V2, V1, Signed
  <2>4. CASE eeprom = Junk
    <3>1. Junk \in Records /\ Junk.config = Defaults /\ Junk.sum = <<"junk", Defaults>>
      BY RecordTypes
    <3>2. Junk.sum[2] = Defaults
      BY <3>1
    <3> QED
      BY <2>2, <2>4, <3>1, <3>2
  <2> QED
    BY <2>1, <2>2, <2>3, <2>4
<1>2. TypeOK
  BY <1>1, ConfigAssumption, DefaultsFacts DEF Init, TypeOK
<1>3. /\ CopyIsRecord /\ CleanIsCopied /\ OffIsBlank
      /\ RunningIsHeld /\ SumIsHeld /\ SumNotAhead
  BY <1>1 DEF Init, CopyIsRecord, CleanIsCopied, OffIsBlank, RunningIsHeld, SumIsHeld,
              SumNotAhead
<1> QED
  BY <1>2, <1>3 DEF Inv

(* Saving the running configuration: whatever the outcome, the checksum left *)
(* is of a configuration held and not ahead, and a success leaves copy and   *)
(* record equal.                                                             *)
LEMMA SaveOutcome ==
  ASSUME Inv, NEW c \in Config, c \in held,
         saved # NotSaved => eeprom.sum[2].version <= c.version,
         SaveReturnsTrue(c) \/ SaveFailed(c)
  PROVE  /\ eeprom' \in Records
         /\ saved' \in {V2(d) : d \in Config} \cup {NotSaved}
         /\ suspect' \in BOOLEAN /\ failures' \in Nat
         /\ saved' # NotSaved /\ ~suspect' => eeprom' = saved'
         /\ SaveReturnsTrue(c) => saved' = V2(c)
         /\ eeprom'.sum[2] \in held
         /\ saved' # NotSaved => eeprom'.sum[2].version <= c.version
         /\ saved # NotSaved /\ IsValidV2(eeprom) /\ IsValidV2(eeprom')
              => eeprom'.config.version >= eeprom.config.version
<1>0. /\ eeprom \in Records /\ failures \in Nat /\ suspect \in BOOLEAN
      /\ saved \in {V2(d) : d \in Config} \cup {NotSaved}
      /\ saved # NotSaved /\ ~suspect => eeprom = saved
      /\ eeprom.sum[2] \in held /\ Defaults \in held
  BY DEF Inv, TypeOK, CopyIsRecord, SumIsHeld, RunningIsHeld
<1>1. /\ c.version \in Nat /\ eeprom.sum[2].version \in Nat
      /\ IsValidV2(eeprom) => eeprom.config.version = eeprom.sum[2].version
      /\ Defaults.version = 0
  <2>1. c.version \in Nat
    BY ConfigAssumption DEF Config
  <2>2. eeprom.sum[2].version \in Nat
    BY <1>0, RecordTypes
  <2>3. IsValidV2(eeprom) => eeprom.config.version = eeprom.sum[2].version
    BY DEF IsValidV2
  <2> QED
    BY <2>1, <2>2, <2>3, DefaultsFacts
<1>2. CASE SaveSkipped(c)
  <2>1. saved = V2(c) /\ UNCHANGED <<eeprom, saved, failures, suspect>>
    BY <1>2 DEF SaveSkipped
  <2> QED
    BY <1>0, <1>1, <2>1
<1>3. CASE SaveVerified(c)
  <2>1. /\ saved # V2(c) /\ saved' = V2(c) /\ eeprom' = V2(c)
        /\ suspect' = FALSE /\ failures' = failures
    BY <1>3 DEF SaveVerified
  <2>2. eeprom'.sum[2] = c /\ eeprom'.config = c /\ eeprom' \in Records
    BY <2>1, RecordFacts, RecordTypes
  <2>3. /\ eeprom'.sum[2].version <= c.version
        /\ saved # NotSaved /\ IsValidV2(eeprom)
             => eeprom'.config.version >= eeprom.config.version
    BY <1>1, <2>2
  <2>4. saved' \in {V2(d) : d \in Config} \cup {NotSaved}
    BY <2>1
  <2> QED
    BY <1>0, <2>1, <2>2, <2>3, <2>4
<1>4. CASE SaveFailed(c)
  <2>1. /\ saved # V2(c) /\ saved' = saved /\ suspect' = TRUE
        /\ failures' \in Nat /\ eeprom' \in Torn(eeprom, V2(c))
    BY <1>0, <1>4 DEF SaveFailed
  <2>2. ~SaveReturnsTrue(c)
    BY <2>1 DEF SaveReturnsTrue, SaveSkipped, SaveVerified
  <2>3. /\ eeprom' \in Records
        /\ eeprom'.sum \in {eeprom.sum, <<"v2", c>>, <<"junk", Defaults>>}
    BY <1>0, <2>1, TornFacts
  <2>4. IsValidV2(eeprom') => /\ eeprom'.sum # <<"junk", Defaults>>
                              /\ eeprom'.config = eeprom'.sum[2]
    <3>1. IsValidV2(eeprom') => eeprom'.sum[1] = "v2" /\ eeprom'.config = eeprom'.sum[2]
      BY DEF IsValidV2
    <3> QED
      BY <3>1
  <2>5. eeprom'.sum[2] \in {eeprom.sum[2], c, Defaults}
    BY <2>3
  <2>6. saved # NotSaved => eeprom'.sum[2].version <= c.version
    BY <1>1, <2>5
  <2>7. saved # NotSaved /\ IsValidV2(eeprom) /\ IsValidV2(eeprom')
          => eeprom'.config.version >= eeprom.config.version
    <3> SUFFICES ASSUME saved # NotSaved, IsValidV2(eeprom), IsValidV2(eeprom')
                 PROVE  eeprom'.config.version >= eeprom.config.version
      OBVIOUS
    <3>1. eeprom'.config = eeprom.sum[2] \/ eeprom'.config = c
      BY <2>3, <2>4
    <3> QED
      BY <1>1, <3>1
  <2> QED
    BY <1>0, <2>1, <2>2, <2>3, <2>5, <2>6, <2>7
<1> QED
  BY <1>2, <1>3, <1>4 DEF SaveReturnsTrue

LEMMA BootInv == ASSUME Inv, Boot PROVE Inv'
<1>0. /\ eeprom \in Records /\ failures \in Nat /\ commands \in Nat /\ wait \in Nat
      /\ saved = NotSaved /\ dirty = FALSE /\ suspect = FALSE
      /\ eeprom.sum[2] \in held /\ Defaults \in held /\ Defaults \in Config
  BY DefaultsFacts
  DEF Inv, TypeOK, OffIsBlank, SumIsHeld, RunningIsHeld, Boot
<1>1. /\ running' = TRUE /\ boots' \in Nat /\ commands' = commands
      /\ Defaults' = Defaults /\ NotSaved' = NotSaved
  BY DEF Boot, Inv, TypeOK, Defaults, NotSaved
<1>2. CASE LoadValid
  <2> DEFINE c == eeprom.config
  <2>1. c \in Config /\ c.version \in Nat /\ c = eeprom.sum[2] /\ eeprom = V2(c)
    <3>1. IsValidV2(eeprom) /\ eeprom \in Records
      BY <1>0, <1>2 DEF LoadValid
    <3>2. eeprom = V2(c)
      BY <3>1 DEF IsValidV2, V2, Signed, Records
    <3> QED
      <4>1. eeprom.config = eeprom.sum[2]
        BY <3>1 DEF IsValidV2
      <4>2. eeprom.config \in Config /\ eeprom.sum[2].version \in Nat
        BY <3>1, RecordTypes
      <4> QED
        BY <3>2, <4>1, <4>2
  <2>2. /\ config' = c /\ held' = held \cup {c} /\ saved' = V2(c)
        /\ UNCHANGED <<eeprom, dirty, wait, failures, suspect>>
    BY <1>2 DEF LoadValid, BootFrom
  <2> HIDE DEF c
  <2>3. TypeOK'
    BY <1>0, <1>1, <2>1, <2>2 DEF TypeOK
  <2>4. RunningIsHeld' /\ SumIsHeld' /\ SumNotAhead'
    <3>1. eeprom'.sum[2] = c /\ c.version <= c.version
      BY <2>1, <2>2
    <3> QED
      BY <1>0, <1>1, <2>2, <3>1 DEF RunningIsHeld, SumIsHeld, SumNotAhead
  <2> QED
    BY <1>0, <1>1, <2>1, <2>2, <2>3, <2>4
    DEF Inv, CopyIsRecord, CleanIsCopied, OffIsBlank
<1>3. CASE LoadMigrated
  <2>1. /\ config' = [eeprom.config EXCEPT !.version = 0] /\ held' = held \cup {config'}
        /\ dirty' = TRUE /\ wait' = SaveDelay
        /\ UNCHANGED <<eeprom, saved, failures, suspect>>
    BY <1>3 DEF LoadMigrated, BootFrom
  <2>2. config' \in Config
    <3>1. eeprom.config \in Config
      BY <1>0, RecordTypes
    <3> QED
      BY <2>1, <3>1, ConfigAssumption DEF Config
  <2>3. TypeOK'
    BY <1>0, <1>1, <2>1, <2>2, ConfigAssumption DEF TypeOK
  <2>4. RunningIsHeld' /\ SumIsHeld' /\ SumNotAhead'
    BY <1>0, <1>1, <2>1 DEF RunningIsHeld, SumIsHeld, SumNotAhead
  <2> QED
    BY <1>0, <1>1, <2>1, <2>3, <2>4
    DEF Inv, CopyIsRecord, CleanIsCopied, OffIsBlank
<1>4. CASE LoadInvalid
  <2>1. config' = Defaults /\ held' = held \cup {Defaults}
    BY <1>4 DEF LoadInvalid, BootFrom
  <2>2. SaveReturnsTrue(Defaults) \/ SaveFailed(Defaults)
    BY <1>4 DEF LoadInvalid
  <2>3. /\ eeprom' \in Records
        /\ saved' \in {V2(d) : d \in Config} \cup {NotSaved}
        /\ suspect' \in BOOLEAN /\ failures' \in Nat
        /\ saved' # NotSaved /\ ~suspect' => eeprom' = saved'
        /\ SaveReturnsTrue(Defaults) => saved' = V2(Defaults)
        /\ eeprom'.sum[2] \in held
        /\ saved' # NotSaved => eeprom'.sum[2].version <= Defaults.version
    BY <1>0, <2>2, SaveOutcome
  <2>4. \/ SaveReturnsTrue(Defaults) /\ dirty' = FALSE /\ wait' = wait
        \/ dirty' = TRUE /\ wait' = SaveRetry
    BY <1>0, <1>4 DEF LoadInvalid
  <2>5. TypeOK'
    BY <1>0, <1>1, <2>1, <2>3, <2>4, ConfigAssumption DEF TypeOK
  <2>6. RunningIsHeld' /\ SumIsHeld' /\ SumNotAhead'
    BY <1>0, <1>1, <2>1, <2>3 DEF RunningIsHeld, SumIsHeld, SumNotAhead
  <2>7. CopyIsRecord' /\ CleanIsCopied' /\ OffIsBlank'
    BY <1>1, <2>1, <2>3, <2>4 DEF CopyIsRecord, CleanIsCopied, OffIsBlank
  <2> QED
    BY <2>5, <2>6, <2>7 DEF Inv
<1> QED
  BY <1>2, <1>3, <1>4 DEF Boot

(* A change makes the configuration dirty; a command keeps the version, a *)
(* desired state raises it.                                               *)
LEMMA ChangeInv ==
  ASSUME Inv, NEW c \in Config, c.version >= config.version, Change(c)
  PROVE  Inv'
<1>1. /\ running = TRUE /\ running' = TRUE /\ config' = c /\ held' = held \cup {c}
      /\ dirty' = TRUE /\ wait' = SaveDelay /\ commands' \in Nat
      /\ UNCHANGED <<eeprom, saved, failures, boots, suspect>>
  BY DEF Change, MarkConfigDirty, Inv, TypeOK
<1>2. TypeOK'
  BY <1>1, ConfigAssumption DEF Inv, TypeOK
<1>3. SumNotAhead'
  <2>1. /\ eeprom.sum[2].version \in Nat /\ c.version \in Nat /\ config.version \in Nat
        /\ NotSaved' = NotSaved
    BY RecordTypes, ConfigAssumption DEF Inv, TypeOK, Config, NotSaved
  <2> QED
    BY <1>1, <2>1 DEF Inv, SumNotAhead
<1>4. /\ RunningIsHeld' /\ SumIsHeld'
      /\ CopyIsRecord' /\ CleanIsCopied' /\ OffIsBlank'
  BY <1>1 DEF Inv, RunningIsHeld, SumIsHeld, CopyIsRecord, CleanIsCopied, OffIsBlank,
              Defaults, NotSaved
<1> QED
  BY <1>2, <1>3, <1>4 DEF Inv

LEMMA CommandsInv ==
  ASSUME Inv, SerialMode \/ SerialLight \/ ApplyDesired PROVE Inv'
<1>0. config \in Config /\ config.version \in Nat
  BY ConfigAssumption DEF Inv, TypeOK, Config
<1>1. ASSUME NEW m \in Mode, Change([config EXCEPT !.mode = m]) PROVE Inv'
  <2>1. /\ [config EXCEPT !.mode = m] \in Config
        /\ [config EXCEPT !.mode = m].version >= config.version
    BY <1>0 DEF Config
  <2> QED
    BY <1>1, <2>1, ChangeInv
<1>2. ASSUME SerialLight PROVE Inv'
  <2>1. PICK b \in BOOLEAN : Change([config EXCEPT !.manualLightOn = b])
    <3>1. (~config.manualLightOn) \in BOOLEAN
      OBVIOUS
    <3> QED
      BY <1>2, <3>1, Zenon DEF SerialLight
  <2>2. /\ [config EXCEPT !.manualLightOn = b] \in Config
        /\ [config EXCEPT !.manualLightOn = b].version >= config.version
    BY <1>0 DEF Config
  <2> QED
    BY <2>1, <2>2, ChangeInv
<1>3. ASSUME NEW c \in Config, c.version > config.version, Change(c) PROVE Inv'
  <2>1. c.version >= config.version
    BY <1>0, <1>3, ConfigAssumption DEF Config
  <2> QED
    BY <1>3, <2>1, ChangeInv
<1> QED
  BY <1>1, <1>2, <1>3 DEF SerialMode, ApplyDesired

LEMMA PowerOffInv ==
  ASSUME Inv, PowerOff, eeprom' \in Records,
         eeprom'.sum[2] \in {eeprom.sum[2], config, Defaults}
  PROVE  Inv'
<1>1. /\ running' = FALSE /\ config' = Defaults /\ saved' = NotSaved /\ dirty' = FALSE
      /\ wait' = 0 /\ suspect' = FALSE
      /\ UNCHANGED <<commands, failures, boots, held>>
      /\ Defaults' = Defaults /\ NotSaved' = NotSaved
  BY DEF PowerOff, counters, Defaults, NotSaved
<1>2. TypeOK'
  BY <1>1, DefaultsFacts DEF Inv, TypeOK
<1>3. RunningIsHeld' /\ SumIsHeld' /\ SumNotAhead'
  BY <1>1 DEF Inv, RunningIsHeld, SumIsHeld, SumNotAhead
<1> QED
  BY <1>1, <1>2, <1>3 DEF Inv, CopyIsRecord, CleanIsCopied, OffIsBlank

LEMMA PowerLossInv == ASSUME Inv, PowerLoss \/ PowerLossInWrite PROVE Inv'
<1>0. eeprom \in Records /\ config \in Config
  BY DEF Inv, TypeOK
<1>1. CASE PowerLoss
  BY <1>0, <1>1, PowerOffInv DEF PowerLoss
<1>2. CASE PowerLossInWrite
  <2>1. PowerOff /\ eeprom' \in Torn(eeprom, V2(config))
    BY <1>2 DEF PowerLossInWrite
  <2>2. /\ eeprom' \in Records
        /\ eeprom'.sum \in {eeprom.sum, <<"v2", config>>, <<"junk", Defaults>>}
    BY <1>0, <2>1, TornFacts
  <2>3. eeprom'.sum[2] \in {eeprom.sum[2], config, Defaults}
    BY <2>2
  <2> QED
    BY <2>1, <2>2, <2>3, PowerOffInv
<1> QED
  BY <1>1, <1>2

LEMMA TickInv == ASSUME Inv, Tick PROVE Inv'
<1>1. /\ UNCHANGED <<eeprom, running, config, saved, dirty, commands, failures, boots,
                     suspect, held>>
      /\ wait' \in Nat
  BY DEF Tick, counters, Inv, TypeOK
<1>2. TypeOK'
  BY <1>1 DEF Inv, TypeOK
<1> QED
  BY <1>1, <1>2 DEF Inv, CopyIsRecord, CleanIsCopied, OffIsBlank, RunningIsHeld,
                    SumIsHeld, SumNotAhead, Defaults, NotSaved

LEMMA UpdateConfigSaveInv == ASSUME Inv, UpdateConfigSave PROVE Inv'
<1>0. /\ running = TRUE /\ running' = TRUE /\ config' = config /\ held' = held
      /\ UNCHANGED <<commands, boots>> /\ config \in held /\ config \in Config
      /\ saved # NotSaved => eeprom.sum[2].version <= config.version
      /\ SaveReturnsTrue(config) \/ SaveFailed(config)
      /\ \/ SaveReturnsTrue(config) /\ dirty' = FALSE /\ UNCHANGED wait
         \/ SaveFailed(config) /\ wait' = SaveRetry /\ dirty' = dirty
      /\ dirty = TRUE /\ Defaults' = Defaults /\ NotSaved' = NotSaved
  BY DEF UpdateConfigSave, SaveDue, Inv, TypeOK, RunningIsHeld, SumNotAhead, Defaults,
         NotSaved
<1>1. /\ eeprom' \in Records
      /\ saved' \in {V2(d) : d \in Config} \cup {NotSaved}
      /\ suspect' \in BOOLEAN /\ failures' \in Nat
      /\ saved' # NotSaved /\ ~suspect' => eeprom' = saved'
      /\ SaveReturnsTrue(config) => saved' = V2(config)
      /\ eeprom'.sum[2] \in held
      /\ saved' # NotSaved => eeprom'.sum[2].version <= config.version
  BY <1>0, SaveOutcome
<1>2. TypeOK'
  BY <1>0, <1>1, ConfigAssumption DEF Inv, TypeOK
<1>3. CleanIsCopied'
  BY <1>0, <1>1 DEF CleanIsCopied
<1>4. CopyIsRecord' /\ OffIsBlank' /\ RunningIsHeld' /\ SumIsHeld' /\ SumNotAhead'
  BY <1>0, <1>1
  DEF Inv, CopyIsRecord, OffIsBlank, RunningIsHeld, SumIsHeld, SumNotAhead
<1> QED
  BY <1>2, <1>3, <1>4 DEF Inv

LEMMA NextInv == Inv /\ [Next]_vars => Inv'
<1> SUFFICES ASSUME Inv, [Next]_vars PROVE Inv'
  OBVIOUS
<1>1. CASE Boot
  BY <1>1, BootInv
<1>2. CASE PowerLoss \/ PowerLossInWrite
  BY <1>2, PowerLossInv
<1>4. CASE SerialMode \/ SerialLight \/ ApplyDesired
  BY <1>4, CommandsInv
<1>5. CASE Tick
  BY <1>5, TickInv
<1>6. CASE UpdateConfigSave
  BY <1>6, UpdateConfigSaveInv
<1>7. CASE UNCHANGED vars
  BY <1>7 DEF vars, counters, Inv, TypeOK, CopyIsRecord, CleanIsCopied, OffIsBlank,
              RunningIsHeld, SumIsHeld, SumNotAhead, Defaults, NotSaved
<1> QED
  BY <1>1, <1>2, <1>4, <1>5, <1>6, <1>7 DEF Next

(* Every variable keeps its type. *)
THEOREM ConfigTypeCorrect == Spec => []TypeOK
<1>1. Inv => TypeOK
  BY DEF Inv
<1> QED
  BY InitInv, NextInv, <1>1, PTL DEF Spec

(* As long as no write of this boot has failed since the last verified one, a *)
(* device with nothing to save holds its configuration in the EEPROM.         *)
THEOREM CleanIsPersisted == Spec => []PersistedUnlessSuspect
<1>1. Inv => PersistedUnlessSuspect
  BY RecordFacts DEF Inv, CopyIsRecord, CleanIsCopied, PersistedUnlessSuspect, Persisted
<1> QED
  BY InitInv, NextInv, <1>1, PTL DEF Spec

(* Whatever power and EEPROM do, a valid record was once the configuration. *)
THEOREM RecordsAreReal == Spec => []NoInventedRecord
<1>1. Inv => NoInventedRecord
  BY DEF Inv, SumIsHeld, NoInventedRecord, IsValid, IsValidV2, IsValidV1
<1> QED
  BY InitInv, NextInv, <1>1, PTL DEF Spec
-----------------------------------------------------------------------------
(* A valid record is replaced by a valid one only going forward. *)

NotBehind == saved # NotSaved /\ IsValidV2(eeprom) /\ IsValidV2(eeprom')
               => eeprom'.config.version >= eeprom.config.version

LEMMA NextNotBehind == Inv /\ [Next]_vars => [NotBehind]_vars
<1> SUFFICES ASSUME Inv, [Next]_vars PROVE NotBehind
  OBVIOUS
<1>0. eeprom \in Records /\ eeprom.config.version \in Nat /\ config \in Config
  BY RecordTypes, ConfigAssumption DEF Inv, TypeOK, Config
<1>1. CASE UNCHANGED eeprom
  BY <1>0, <1>1 DEF NotBehind
<1>2. CASE UpdateConfigSave
  <2>1. /\ config \in held
        /\ saved # NotSaved => eeprom.sum[2].version <= config.version
        /\ SaveReturnsTrue(config) \/ SaveFailed(config)
    BY <1>2 DEF UpdateConfigSave, Inv, RunningIsHeld, SumNotAhead
  <2> QED
    BY <1>0, <2>1, SaveOutcome DEF NotBehind
<1>3. CASE Boot
  BY <1>3 DEF Boot, Inv, OffIsBlank, NotBehind
<1>4. CASE PowerLossInWrite
  <2> SUFFICES ASSUME saved # NotSaved, IsValidV2(eeprom), IsValidV2(eeprom')
               PROVE  eeprom'.config.version >= eeprom.config.version
    BY DEF NotBehind
  <2>1. eeprom'.sum \in {eeprom.sum, <<"v2", config>>, <<"junk", Defaults>>}
    BY <1>0, <1>4, TornFacts DEF PowerLossInWrite
  <2>2. /\ eeprom'.sum[1] = "v2" /\ eeprom'.config = eeprom'.sum[2]
        /\ eeprom.config = eeprom.sum[2]
    BY DEF IsValidV2
  <2>3. eeprom'.config \in {eeprom.config, config}
    BY <2>1, <2>2
  <2>4. eeprom.config.version <= config.version /\ config.version \in Nat
    BY <1>0, <2>2, ConfigAssumption DEF Inv, SumNotAhead, Config
  <2> QED
    BY <1>0, <2>3, <2>4
<1>5. CASE PowerLoss \/ SerialMode \/ SerialLight \/ ApplyDesired \/ Tick \/ UNCHANGED vars
  <2>1. UNCHANGED eeprom
    BY <1>5 DEF PowerLoss, SerialMode, SerialLight, ApplyDesired, Change, Tick, vars
  <2> QED
    BY <1>1, <2>1
<1> QED
  BY <1>2, <1>3, <1>4, <1>5 DEF Next

(* Across saves, failures, torn writes and desired states, a device that has *)
(* restored or saved a version never leaves a valid record of an older one.  *)
THEOREM DurableVersionForward == Spec => DurableVersionMonotonic
<1>1. [NotBehind]_vars => [saved # NotSaved /\ IsValidV2(eeprom) /\ IsValidV2(eeprom')
                            => eeprom'.config.version >= eeprom.config.version]_vars
  BY DEF NotBehind
<1> QED
  BY InitInv, NextInv, NextNotBehind, <1>1, PTL DEF Spec, DurableVersionMonotonic
=============================================================================
