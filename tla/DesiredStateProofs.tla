------------------------- MODULE DesiredStateProofs -------------------------
(***************************************************************************)
(* Proofs about the backend's desired state, for any number of handlers,   *)
(* any modes and any greatest version.                                     *)
(***************************************************************************)
EXTENDS DesiredState, TLAPS

Visible == IF up THEN mem ELSE Stored
Evolves(d, e) == Register!Evolves(d, e)

(* One handler at a time is between reading the copy and replacing it. *)
OneHolder == \A q, r \in Handlers : Holds(q) /\ Holds(r) => q = r

(* What it saves is the successor of the copy, and what it has saved the row. *)
HolderEvolves ==
  \A r \in Handlers : /\ Holds(r) => Evolves(mem, next[r])
                      /\ stage[r] = "saved" => db = next[r]

(* The row is the copy, or the successor a dropped or unfinished handler left. *)
RowFollows == up => db # NoRow /\ (db = mem \/ Evolves(mem, db))

OffIsIdle == ~up => \A r \in Handlers : stage[r] = "idle"

ShownBehind ==
  \A d \in shown : d.config_version < Visible.config_version \/ d = Visible

Inv == /\ TypeOK
       /\ OneHolder
       /\ HolderEvolves
       /\ RowFollows
       /\ OffIsIdle
       /\ ShownBehind
       /\ VersionNamesOneState

LEMMA NoRowApart == \A d \in DesiredStates : d # NoRow
<1> SUFFICES ASSUME NEW d \in DesiredStates, d = NoRow PROVE FALSE
  OBVIOUS
<1>1. DOMAIN d = {"mode", "manual_light_on", "config_version"}
  BY DEF DesiredStates
<1>2. DOMAIN NoRow = {"none"}
  BY DEF NoRow
<1> QED
  BY <1>1, <1>2

LEMMA DefaultFacts == Default \in DesiredStates
BY DesiredAssumption DEF Default, DesiredStates

LEMMA SameStates == /\ Register!DesiredStates = DesiredStates
                    /\ Register!Default = Default
BY DEF Register!DesiredStates, DesiredStates, Register!Default, Default

LEMMA EvolvesVersion ==
  ASSUME NEW d, NEW e, Evolves(d, e)
  PROVE  e.config_version = d.config_version + 1
BY DEF Evolves, Register!Evolves

(* An answer shown stays behind the visible state when that takes a step of *)
(* the register.                                                            *)
LEMMA ShownStaysBehind ==
  ASSUME NEW d \in DesiredStates, NEW v \in DesiredStates, NEW w \in DesiredStates,
         d.config_version < v.config_version \/ d = v,
         w = v \/ Evolves(v, w)
  PROVE  d.config_version < w.config_version \/ d = w
<1>1. /\ d.config_version \in Nat /\ v.config_version \in Nat
      /\ w.config_version \in Nat
  BY DesiredAssumption DEF DesiredStates
<1>2. CASE w = v
  BY <1>2
<1>3. CASE Evolves(v, w)
  <2>1. w.config_version = v.config_version + 1
    BY <1>3, EvolvesVersion
  <2> QED
    BY <1>1, <2>1
<1> QED
  BY <1>2, <1>3

LEMMA InitInv == Init => Inv
<1> SUFFICES ASSUME Init PROVE Inv
  OBVIOUS
<1>1. TypeOK
  <2>1. [kind |-> "read", to |-> FALSE] \in Requests
    BY DEF Requests
  <2>2. request \in [Handlers -> Requests]
    BY <2>1 DEF Init
  <2>3. Default \in [mode : Mode, manual_light_on : BOOLEAN,
                     config_version : 1..(MaxVersion + 1)]
    BY DesiredAssumption DEF Default
  <2>4. next \in [Handlers -> [mode : Mode, manual_light_on : BOOLEAN,
                               config_version : 1..(MaxVersion + 1)]]
    BY <2>3 DEF Init
  <2> QED
    BY <2>2, <2>4, DefaultFacts DEF Init, TypeOK
<1>2. OneHolder /\ HolderEvolves
  BY DEF Init, OneHolder, HolderEvolves, Holds
<1> QED
  BY <1>1, <1>2
  DEF Init, Inv, RowFollows, OffIsIdle, ShownBehind, VersionNamesOneState
-----------------------------------------------------------------------------
(* Answering with the visible state keeps what was shown consistent. *)
LEMMA AnswerShown ==
  ASSUME Inv, up, shown' = shown \cup {mem}, UNCHANGED <<up, mem>>
  PROVE  ShownBehind' /\ VersionNamesOneState'
<1>0. /\ shown \subseteq DesiredStates /\ mem \in DesiredStates
      /\ \A d \in shown : d.config_version < mem.config_version \/ d = mem
      /\ \A d, e \in shown : d.config_version = e.config_version => d = e
  BY DEF Inv, TypeOK, ShownBehind, Visible, VersionNamesOneState
<1>1. \A d \in DesiredStates : d.config_version \in Nat
  BY DesiredAssumption DEF DesiredStates
<1>2. Visible' = mem
  BY DEF Visible
<1>3. ShownBehind'
  BY <1>0, <1>2 DEF ShownBehind
<1>4. \A d \in shown : d.config_version = mem.config_version => d = mem
  BY <1>0, <1>1
<1>5. VersionNamesOneState'
  BY <1>0, <1>4 DEF VersionNamesOneState
<1> QED
  BY <1>3, <1>5

(* A handler that returns frees the mutex, and leaves the others as they are. *)
LEMMA ReturnInv ==
  ASSUME Inv, NEW r \in Handlers, Return(r), up, UNCHANGED <<up, mem, next>>
  PROVE  /\ stage' \in [Handlers -> {"idle", "waiting", "saving", "saved"}]
         /\ OneHolder' /\ OffIsIdle'
         /\ (\A q \in Handlers : stage[q] = "saved" /\ q # r => db' = db)
              => HolderEvolves'
<1>1. /\ stage \in [Handlers -> {"idle", "waiting", "saving", "saved"}]
      /\ stage' = [stage EXCEPT ![r] = "idle"]
  BY DEF Inv, TypeOK, Return
<1>2. stage' \in [Handlers -> {"idle", "waiting", "saving", "saved"}]
  BY <1>1
<1>3. \A q \in Handlers : Holds(q)' => Holds(q) /\ q # r /\ stage'[q] = stage[q]
  BY <1>1 DEF Holds
<1>4. OneHolder'
  BY <1>3 DEF Inv, OneHolder
<1>5. OffIsIdle'
  BY DEF OffIsIdle
<1>6. ASSUME \A q \in Handlers : stage[q] = "saved" /\ q # r => db' = db
      PROVE  HolderEvolves'
  <2> SUFFICES ASSUME NEW q \in Handlers
               PROVE  /\ Holds(q)' => Evolves(mem, next[q])
                      /\ stage'[q] = "saved" => db' = next[q]
    BY DEF HolderEvolves, Evolves, Register!Evolves
  <2>1. Holds(q)' => Evolves(mem, next[q])
    BY <1>3 DEF Inv, HolderEvolves
  <2>2. ASSUME stage'[q] = "saved" PROVE db' = next[q]
    <3>1. q # r /\ stage[q] = "saved"
      BY <2>2, <1>1
    <3>2. db' = db /\ db = next[q]
      BY <3>1, <1>6 DEF Inv, HolderEvolves
    <3> QED
      BY <3>2
  <2> QED
    BY <2>1, <2>2
<1> QED
  BY <1>2, <1>4, <1>5, <1>6

(* Answering with the copy. *)
LEMMA AnswerInv ==
  ASSUME Inv, NEW r \in Handlers, up, Answer(r, mem),
         UNCHANGED <<up, db, mem, request, next>>
  PROVE  Inv'
<1>1. Return(r) /\ shown' = shown \cup {mem}
  BY DEF Answer
<1>2. ShownBehind' /\ VersionNamesOneState'
  BY <1>1, AnswerShown
<1>3. /\ stage' \in [Handlers -> {"idle", "waiting", "saving", "saved"}]
      /\ OneHolder' /\ OffIsIdle' /\ HolderEvolves'
  BY <1>1, ReturnInv
<1>4. TypeOK'
  BY <1>1, <1>3 DEF Inv, TypeOK
<1>5. RowFollows'
  BY DEF Inv, RowFollows, Evolves, Register!Evolves
<1> QED
  BY <1>2, <1>3, <1>4, <1>5 DEF Inv

(* A handler that holds the mutex runs in a process that is up. *)
LEMMA BusyIsUp ==
  ASSUME Inv, NEW r \in Handlers, stage[r] # "idle" PROVE up
BY DEF Inv, OffIsIdle, TypeOK

(* Entering the mutex to save the successor of the copy. *)
LEMMA StartSaveInv ==
  ASSUME Inv, NEW r \in Handlers, Enter(r), NEW d,
         d \in [mode : Mode, manual_light_on : BOOLEAN,
                config_version : 1..(MaxVersion + 1)],
         Evolves(mem, d), StartSave(r, d)
  PROVE  Inv'
<1>0. /\ up /\ stage[r] = "waiting" /\ \A q \in Handlers : ~Holds(q)
      /\ stage \in [Handlers -> {"idle", "waiting", "saving", "saved"}]
      /\ stage' = [stage EXCEPT ![r] = "saving"]
      /\ next' = [next EXCEPT ![r] = d]
      /\ UNCHANGED <<up, db, mem, request, shown>>
  BY BusyIsUp DEF Enter, StartSave, Inv, TypeOK
<1>1. TypeOK'
  BY <1>0 DEF Inv, TypeOK
<1>2. next'[r] = d /\ stage'[r] = "saving"
  BY <1>0 DEF Inv, TypeOK
<1>3. \A q \in Handlers : Holds(q)' => q = r
  BY <1>0 DEF Holds
<1>4. OneHolder'
  BY <1>3 DEF OneHolder
<1>5. HolderEvolves'
  <2> SUFFICES ASSUME NEW q \in Handlers, Holds(q)'
               PROVE  Evolves(mem, next'[q]) /\ stage'[q] # "saved"
    BY <1>0 DEF HolderEvolves, Evolves, Register!Evolves, Holds
  <2> QED
    BY <1>2, <1>3
<1>6. RowFollows' /\ OffIsIdle' /\ ShownBehind' /\ VersionNamesOneState'
  BY <1>0 DEF Inv, RowFollows, OffIsIdle, ShownBehind, VersionNamesOneState,
              Visible, Stored, Evolves, Register!Evolves
<1> QED
  BY <1>1, <1>4, <1>5, <1>6 DEF Inv
-----------------------------------------------------------------------------
(* One lemma for each action. *)

LEMMA ReceiveInv ==
  ASSUME Inv, NEW r \in Handlers, NEW q \in Requests, Receive(r, q) PROVE Inv'
<1>0. /\ up /\ stage[r] = "idle"
      /\ stage \in [Handlers -> {"idle", "waiting", "saving", "saved"}]
      /\ stage' = [stage EXCEPT ![r] = "waiting"]
      /\ request' = [request EXCEPT ![r] = q]
      /\ UNCHANGED <<up, db, mem, next, shown>>
  BY DEF Receive, Inv, TypeOK
<1>1. TypeOK'
  BY <1>0 DEF Inv, TypeOK
<1>2. \A p \in Handlers : Holds(p)' => Holds(p) /\ stage'[p] = stage[p]
  BY <1>0 DEF Holds
<1>3. OneHolder'
  BY <1>2 DEF Inv, OneHolder
<1>4. HolderEvolves'
  <2> SUFFICES ASSUME NEW p \in Handlers, Holds(p)'
               PROVE  /\ Evolves(mem, next[p])
                      /\ stage'[p] = "saved" => db = next[p]
    BY <1>0 DEF HolderEvolves, Evolves, Register!Evolves, Holds
  <2> QED
    BY <1>2 DEF Inv, HolderEvolves
<1>5. RowFollows' /\ OffIsIdle' /\ ShownBehind' /\ VersionNamesOneState'
  BY <1>0 DEF Inv, RowFollows, OffIsIdle, ShownBehind, VersionNamesOneState,
              Visible, Stored, Evolves, Register!Evolves
<1> QED
  BY <1>1, <1>3, <1>4, <1>5 DEF Inv

LEMMA ReadInv == ASSUME Inv, NEW r \in Handlers, Read(r) PROVE Inv'
<1>1. up
  BY BusyIsUp DEF Read, Enter
<1> QED
  BY <1>1, AnswerInv DEF Read

(* What a command asks for has the type of its state. *)
LEMMA RequestTypes ==
  ASSUME TypeOK, NEW r \in Handlers
  PROVE  /\ request[r].kind = "mode" => request[r].to \in Mode
         /\ request[r].kind = "light" => request[r].to \in BOOLEAN
<1>1. request[r] \in Requests
  BY DEF TypeOK
<1>2. CASE \E m \in Mode : request[r] = [kind |-> "mode", to |-> m]
  BY <1>2
<1>3. CASE \E on \in BOOLEAN : request[r] = [kind |-> "light", to |-> on]
  <2>1. PICK on \in BOOLEAN : request[r] = [kind |-> "light", to |-> on]
    BY <1>3
  <2>2. request[r].kind = "light" /\ request[r].to = on
    BY <2>1
  <2> QED
    BY <2>2
<1>4. CASE request[r] = [kind |-> "read", to |-> FALSE]
  BY <1>4
<1> QED
  BY <1>1, <1>2, <1>3, <1>4 DEF Requests

LEMMA SetModeInv == ASSUME Inv, NEW r \in Handlers, SetMode(r) PROVE Inv'
<1>1. up
  BY BusyIsUp DEF SetMode, Enter
<1>2. CASE /\ Answer(r, mem)
           /\ UNCHANGED <<up, db, mem, request, next>>
  BY <1>1, <1>2, AnswerInv
<1>3. CASE ~(/\ Answer(r, mem)
             /\ UNCHANGED <<up, db, mem, request, next>>)
  <2> DEFINE d == [mode |-> request[r].to,
                   manual_light_on |-> mem.manual_light_on,
                   config_version |-> mem.config_version + 1]
  <2>1. Enter(r) /\ StartSave(r, d) /\ mem.mode # request[r].to
    BY <1>3 DEF SetMode
  <2>2. request[r].to \in Mode /\ mem \in DesiredStates
    BY RequestTypes DEF Inv, TypeOK, SetMode
  <2>3. d \in [mode : Mode, manual_light_on : BOOLEAN,
               config_version : 1..(MaxVersion + 1)]
    BY <2>2, DesiredAssumption DEF DesiredStates
  <2>4. Evolves(mem, d)
    BY <2>1 DEF Evolves, Register!Evolves
  <2> HIDE DEF d
  <2> QED
    BY <2>1, <2>3, <2>4, StartSaveInv
<1> QED
  BY <1>2, <1>3

LEMMA ReturnOnlyInv ==
  ASSUME Inv, NEW r \in Handlers, up, Return(r),
         UNCHANGED <<up, db, mem, request, next, shown>>
  PROVE  Inv'
<1>1. /\ stage' \in [Handlers -> {"idle", "waiting", "saving", "saved"}]
      /\ OneHolder' /\ OffIsIdle' /\ HolderEvolves'
  BY ReturnInv
<1>2. TypeOK'
  BY <1>1 DEF Inv, TypeOK
<1>3. RowFollows' /\ ShownBehind' /\ VersionNamesOneState'
  BY DEF Inv, RowFollows, ShownBehind, VersionNamesOneState,
         Visible, Stored, Evolves, Register!Evolves
<1> QED
  BY <1>1, <1>2, <1>3 DEF Inv

LEMMA SetManualLightInv ==
  ASSUME Inv, NEW r \in Handlers, SetManualLight(r) PROVE Inv'
<1>1. up
  BY BusyIsUp DEF SetManualLight, Enter
<1>2. CASE Answer(r, mem) /\ UNCHANGED <<up, db, mem, request, next>>
  BY <1>1, <1>2, AnswerInv
<1>3. CASE Return(r) /\ UNCHANGED <<up, db, mem, request, next, shown>>
  BY <1>1, <1>3, ReturnOnlyInv
<1>4. CASE /\ mem.mode = Manual
           /\ mem.manual_light_on # request[r].to
           /\ StartSave(r, [mode |-> mem.mode,
                            manual_light_on |-> request[r].to,
                            config_version |-> mem.config_version + 1])
  <2> DEFINE d == [mode |-> mem.mode,
                   manual_light_on |-> request[r].to,
                   config_version |-> mem.config_version + 1]
  <2>1. Enter(r) /\ StartSave(r, d)
    BY <1>4 DEF SetManualLight
  <2>2. request[r].to \in BOOLEAN /\ mem \in DesiredStates
    BY RequestTypes DEF Inv, TypeOK, SetManualLight
  <2>3. PICK on \in BOOLEAN : request[r].to = on
    BY <2>2
  <2>4. d \in [mode : Mode, manual_light_on : BOOLEAN,
               config_version : 1..(MaxVersion + 1)]
    BY <2>2, <2>3, DesiredAssumption DEF DesiredStates
  <2>5. Evolves(mem, d)
    BY <1>4 DEF Evolves, Register!Evolves
  <2> HIDE DEF d
  <2> QED
    BY <2>1, <2>4, <2>5, StartSaveInv
<1> QED
  BY <1>2, <1>3, <1>4 DEF SetManualLight

(* The successor of the copy, when it can be stored. *)
LEMMA NextIsState ==
  ASSUME TypeOK, NEW r \in Handlers, Storable(r)
  PROVE  next[r] \in DesiredStates
<1>1. next[r] \in [mode : Mode, manual_light_on : BOOLEAN,
                   config_version : 1..(MaxVersion + 1)]
  BY DEF TypeOK
<1>2. next[r].config_version <= MaxVersion
  BY DEF Storable
<1> QED
  BY <1>1, <1>2, DesiredAssumption DEF DesiredStates

LEMMA SaveDoneInv == ASSUME Inv, NEW r \in Handlers, SaveDone(r) PROVE Inv'
<1>0. /\ up /\ stage[r] = "saving" /\ next[r] \in DesiredStates
      /\ stage \in [Handlers -> {"idle", "waiting", "saving", "saved"}]
      /\ stage' = [stage EXCEPT ![r] = "saved"] /\ db' = next[r]
      /\ Evolves(mem, next[r])
      /\ UNCHANGED <<up, mem, request, next, shown>>
  BY BusyIsUp, NextIsState
  DEF SaveDone, Storable, Inv, TypeOK, HolderEvolves, Holds
<1>1. TypeOK'
  BY <1>0 DEF Inv, TypeOK
<1>2. \A q \in Handlers : Holds(q)' => q = r
  BY <1>0 DEF Inv, OneHolder, Holds
<1>3. OneHolder'
  BY <1>2 DEF OneHolder
<1>4. HolderEvolves'
  BY <1>0, <1>2 DEF HolderEvolves, Evolves, Register!Evolves, Holds
<1>5. RowFollows'
  BY <1>0, NoRowApart DEF RowFollows, Evolves, Register!Evolves
<1>6. OffIsIdle' /\ ShownBehind' /\ VersionNamesOneState'
  BY <1>0 DEF Inv, OffIsIdle, ShownBehind, VersionNamesOneState, Visible
<1> QED
  BY <1>1, <1>3, <1>4, <1>5, <1>6 DEF Inv

LEMMA SaveFailsInv == ASSUME Inv, NEW r \in Handlers, SaveFails(r) PROVE Inv'
BY BusyIsUp, ReturnOnlyInv DEF SaveFails

LEMMA ReplaceInv == ASSUME Inv, NEW r \in Handlers, Replace(r) PROVE Inv'
<1>0. /\ up /\ stage[r] = "saved" /\ Evolves(mem, next[r]) /\ db = next[r]
      /\ stage \in [Handlers -> {"idle", "waiting", "saving", "saved"}]
      /\ stage' = [stage EXCEPT ![r] = "idle"] /\ mem' = next[r]
      /\ shown' = shown \cup {next[r]} /\ db # NoRow
      /\ UNCHANGED <<up, db, request, next>>
  BY BusyIsUp
  DEF Replace, Answer, Return, Inv, TypeOK, HolderEvolves, Holds, RowFollows
<1>1. next[r] \in DesiredStates
  BY <1>0 DEF Inv, TypeOK
<1>2. TypeOK'
  BY <1>0, <1>1 DEF Inv, TypeOK
<1>3. \A q \in Handlers : ~Holds(q)'
  BY <1>0 DEF Inv, OneHolder, Holds
<1>4. OneHolder' /\ HolderEvolves'
  BY <1>3 DEF OneHolder, HolderEvolves, Holds
<1>5. RowFollows' /\ OffIsIdle'
  BY <1>0 DEF RowFollows, OffIsIdle
<1>6. \A d \in shown : d.config_version < next[r].config_version
  <2> SUFFICES ASSUME NEW d \in shown
               PROVE  d.config_version < next[r].config_version
    OBVIOUS
  <2>1. /\ d.config_version \in Nat /\ mem.config_version \in Nat
        /\ d.config_version < mem.config_version \/ d = mem
    BY <1>0, DesiredAssumption
    DEF Inv, TypeOK, DesiredStates, ShownBehind, Visible
  <2>2. next[r].config_version = mem.config_version + 1
    BY <1>0, EvolvesVersion
  <2> QED
    BY <2>1, <2>2
<1>7. ShownBehind'
  BY <1>0, <1>6 DEF ShownBehind, Visible
<1>8. \A d \in DesiredStates : d.config_version \in Nat
  BY DesiredAssumption DEF DesiredStates
<1>9. \A d \in shown : d.config_version # next[r].config_version
  BY <1>1, <1>6, <1>8 DEF Inv, TypeOK
<1>10. VersionNamesOneState'
  BY <1>0, <1>9 DEF Inv, VersionNamesOneState
<1> QED
  BY <1>2, <1>4, <1>5, <1>7, <1>10 DEF Inv

(* A dropped handler leaves the row, or the successor of the copy in it. *)
LEMMA LeftoverRow ==
  ASSUME Inv, up, NEW r \in Handlers, NEW row \in Leftover(r)
  PROVE  /\ row \in DesiredStates
         /\ row = mem \/ Evolves(mem, row)
         /\ row # db => stage[r] = "saving"
<1>1. db \in DesiredStates /\ (db = mem \/ Evolves(mem, db))
  BY DEF Inv, TypeOK, RowFollows
<1>2. CASE row = db
  BY <1>1, <1>2
<1>3. CASE row # db
  <2>1. Storable(r) /\ row = next[r]
    BY <1>3 DEF Leftover
  <2>2. stage[r] = "saving" /\ Evolves(mem, next[r])
    BY <2>1 DEF Storable, Inv, HolderEvolves, Holds
  <2> QED
    BY <2>1, <2>2, NextIsState DEF Inv
<1> QED
  BY <1>2, <1>3

LEMMA CancelInv == ASSUME Inv, NEW r \in Handlers, Cancel(r) PROVE Inv'
<1>0. /\ up /\ Return(r) /\ db' \in Leftover(r)
      /\ UNCHANGED <<up, mem, request, next, shown>>
  BY BusyIsUp DEF Cancel
<1>1. /\ db' \in DesiredStates
      /\ db' = mem \/ Evolves(mem, db')
      /\ db' # db => stage[r] = "saving"
  BY <1>0, LeftoverRow
<1>2. \A q \in Handlers : stage[q] = "saved" /\ q # r => db' = db
  BY <1>1 DEF Inv, OneHolder, Holds
<1>3. /\ stage' \in [Handlers -> {"idle", "waiting", "saving", "saved"}]
      /\ OneHolder' /\ OffIsIdle' /\ HolderEvolves'
  BY <1>0, <1>2, ReturnInv
<1>4. TypeOK'
  BY <1>0, <1>1, <1>3 DEF Inv, TypeOK
<1>5. RowFollows'
  BY <1>0, <1>1, NoRowApart DEF RowFollows, Evolves, Register!Evolves
<1>6. ShownBehind' /\ VersionNamesOneState'
  BY <1>0 DEF Inv, ShownBehind, VersionNamesOneState, Visible
<1> QED
  BY <1>3, <1>4, <1>5, <1>6 DEF Inv

(* When the process goes, what was visible was the copy; what is, the row. *)
LEMMA CrashFacts ==
  ASSUME Inv, Crash
  PROVE  /\ up /\ up' = FALSE
         /\ db' \in DesiredStates /\ db' # NoRow
         /\ db' = mem \/ Evolves(mem, db')
         /\ Visible = mem /\ Visible' = db' /\ mem' = Default
         /\ stage' = [r \in Handlers |-> "idle"]
         /\ UNCHANGED <<request, next, shown>>
<1>1. /\ up /\ up' = FALSE /\ mem' = Default
      /\ stage' = [r \in Handlers |-> "idle"]
      /\ UNCHANGED <<request, next, shown>>
      /\ db' = db \/ \E r \in Handlers : db' \in Leftover(r)
  BY DEF Crash
<1>2. db \in DesiredStates /\ (db = mem \/ Evolves(mem, db))
  BY <1>1 DEF Inv, TypeOK, RowFollows
<1>3. db' \in DesiredStates /\ (db' = mem \/ Evolves(mem, db'))
  BY <1>1, <1>2, LeftoverRow
<1>4. db' # NoRow
  BY <1>3, NoRowApart
<1> QED
  BY <1>1, <1>3, <1>4 DEF Visible, Stored

LEMMA CrashInv == ASSUME Inv, Crash PROVE Inv'
<1>1. TypeOK'
  BY CrashFacts, DefaultFacts DEF Inv, TypeOK
<1>2. OneHolder' /\ HolderEvolves' /\ RowFollows' /\ OffIsIdle'
  BY CrashFacts DEF OneHolder, HolderEvolves, RowFollows, OffIsIdle, Holds
<1>3. ShownBehind'
  <2> SUFFICES ASSUME NEW d \in shown
               PROVE  d.config_version < db'.config_version \/ d = db'
    BY CrashFacts DEF ShownBehind
  <2>1. /\ d \in DesiredStates /\ mem \in DesiredStates
        /\ d.config_version < mem.config_version \/ d = mem
    BY CrashFacts DEF Inv, TypeOK, ShownBehind
  <2>2. db' \in DesiredStates /\ (db' = mem \/ Evolves(mem, db'))
    BY CrashFacts
  <2> DEFINE w == db'
  <2> HIDE DEF w
  <2>3. d.config_version < w.config_version \/ d = w
    BY <2>1, <2>2, ShownStaysBehind DEF w
  <2> QED
    BY <2>3 DEF w
<1>4. VersionNamesOneState'
  BY CrashFacts DEF Inv, VersionNamesOneState
<1> QED
  BY <1>1, <1>2, <1>3, <1>4 DEF Inv

LEMMA StartFacts ==
  ASSUME Inv, Start
  PROVE  /\ ~up /\ up' = TRUE /\ Stored \in DesiredStates
         /\ db' = Stored /\ mem' = Stored
         /\ Visible = Stored /\ Visible' = Stored
         /\ UNCHANGED <<stage, request, next, shown>>
BY DefaultFacts DEF Start, Inv, TypeOK, Stored, Visible

LEMMA StartInv == ASSUME Inv, Start PROVE Inv'
<1>1. TypeOK'
  BY StartFacts DEF Inv, TypeOK
<1>2. \A r \in Handlers : stage'[r] = "idle"
  BY StartFacts DEF Inv, OffIsIdle
<1>3. OneHolder' /\ HolderEvolves'
  BY <1>2 DEF OneHolder, HolderEvolves, Holds
<1>4. RowFollows' /\ OffIsIdle'
  BY StartFacts, NoRowApart DEF RowFollows, OffIsIdle
<1>5. ShownBehind' /\ VersionNamesOneState'
  BY StartFacts DEF Inv, ShownBehind, VersionNamesOneState
<1> QED
  BY <1>1, <1>3, <1>4, <1>5 DEF Inv

LEMMA NextInv == Inv /\ [Next]_vars => Inv'
<1> SUFFICES ASSUME Inv, [Next]_vars PROVE Inv'
  OBVIOUS
<1>1. ASSUME NEW r \in Handlers, NEW q \in Requests, Receive(r, q) PROVE Inv'
  BY <1>1, ReceiveInv
<1>2. ASSUME NEW r \in Handlers, Read(r) PROVE Inv'
  BY <1>2, ReadInv
<1>3. ASSUME NEW r \in Handlers, SetMode(r) PROVE Inv'
  BY <1>3, SetModeInv
<1>4. ASSUME NEW r \in Handlers, SetManualLight(r) PROVE Inv'
  BY <1>4, SetManualLightInv
<1>5. ASSUME NEW r \in Handlers, SaveDone(r) PROVE Inv'
  BY <1>5, SaveDoneInv
<1>6. ASSUME NEW r \in Handlers, SaveFails(r) PROVE Inv'
  BY <1>6, SaveFailsInv
<1>7. ASSUME NEW r \in Handlers, Replace(r) PROVE Inv'
  BY <1>7, ReplaceInv
<1>8. ASSUME NEW r \in Handlers, Cancel(r) PROVE Inv'
  BY <1>8, CancelInv
<1>9. CASE Crash
  BY <1>9, CrashInv
<1>10. CASE Start
  BY <1>10, StartInv
<1>11. CASE UNCHANGED vars
  BY <1>11 DEF vars, Inv, TypeOK, OneHolder, HolderEvolves, RowFollows, OffIsIdle,
    ShownBehind, VersionNamesOneState, Visible, Stored, Holds, Evolves,
    Register!Evolves
<1> QED
  BY <1>1, <1>2, <1>3, <1>4, <1>5, <1>6, <1>7, <1>8, <1>9, <1>10, <1>11 DEF Next
-----------------------------------------------------------------------------
LEMMA SpecInv == Spec => []Inv
BY InitInv, NextInv, PTL DEF Spec

LEMMA InvShown == Inv => ShownIsDurable
<1> SUFFICES ASSUME Inv, NEW d \in shown
             PROVE  d.config_version < Stored.config_version \/ d = Stored
  BY DEF ShownIsDurable
<1>1. d \in DesiredStates /\ (d.config_version < Visible.config_version \/ d = Visible)
  BY DEF Inv, TypeOK, ShownBehind
<1>2. CASE ~up
  BY <1>1, <1>2 DEF Visible
<1>3. CASE up
  <2>1. /\ Visible = mem /\ Stored = db
        /\ mem \in DesiredStates /\ db \in DesiredStates
        /\ db = mem \/ Evolves(mem, db)
    BY <1>3 DEF Visible, Stored, Inv, TypeOK, RowFollows
  <2> QED
    BY <1>1, <2>1, ShownStaysBehind
<1> QED
  BY <1>2, <1>3

(* The visible state takes a step of the register, or none. *)
LEMMA StepVisible ==
  ASSUME Inv, [Next]_vars
  PROVE  Visible' = Visible \/ (Visible' \in DesiredStates /\ Evolves(Visible, Visible'))
<1>1. ASSUME UNCHANGED <<up, mem>>, up PROVE Visible' = Visible
  BY <1>1 DEF Visible
<1>2. ASSUME NEW r \in Handlers, NEW q \in Requests, Receive(r, q)
      PROVE Visible' = Visible
  BY <1>2, <1>1 DEF Receive
<1>3. ASSUME NEW r \in Handlers, Enter(r), UNCHANGED <<up, mem>>
      PROVE Visible' = Visible
  BY <1>3, <1>1, BusyIsUp DEF Enter
<1>4. ASSUME NEW r \in Handlers, Read(r) \/ SetMode(r) \/ SetManualLight(r)
      PROVE Visible' = Visible
  <2>1. Enter(r) /\ UNCHANGED <<up, mem>>
    BY <1>4 DEF Read, SetMode, SetManualLight, StartSave
  <2> QED
    BY <2>1, <1>3
<1>5. ASSUME NEW r \in Handlers, SaveDone(r) \/ SaveFails(r) \/ Cancel(r)
      PROVE Visible' = Visible
  <2>1. stage[r] # "idle" /\ UNCHANGED <<up, mem>>
    BY <1>5 DEF SaveDone, Storable, SaveFails, Cancel
  <2> QED
    BY <2>1, <1>1, BusyIsUp
<1>6. ASSUME NEW r \in Handlers, Replace(r)
      PROVE Visible' \in DesiredStates /\ Evolves(Visible, Visible')
  <2>1. up /\ up' = up /\ mem' = next[r] /\ Evolves(mem, next[r])
    BY <1>6, BusyIsUp DEF Replace, Inv, HolderEvolves, Holds
  <2>2. mem' \in DesiredStates
    BY <1>6, ReplaceInv DEF Inv, TypeOK
  <2>3. Visible = mem /\ Visible' = next[r]
    BY <2>1 DEF Visible
  <2> QED
    BY <2>1, <2>2, <2>3
<1>7. ASSUME Crash
      PROVE Visible' = Visible \/ (Visible' \in DesiredStates /\ Evolves(Visible, Visible'))
  BY <1>7, CrashFacts
<1>8. ASSUME Start PROVE Visible' = Visible
  BY <1>8, StartFacts
<1>9. CASE UNCHANGED vars
  BY <1>9 DEF vars, Visible, Stored
<1> QED
  BY <1>2, <1>4, <1>5, <1>6, <1>7, <1>8, <1>9 DEF Next

(* The row, the copy and the handlers keep their types. *)
THEOREM DesiredTypeCorrect == Spec => []TypeOK
<1>1. Inv => TypeOK
  BY DEF Inv
<1> QED
  BY SpecInv, <1>1, PTL

(* No two answers ever show different desired states under one version. *)
THEOREM VersionsAreUnique == Spec => []VersionNamesOneState
<1>1. Inv => VersionNamesOneState
  BY DEF Inv
<1> QED
  BY SpecInv, <1>1, PTL

(* What an answer has shown, a restart restores or follows. *)
THEOREM ShownSurvives == Spec => []ShownIsDurable
BY SpecInv, InvShown, PTL

(* The backend with its mutex, its database and its crashes is a versioned *)
(* register that changes one command at a time.                            *)
THEOREM DesiredIsRegister == Spec => ImplementsRegister
<1>1. Init => Register!Init
  BY SameStates DEF Init, Register!Init, Stored
<1>2. Inv /\ [Next]_vars => [Register!Next]_(IF up THEN mem ELSE Stored)
  <2> SUFFICES ASSUME Inv, [Next]_vars
               PROVE  \/ Visible' \in Register!DesiredStates /\ Evolves(Visible, Visible')
                      \/ Visible' = Visible
    BY DEF Register!Next, Visible, Evolves
  <2> QED
    BY StepVisible, SameStates
<1> QED
  BY <1>1, <1>2, SpecInv, PTL DEF Spec, Register!Spec, ImplementsRegister
=============================================================================
