-------------------------- MODULE EventStoreProofs --------------------------
(***************************************************************************)
(* Proofs about the event store, for any requests, database files, number  *)
(* of handlers, integer width and number of faults.                        *)
(***************************************************************************)
EXTENDS EventStore, WellFoundedInduction, TLAPS

(* What validate_event_batch lets through. *)
LEMMA AcceptedFacts ==
  ASSUME NEW r \in Requests, Refusal(r) = "ok"
  PROVE  /\ r # Malformed /\ r.device_id = DeviceId
         /\ r.boot_id \in Nat /\ r.events \in Seq(Events)
         /\ r.events = <<>> \/ ValidEvents(r.boot_id, r.events)
<1>1. r # Malformed
  BY DEF Refusal
<1>2. r.device_id = DeviceId /\ BatchRefusal(r.boot_id, r.events) = "ok"
  BY <1>1 DEF Refusal
<1>3. r.events = <<>> \/ ValidEvents(r.boot_id, r.events)
  BY <1>2 DEF BatchRefusal
<1>4. r.boot_id \in Nat /\ r.events \in Seq(Events)
  BY <1>1, StoreAssumption
<1> QED
  BY <1>1, <1>2, <1>3, <1>4

(* Validation is as strict as the table: no accepted event is refused by it. *)
LEMMA AcceptedStorable ==
  ASSUME NEW r \in Requests, Refusal(r) = "ok",
         NEW i \in 1..Len(r.events), NEW t \in Nat
  PROVE  LET row == RowOf(r, r.events[i], t)
         IN  row \in Row /\ Storable(row)
<1> DEFINE e == r.events[i]
           row == RowOf(r, e, t)
<1>1. /\ r.device_id = DeviceId /\ r.boot_id \in Nat /\ r.events \in Seq(Events)
      /\ ValidEvents(r.boot_id, r.events)
  BY AcceptedFacts
<1>2. e \in Events
  BY <1>1
<1>3. e.seq \in Nat /\ e.uptime_ms \in Nat
  BY <1>2 DEF Events
<1>4. FitsI64(r.boot_id) /\ FitsI64(e.seq) /\ FitsI64(e.uptime_ms)
  BY <1>1 DEF ValidEvents
<1>5. e.seq > 0
  <2>1. CASE i = 1
    BY <1>1, <2>1 DEF ValidEvents
  <2>2. CASE i # 1
    <3>1. i - 1 \in 1..Len(r.events)
      BY <1>1, <2>2
    <3>2. r.events[i - 1].seq \in Nat
      BY <1>1, <3>1 DEF Events
    <3>3. e.seq > r.events[i - 1].seq
      BY <1>1, <2>2 DEF ValidEvents
    <3> QED
      BY <1>3, <3>2, <3>3
  <2> QED
    BY <2>1, <2>2
<1>6. \/ e.type = "mode_changed" /\ e.value \in Mode
      \/ e.type = "light_changed"
      \/ e.type = "wifi_changed"
  BY <1>2 DEF Events
<1> HIDE DEF e
<1>7. /\ row.device_id = DeviceId /\ row.boot_id = r.boot_id /\ row.seq = e.seq
      /\ row.event_type = e.type /\ row.uptime_ms = e.uptime_ms
      /\ row.mode = IF e.type = "mode_changed" THEN e.value ELSE Null
      /\ row.light_on = IF e.type = "light_changed" THEN Integer(e.value) ELSE Null
      /\ row.wifi_connected =
           IF e.type = "wifi_changed" THEN Integer(e.value) ELSE Null
  BY <1>1 DEF RowOf
<1>8. Integer(e.value) \in {0, 1} /\ Null \notin Mode \cup {0, 1}
  BY StoreAssumption DEF Integer
<1>9. row \in Row
  <2>1. r.boot_id \in Int /\ e.seq \in Nat \ {0}
        /\ e.type \in {"mode_changed", "light_changed", "wifi_changed"}
    BY <1>1, <1>3, <1>5, <1>6
  <2>2. /\ row.mode \in Mode \cup {Null} /\ row.light_on \in {0, 1, Null}
        /\ row.wifi_connected \in {0, 1, Null}
    BY <1>6, <1>7, <1>8
  <2> QED
    BY <1>1, <1>3, <2>1, <2>2, StoreAssumption DEF RowOf, Row
<1>10. ChecksHold(row)
  <2>1. row.mode \in Mode \cup {Null}
    BY <1>6, <1>7
  <2>2. row.light_on \in {0, 1, Null} /\ row.wifi_connected \in {0, 1, Null}
    BY <1>7, <1>8
  <2> QED
    BY <1>3, <1>5, <1>6, <1>7, <2>1, <2>2 DEF ChecksHold
<1>11. FieldsMatch(row)
  <2>1. row.mode # Null <=> row.event_type = "mode_changed"
    BY <1>6, <1>7, <1>8
  <2>2. row.light_on # Null <=> row.event_type = "light_changed"
    BY <1>7, <1>8
  <2>3. row.wifi_connected # Null <=> row.event_type = "wifi_changed"
    BY <1>7, <1>8
  <2>4. row.device_id # ""
    BY <1>7, StoreAssumption, Zenon
  <2>5. row.boot_id >= 0
    BY <1>1, <1>7
  <2> QED
    BY <2>1, <2>2, <2>3, <2>4, <2>5, Zenon DEF FieldsMatch
<1> QED
  BY <1>4, <1>7, <1>9, <1>10, <1>11 DEF Storable, e

(* What the constraints and the trigger let in can be read. *)
LEMMA SoundReadable ==
  ASSUME NEW row \in Row, ChecksHold(row), FieldsMatch(row)
  PROVE  Readable(row)
<1>1. /\ row.seq \in Nat /\ row.uptime_ms \in Nat /\ row.mode \in Mode \cup {Null}
      /\ row.light_on \in {0, 1, Null} /\ row.wifi_connected \in {0, 1, Null}
  BY DEF Row
<1>2. row.boot_id >= 0
  BY DEF FieldsMatch
<1>3. /\ row.mode # Null <=> row.event_type = "mode_changed"
      /\ row.light_on # Null <=> row.event_type = "light_changed"
      /\ row.wifi_connected # Null <=> row.event_type = "wifi_changed"
  BY Zenon DEF FieldsMatch
<1>4. row.event_type \in {"mode_changed", "light_changed", "wifi_changed"}
  BY DEF ChecksHold
<1> QED
  BY <1>1, <1>2, <1>3, <1>4 DEF Readable

LEMMA HasKeeps ==
  ASSUME NEW a \in Seq(Row), NEW b \in Seq(Row), NEW x, Has(a, x)
  PROVE  Has(a \o b, x)
<1>1. PICK i \in 1..Len(a) : SameKey(a[i], x)
  BY DEF Has
<1>2. i \in 1..Len(a \o b) /\ (a \o b)[i] = a[i]
  BY <1>1
<1> QED
  BY <1>1, <1>2 DEF Has

(* The next event is there when its statement has run, inserted or known. *)
LEMMA HasNext ==
  ASSUME NEW a \in Seq(Row), NEW b \in Seq(Row), NEW x \in Row
  PROVE  Has(a \o Append(b, x), x)
<1>1. Len(a) + Len(b) + 1 \in 1..Len(a \o Append(b, x))
  OBVIOUS
<1>2. (a \o Append(b, x))[Len(a) + Len(b) + 1] = x
  OBVIOUS
<1>3. SameKey(x, x)
  BY DEF SameKey
<1> QED
  BY <1>1, <1>2, <1>3 DEF Has

LEMMA HasAppended ==
  ASSUME NEW a \in Seq(Row), NEW b \in Seq(Row), NEW x \in Row, NEW y,
         Has(a \o b, y)
  PROVE  Has(a \o Append(b, x), y)
<1>1. PICK i \in 1..Len(a \o b) : SameKey((a \o b)[i], y)
  BY DEF Has
<1>2. i \in 1..Len(a \o Append(b, x)) /\ (a \o Append(b, x))[i] = (a \o b)[i]
  OBVIOUS
<1> QED
  BY <1>1, <1>2 DEF Has
-----------------------------------------------------------------------------
(* The invariant. *)

Stages == {"idle", "queued", "inserting", "saved", "listing"}
Payloads == Requests \cup {Malformed} \cup [limit : 1..MaxLimit]
Slot == [stage : Stages, request : Payloads, seen : 0..MaxClock]

\* The row of the i-th event of a handler's request.
Sent(h, i) == RowOf(handler[h].request, handler[h].request.events[i], handler[h].seen)

(* Rows that were in the file may be bad until migration 0003 has passed. *)
FileSound == /\ schema \in 0..3
             /\ rows \in Seq(Row)
             /\ \A i \in 1..Len(rows) : ChecksHold(rows[i])
             /\ schema = 3 => \A i \in 1..Len(rows) : FieldsMatch(rows[i])

(* Requests are only handled when every migration has passed. *)
Migrated == /\ server \in {"down", "migrating", "seeded", "serving"}
            /\ server \in {"seeded", "serving"} => schema = 3
            /\ \A h \in Handlers : ~In(h, "idle") => server = "serving"

TxSound == /\ tx \in [next : Nat, rows : Seq(Row)]
           /\ \A i \in 1..Len(tx.rows) : ChecksHold(tx.rows[i]) /\ FieldsMatch(tx.rows[i])
           /\ Free => tx = NoTx

OneTx == \A g, h \in Handlers : In(g, "inserting") /\ In(h, "inserting") => g = h

Holding == {"queued", "inserting", "saved"}

Validated == \A h \in Handlers :
               handler[h].stage \in Holding =>
                 handler[h].request \in Requests /\ Refusal(handler[h].request) = "ok"

(* What the transaction has processed is in the table as it will be. *)
Processed == \A h \in Handlers : In(h, "inserting") =>
               /\ tx.next <= Len(handler[h].request.events)
               /\ \A i \in 1..tx.next : Has(rows \o tx.rows, Sent(h, i))

Committed == \A h \in Handlers : In(h, "saved") =>
               \A i \in 1..Len(handler[h].request.events) : Has(rows, Sent(h, i))

Counters == clock \in 0..MaxClock /\ faults \in Nat /\ answer \in {200, 400, 403, 500}

Inv == /\ handler \in [Handlers -> Slot]
       /\ FileSound /\ Migrated /\ TxSound /\ OneTx
       /\ Validated /\ Processed /\ Committed
       /\ Counters
       /\ ReportedIsStored /\ ServerErrorsAreFaults

LEMMA TypesGive == Inv => TypeOK
BY DEF Inv, TypeOK, FileSound, Migrated, TxSound, OneTx, Counters, Slot, Stages, Payloads

(* How a step changes the handlers. *)
LEMMA Moved ==
  ASSUME handler \in [Handlers -> Slot], NEW h \in Handlers, NEW s \in Stages,
         Enter(h, s)
  PROVE  /\ handler' \in [Handlers -> Slot]
         /\ \A g \in Handlers : g # h => handler'[g] = handler[g]
         /\ handler'[h].stage = s
         /\ handler'[h].request = handler[h].request
         /\ handler'[h].seen = handler[h].seen
BY DEF Enter, Slot

LEMMA Taken ==
  ASSUME handler \in [Handlers -> Slot], NEW h \in Handlers, NEW s \in Stages,
         NEW r \in Payloads, NEW t \in 0..MaxClock, Take(h, s, r, t)
  PROVE  /\ handler' \in [Handlers -> Slot]
         /\ \A g \in Handlers : g # h => handler'[g] = handler[g]
         /\ handler'[h].stage = s
         /\ handler'[h].request = r
         /\ handler'[h].seen = t
BY DEF Take, Slot

LEMMA BoundFacts == MaxInt \in Nat /\ MaxClock \in Nat /\ MaxFaults \in Nat
BY StoreAssumption

LEMMA Left ==
  ASSUME handler \in [Handlers -> Slot], NEW h \in Handlers, Leave(h)
  PROVE  /\ handler' \in [Handlers -> Slot]
         /\ \A g \in Handlers : g # h => handler'[g] = handler[g]
         /\ handler'[h].stage = "idle"
<1>1. Idle \in Slot
  BY BoundFacts DEF Idle, Slot, Stages, Payloads
<1> QED
  BY <1>1 DEF Leave, Idle

LEMMA AnswersKnown ==
  /\ \A r : Status(Refusal(r)) \in {200, 400, 403}
  /\ Status("ok") = 200 /\ Status("invalid_event_limit") = 400
  /\ Status("persistence_failed") = 500
<1>1. \A r : Refusal(r) \in {"ok", "invalid_json", "device_not_allowed",
                            "unsupported_mode", "invalid_event_batch",
                            "event_batch_too_large"}
  BY DEF Refusal, BatchRefusal
<1> QED
  BY <1>1 DEF Status

(* A handler lets go of what it has, and of its transaction. *)
LEMMA Released ==
  ASSUME Inv, NEW h \in Handlers, handler' \in [Handlers -> Slot],
         \A g \in Handlers : g # h => handler'[g] = handler[g],
         handler'[h].stage \in {"idle", "listing"},
         Aborted(h), UNCHANGED rows
  PROVE  TxSound' /\ OneTx' /\ Validated' /\ Processed' /\ Committed'
<1>1. OneTx' /\ Validated'
  BY DEF Inv, OneTx, Validated, Holding, In
<1>2. Committed'
  BY DEF Inv, Committed, Sent, In
<1>3. CASE In(h, "inserting")
  <2>1. tx' = NoTx
    BY <1>3 DEF Aborted
  <2>2. TxSound'
    BY <2>1 DEF TxSound, NoTx
  <2>3. \A g \in Handlers : ~In(g, "inserting")'
    BY <1>3 DEF Inv, OneTx, In
  <2> QED
    BY <1>1, <1>2, <2>2, <2>3 DEF Processed
<1>4. CASE ~In(h, "inserting")
  <2>1. tx' = tx
    BY <1>4 DEF Aborted
  <2>2. Free' => Free
    BY <1>4 DEF Free, In
  <2>3. TxSound'
    BY <2>1, <2>2 DEF Inv, TxSound
  <2>4. Processed'
    BY <2>1 DEF Inv, Processed, Sent, In
  <2> QED
    BY <1>1, <1>2, <2>3, <2>4
<1> QED
  BY <1>3, <1>4

(* Steps of the process while no handler is at work. *)
LEMMA ProcessKeeps ==
  ASSUME Inv, Launch \/ CreateTables \/ EnforceFields \/ InsertDefault \/ Serve
  PROVE  Inv'
<1>1. /\ UNCHANGED <<rows, handler, tx, reported, answer, clock, faults>>
      /\ server # "serving"
  BY DEF Launch, CreateTables, EnforceFields, InsertDefault, Serve, file, memory
<1>2. FileSound' /\ Migrated'
  <2>1. \A h \in Handlers : In(h, "idle")
    BY <1>1 DEF Inv, Migrated
  <2>2. \A h \in Handlers : In(h, "idle")'
    BY <1>1, <2>1 DEF In
  <2>3. CASE Launch
    BY <1>1, <2>2, <2>3 DEF Launch, file, Inv, FileSound, Migrated
  <2>4. CASE CreateTables
    BY <1>1, <2>2, <2>4 DEF CreateTables, Inv, FileSound, Migrated
  <2>5. CASE EnforceFields
    BY <1>1, <2>2, <2>5 DEF EnforceFields, Inv, FileSound, Migrated
  <2>6. CASE InsertDefault
    BY <1>1, <2>2, <2>6 DEF InsertDefault, Inv, FileSound, Migrated
  <2>7. CASE Serve
    BY <1>1, <2>2, <2>7 DEF Serve, file, Inv, FileSound, Migrated
  <2> QED
    BY <2>3, <2>4, <2>5, <2>6, <2>7
<1>3. TxSound' /\ OneTx' /\ Validated' /\ Processed' /\ Committed'
  BY <1>1 DEF Inv, TxSound, OneTx, Validated, Processed, Committed, Sent, Free, In
<1>4. Counters' /\ ReportedIsStored' /\ ServerErrorsAreFaults'
  BY <1>1 DEF Inv, Counters, ReportedIsStored, ServerErrorsAreFaults
<1> QED
  BY <1>1, <1>2, <1>3, <1>4 DEF Inv

LEMMA CrashKeeps == ASSUME Inv, Crash PROVE Inv'
<1>1. /\ handler' = [h \in Handlers |-> Idle] /\ tx' = NoTx /\ reported' = NoReport
      /\ server' = "down" /\ faults' = faults + 1
      /\ UNCHANGED <<schema, rows, answer, clock>>
  BY DEF Crash, file
<1>2. handler' \in [Handlers -> Slot] /\ \A h \in Handlers : In(h, "idle")'
  BY <1>1, BoundFacts DEF Idle, Slot, Stages, Payloads, In
<1>3. FileSound' /\ Migrated'
  BY <1>1, <1>2 DEF Inv, FileSound, Migrated
<1>4. TxSound'
  BY <1>1 DEF TxSound, NoTx
<1>5. OneTx' /\ Validated' /\ Processed' /\ Committed'
  BY <1>2 DEF OneTx, Validated, Holding, Processed, Committed, In
<1>6. Counters' /\ ReportedIsStored' /\ ServerErrorsAreFaults'
  BY <1>1 DEF Inv, Counters, ReportedIsStored, ServerErrorsAreFaults
<1> QED
  BY <1>2, <1>3, <1>4, <1>5, <1>6 DEF Inv

(* A step of a handler leaves the file's schema and the process alone. *)
LEMMA ServingKeeps ==
  ASSUME Inv, NEW h \in Handlers, server = "serving", UNCHANGED <<server, schema>>,
         handler' \in [Handlers -> Slot]
  PROVE  Migrated'
BY DEF Inv, Migrated

LEMMA Busy ==
  ASSUME Inv, NEW h \in Handlers, ~In(h, "idle")
  PROVE  server = "serving" /\ schema = 3
BY DEF Inv, Migrated

(* A handler answers and is idle again; the table is as it was. *)
LEMMA AnswerKeeps ==
  ASSUME Inv, NEW h \in Handlers, server = "serving", Leave(h), Aborted(h),
         UNCHANGED <<file, server, clock>>,
         Counters', ReportedIsStored', ServerErrorsAreFaults'
  PROVE  Inv'
<1>1. /\ handler' \in [Handlers -> Slot]
      /\ \A g \in Handlers : g # h => handler'[g] = handler[g]
      /\ handler'[h].stage = "idle"
  BY Left DEF Inv
<1>2. UNCHANGED <<schema, rows>>
  BY DEF file
<1>3. TxSound' /\ OneTx' /\ Validated' /\ Processed' /\ Committed'
  BY <1>1, <1>2, Released
<1>4. FileSound' /\ Migrated'
  BY <1>1, <1>2, ServingKeeps DEF Inv, FileSound
<1> QED
  BY <1>1, <1>3, <1>4 DEF Inv

LEMMA RefuseKeeps ==
  ASSUME Inv, NEW h \in Handlers, NEW r \in Requests, Refuse(h, r)
  PROVE  Inv'
<1>1. /\ server = "serving" /\ In(h, "idle") /\ Leave(h)
      /\ answer' = Status(Refusal(r))
      /\ UNCHANGED <<file, server, tx, reported, clock, faults>>
  BY DEF Refuse, Answer
<1>2. Aborted(h)
  BY <1>1 DEF Aborted, In
<1>3. Counters' /\ ServerErrorsAreFaults'
  BY <1>1, AnswersKnown DEF Inv, Counters, ServerErrorsAreFaults
<1>4. ReportedIsStored'
  BY <1>1 DEF Inv, ReportedIsStored, file
<1> QED
  BY <1>1, <1>2, <1>3, <1>4, AnswerKeeps

LEMMA AcceptKeeps ==
  ASSUME Inv, NEW h \in Handlers, NEW r \in Requests, Accept(h, r)
  PROVE  Inv'
<1>1. /\ server = "serving" /\ In(h, "idle") /\ Refusal(r) = "ok"
      /\ UNCHANGED <<file, server, tx, faults>>
      /\ clock' \in {clock, clock + 1} /\ clock' <= MaxClock
  BY DEF Accept
<1>2. clock' \in 0..MaxClock
  BY <1>1, BoundFacts DEF Inv, Counters
<1>3. UNCHANGED <<schema, rows>>
  BY <1>1 DEF file
<1>4. CASE r.events = <<>>
  <2>1. Leave(h) /\ answer' = 200 /\ reported' = [request |-> r, last_seen |-> clock']
    BY <1>4, AnswersKnown DEF Accept, Reported, Report, Answer
  <2>2. Aborted(h)
    BY <1>1 DEF Aborted, In
  <2>3. Counters' /\ ServerErrorsAreFaults'
    BY <1>1, <1>2, <2>1 DEF Inv, Counters, ServerErrorsAreFaults
  <2>4. ReportedIsStored'
    BY <1>4, <2>1 DEF ReportedIsStored
  <2>5. /\ handler' \in [Handlers -> Slot]
        /\ \A g \in Handlers : g # h => handler'[g] = handler[g]
        /\ handler'[h].stage = "idle"
    BY <2>1, Left DEF Inv
  <2>6. TxSound' /\ OneTx' /\ Validated' /\ Processed' /\ Committed'
    BY <1>3, <2>2, <2>5, Released
  <2>7. FileSound' /\ Migrated'
    BY <1>1, <1>3, <2>5, ServingKeeps DEF Inv, FileSound
  <2> QED
    BY <2>3, <2>4, <2>5, <2>6, <2>7 DEF Inv
<1>5. CASE r.events # <<>>
  <2>1. Take(h, "queued", r, clock') /\ UNCHANGED <<reported, answer>>
    BY <1>5 DEF Accept
  <2>2. /\ handler' \in [Handlers -> Slot]
        /\ \A g \in Handlers : g # h => handler'[g] = handler[g]
        /\ handler'[h].stage = "queued" /\ handler'[h].request = r
    BY <1>2, <2>1, Taken DEF Inv, Stages, Payloads
  <2>3. \A g \in Handlers : /\ In(g, "inserting")' => In(g, "inserting") /\ g # h
                            /\ In(g, "saved")' => In(g, "saved") /\ g # h
                            /\ In(g, "inserting") => In(g, "inserting")'
    BY <1>1, <2>2 DEF In
  <2>4. TxSound' /\ OneTx'
    BY <1>1, <2>3 DEF Inv, TxSound, OneTx, Free
  <2>5. Validated'
    BY <1>1, <2>2 DEF Inv, Validated, Holding
  <2>6. Processed' /\ Committed'
    BY <1>1, <1>3, <2>2, <2>3 DEF Inv, Processed, Committed, Sent
  <2>7. FileSound' /\ Migrated'
    BY <1>1, <1>3, <2>2, ServingKeeps DEF Inv, FileSound
  <2>8. Counters' /\ ReportedIsStored' /\ ServerErrorsAreFaults'
    BY <1>1, <1>2, <1>3, <2>1
    DEF Inv, Counters, ReportedIsStored, ServerErrorsAreFaults
  <2> QED
    BY <2>2, <2>4, <2>5, <2>6, <2>7, <2>8 DEF Inv
<1> QED
  BY <1>4, <1>5

LEMMA BeginKeeps ==
  ASSUME Inv, NEW h \in Handlers, Begin(h)
  PROVE  Inv'
<1>1. /\ In(h, "queued") /\ Free /\ Enter(h, "inserting")
      /\ UNCHANGED <<schema, rows, server, tx, reported, answer, clock, faults>>
  BY DEF Begin, file
<1>2. server = "serving"
  BY <1>1, Busy DEF In
<1>3. /\ handler' \in [Handlers -> Slot]
      /\ \A g \in Handlers : g # h => handler'[g] = handler[g]
      /\ handler'[h].stage = "inserting" /\ handler'[h].request = handler[h].request
  BY <1>1, Moved DEF Inv, Stages
<1>4. tx = NoTx /\ ~Free'
  BY <1>1, <1>3 DEF Inv, TxSound, Free, In
<1>5. TxSound' /\ OneTx'
  BY <1>1, <1>3, <1>4 DEF Inv, TxSound, OneTx, Free, In
<1>6. Validated'
  BY <1>1, <1>3 DEF Inv, Validated, Holding, In
<1>7. Processed'
  <2>1. \A g \in Handlers : In(g, "inserting")' => g = h
    BY <1>1, <1>3 DEF Free, In
  <2>2. handler[h].request.events \in Seq(Events)
    BY <1>1, AcceptedFacts DEF Inv, Validated, Holding, In
  <2> QED
    BY <1>1, <1>3, <1>4, <2>1, <2>2 DEF Processed, NoTx
<1>8. Committed'
  BY <1>1, <1>3 DEF Inv, Committed, Sent, In
<1>9. FileSound' /\ Migrated'
  BY <1>1, <1>2, <1>3, ServingKeeps DEF Inv, FileSound
<1>10. Counters' /\ ReportedIsStored' /\ ServerErrorsAreFaults'
  BY <1>1 DEF Inv, Counters, ReportedIsStored, ServerErrorsAreFaults
<1> QED
  BY <1>3, <1>5, <1>6, <1>7, <1>8, <1>9, <1>10 DEF Inv

(* The statement always succeeds: what was validated is storable. *)
LEMMA InsertKeeps ==
  ASSUME Inv, NEW h \in Handlers, Insert(h)
  PROVE  Inv'
<1> DEFINE q == handler[h].request
           row == NextRow(h)
           n == tx.next + 1
<1>1. /\ In(h, "inserting") /\ tx.next < Len(q.events)
      /\ UNCHANGED <<schema, rows, server, reported, clock, faults>>
  BY DEF Insert, Inserting, file
<1>2. q \in Requests /\ Refusal(q) = "ok" /\ handler[h].seen \in Nat
  BY <1>1, BoundFacts DEF Inv, Validated, Holding, In, Slot
<1>3. q.events \in Seq(Events) /\ tx.next \in Nat /\ tx.rows \in Seq(Row)
      /\ rows \in Seq(Row)
  BY <1>2, AcceptedFacts DEF Inv, TxSound, FileSound
<1>4. n \in 1..Len(q.events)
  BY <1>1, <1>3
<1>5. row \in Row /\ Storable(row)
  BY <1>2, <1>4, AcceptedStorable DEF NextRow
<1>6. row = Sent(h, n)
  BY DEF NextRow, Sent
<1> HIDE DEF row, n
<1>7. /\ tx' = [next |-> n,
                rows |-> IF Has(rows \o tx.rows, row) THEN tx.rows
                         ELSE Append(tx.rows, row)]
      /\ UNCHANGED <<handler, answer>>
  BY <1>5 DEF Insert, row, n
<1>8. /\ tx'.next = n
      /\ tx'.rows = tx.rows \/ tx'.rows = Append(tx.rows, row)
      /\ tx'.rows \in Seq(Row)
  BY <1>3, <1>5, <1>7
<1>9. ChecksHold(row) /\ FieldsMatch(row)
  BY <1>5 DEF Storable
<1>10. TxSound'
  <2>1. tx' \in [next : Nat, rows : Seq(Row)]
    BY <1>3, <1>5, <1>7 DEF n
  <2>2. \A i \in 1..Len(tx'.rows) : ChecksHold(tx'.rows[i]) /\ FieldsMatch(tx'.rows[i])
    BY <1>3, <1>5, <1>8, <1>9 DEF Inv, TxSound
  <2>3. ~Free'
    BY <1>1, <1>7 DEF Free, In
  <2> QED
    BY <2>1, <2>2, <2>3 DEF TxSound
<1>11. Processed'
  <2> SUFFICES ASSUME NEW g \in Handlers, In(g, "inserting")'
               PROVE  /\ tx'.next <= Len(handler'[g].request.events)
                      /\ \A i \in 1..tx'.next : Has(rows' \o tx'.rows, Sent(g, i)')
    BY DEF Processed
  <2>1. g = h
    BY <1>1, <1>7 DEF Inv, OneTx, In
  <2>2. tx'.next <= Len(handler'[g].request.events)
    BY <1>4, <1>7, <1>8, <2>1
  <2>3. ASSUME NEW i \in 1..tx'.next PROVE Has(rows \o tx'.rows, Sent(h, i))
    <3>1. CASE i = n
      <4>1. CASE Has(rows \o tx.rows, row)
        BY <1>6, <1>7, <3>1, <4>1
      <4>2. CASE ~Has(rows \o tx.rows, row)
        BY <1>3, <1>5, <1>6, <1>7, <3>1, <4>2, HasNext
      <4> QED
        BY <4>1, <4>2
    <3>2. CASE i # n
      <4>1. i \in 1..tx.next
        BY <1>3, <1>8, <2>3, <3>2 DEF n
      <4>2. Has(rows \o tx.rows, Sent(h, i))
        BY <1>1, <4>1 DEF Inv, Processed
      <4> QED
        BY <1>3, <1>5, <1>8, <4>2, HasAppended
    <3> QED
      BY <3>1, <3>2
  <2> QED
    BY <1>1, <1>7, <2>1, <2>2, <2>3 DEF Sent
<1>12. OneTx' /\ Validated' /\ Committed' /\ FileSound' /\ Migrated'
  BY <1>1, <1>7
  DEF Inv, OneTx, Validated, Committed, Sent, FileSound, Migrated, In
<1>13. Counters' /\ ReportedIsStored' /\ ServerErrorsAreFaults'
  BY <1>1, <1>7 DEF Inv, Counters, ReportedIsStored, ServerErrorsAreFaults
<1> QED
  BY <1>7, <1>10, <1>11, <1>12, <1>13 DEF Inv

LEMMA CommitKeeps ==
  ASSUME Inv, NEW h \in Handlers, Commit(h)
  PROVE  Inv'
<1>1. /\ In(h, "inserting") /\ tx.next = Len(handler[h].request.events)
      /\ rows' = rows \o tx.rows /\ tx' = NoTx /\ Enter(h, "saved")
      /\ UNCHANGED <<schema, server, reported, answer, clock, faults>>
  BY DEF Commit
<1>2. server = "serving" /\ schema = 3
  BY <1>1, Busy DEF In
<1>3. /\ handler' \in [Handlers -> Slot]
      /\ \A g \in Handlers : g # h => handler'[g] = handler[g]
      /\ handler'[h].stage = "saved" /\ handler'[h].request = handler[h].request
      /\ handler'[h].seen = handler[h].seen
  BY <1>1, Moved DEF Inv, Stages
<1>4. rows \in Seq(Row) /\ tx.rows \in Seq(Row)
  BY DEF Inv, FileSound, TxSound
<1>5. \A x : Has(rows, x) => Has(rows', x)
  BY <1>1, <1>4, HasKeeps
<1>6. FileSound'
  <2>1. \A i \in 1..Len(rows) : ChecksHold(rows[i]) /\ FieldsMatch(rows[i])
    BY <1>2 DEF Inv, FileSound
  <2>2. \A i \in 1..Len(tx.rows) : ChecksHold(tx.rows[i]) /\ FieldsMatch(tx.rows[i])
    BY DEF Inv, TxSound
  <2>3. \A i \in 1..Len(rows') : ChecksHold(rows'[i]) /\ FieldsMatch(rows'[i])
    BY <1>1, <1>4, <2>1, <2>2
  <2> QED
    BY <1>1, <1>2, <1>4, <2>3 DEF FileSound
<1>7. \A g \in Handlers : ~In(g, "inserting")'
  BY <1>1, <1>3 DEF Inv, OneTx, In
<1>8. TxSound' /\ OneTx' /\ Processed'
  BY <1>1, <1>7 DEF TxSound, NoTx, OneTx, Processed
<1>9. Validated'
  BY <1>1, <1>3 DEF Inv, Validated, Holding, In
<1>10. Committed'
  <2> SUFFICES ASSUME NEW g \in Handlers, In(g, "saved")',
                      NEW i \in 1..Len(handler'[g].request.events)
               PROVE  Has(rows', Sent(g, i)')
    BY DEF Committed
  <2>1. CASE g = h
    <3>1. Sent(g, i)' = Sent(h, i) /\ i \in 1..tx.next
      BY <1>1, <1>3, <2>1 DEF Sent
    <3> QED
      BY <1>1, <3>1 DEF Inv, Processed
  <2>2. CASE g # h
    <3>1. In(g, "saved") /\ i \in 1..Len(handler[g].request.events)
          /\ Sent(g, i)' = Sent(g, i)
      BY <1>3, <2>2 DEF In, Sent
    <3> QED
      BY <1>5, <3>1 DEF Inv, Committed
  <2> QED
    BY <2>1, <2>2
<1>11. Migrated'
  BY <1>1, <1>2, <1>3, ServingKeeps
<1>12. ReportedIsStored'
  BY <1>1, <1>5 DEF Inv, ReportedIsStored
<1>13. Counters' /\ ServerErrorsAreFaults'
  BY <1>1 DEF Inv, Counters, ServerErrorsAreFaults
<1> QED
  BY <1>3, <1>6, <1>8, <1>9, <1>10, <1>11, <1>12, <1>13 DEF Inv

LEMMA DatabaseFailsKeeps ==
  ASSUME Inv, NEW h \in Handlers, DatabaseFails(h)
  PROVE  Inv'
<1>1. /\ ~In(h, "idle") /\ Leave(h) /\ answer' = 500 /\ Aborted(h)
      /\ faults' = faults + 1
      /\ UNCHANGED <<file, server, reported, clock>>
  BY AnswersKnown DEF DatabaseFails, Answer, In
<1>2. Counters' /\ ServerErrorsAreFaults'
  BY <1>1 DEF Inv, Counters, ServerErrorsAreFaults
<1>3. ReportedIsStored'
  BY <1>1 DEF Inv, ReportedIsStored, file
<1> QED
  BY <1>1, <1>2, <1>3, Busy, AnswerKeeps

LEMMA RecordKeeps ==
  ASSUME Inv, NEW h \in Handlers, Record(h)
  PROVE  Inv'
<1>1. /\ In(h, "saved") /\ Leave(h) /\ answer' = 200
      /\ reported' = [request |-> handler[h].request, last_seen |-> handler[h].seen]
      /\ UNCHANGED <<file, server, tx, clock, faults>>
  BY AnswersKnown DEF Record, Reported, Report, Answer
<1>2. Aborted(h) /\ ~In(h, "idle")
  BY <1>1 DEF Aborted, In
<1>3. Counters' /\ ServerErrorsAreFaults'
  BY <1>1 DEF Inv, Counters, ServerErrorsAreFaults
<1>4. ReportedIsStored'
  BY <1>1 DEF Inv, Committed, Sent, ReportedIsStored, file
<1> QED
  BY <1>1, <1>2, <1>3, <1>4, Busy, AnswerKeeps

LEMMA CancelKeeps ==
  ASSUME Inv, NEW h \in Handlers, Cancel(h)
  PROVE  Inv'
<1>1. /\ ~In(h, "idle") /\ Leave(h) /\ Aborted(h)
      /\ UNCHANGED <<file, server, reported, answer, clock, faults>>
  BY DEF Cancel
<1>2. Counters' /\ ReportedIsStored' /\ ServerErrorsAreFaults'
  BY <1>1 DEF Inv, Counters, ReportedIsStored, ServerErrorsAreFaults, file
<1> QED
  BY <1>1, <1>2, Busy, AnswerKeeps

LEMMA AskEventsKeeps ==
  ASSUME Inv, NEW h \in Handlers, NEW limit \in Limits, AskEvents(h, limit)
  PROVE  Inv'
<1>1. /\ server = "serving" /\ In(h, "idle")
      /\ UNCHANGED <<file, server, tx, reported, clock, faults>>
  BY DEF AskEvents
<1>2. Aborted(h) /\ UNCHANGED <<schema, rows>>
  BY <1>1 DEF Aborted, In, file
<1>3. CASE limit \in 1..MaxLimit
  <2>1. Take(h, "listing", [limit |-> limit], 0) /\ UNCHANGED answer
    BY <1>3 DEF AskEvents
  <2>2. [limit |-> limit] \in Payloads /\ 0 \in 0..MaxClock
    BY <1>3, BoundFacts DEF Payloads
  <2>3. /\ handler' \in [Handlers -> Slot]
        /\ \A g \in Handlers : g # h => handler'[g] = handler[g]
        /\ handler'[h].stage = "listing"
    BY <2>1, <2>2, Taken DEF Inv, Stages
  <2>4. TxSound' /\ OneTx' /\ Validated' /\ Processed' /\ Committed'
    BY <1>2, <2>3, Released
  <2>5. FileSound' /\ Migrated'
    BY <1>1, <1>2, <2>3, ServingKeeps DEF Inv, FileSound
  <2>6. Counters' /\ ReportedIsStored' /\ ServerErrorsAreFaults'
    BY <1>1, <1>2, <2>1 DEF Inv, Counters, ReportedIsStored, ServerErrorsAreFaults
  <2> QED
    BY <2>3, <2>4, <2>5, <2>6 DEF Inv
<1>4. CASE limit \notin 1..MaxLimit
  <2>1. Leave(h) /\ answer' = 400
    BY <1>4, AnswersKnown DEF AskEvents, Answer
  <2>2. Counters' /\ ReportedIsStored' /\ ServerErrorsAreFaults'
    BY <1>1, <1>2, <2>1 DEF Inv, Counters, ReportedIsStored, ServerErrorsAreFaults
  <2> QED
    BY <1>1, <1>2, <2>1, <2>2, AnswerKeeps
<1> QED
  BY <1>3, <1>4

LEMMA SoundHistory == ASSUME Inv PROVE HistoryReadable
<1> SUFFICES ASSUME server = "serving", NEW i \in 1..Len(rows)
             PROVE  Readable(rows[i])
  BY DEF HistoryReadable
<1>1. rows[i] \in Row /\ ChecksHold(rows[i]) /\ FieldsMatch(rows[i])
  BY DEF Inv, FileSound, Migrated
<1> QED
  BY <1>1, SoundReadable

(* The query always succeeds: the history can be read. *)
LEMMA ListEventsKeeps ==
  ASSUME Inv, NEW h \in Handlers, ListEvents(h)
  PROVE  Inv'
<1>1. /\ In(h, "listing") /\ Leave(h)
      /\ UNCHANGED <<file, server, tx, reported, clock, faults>>
  BY DEF ListEvents, Answer
<1>2. server = "serving" /\ Aborted(h)
  BY <1>1, Busy DEF Aborted, In
<1>3. \A i \in Recent(handler[h].request.limit) : Readable(rows[i])
  BY <1>2, SoundHistory DEF HistoryReadable, Recent
<1>4. answer' = 200
  BY <1>3, AnswersKnown DEF ListEvents, Answer
<1>5. Counters' /\ ReportedIsStored' /\ ServerErrorsAreFaults'
  BY <1>1, <1>4 DEF Inv, Counters, ReportedIsStored, ServerErrorsAreFaults, file
<1> QED
  BY <1>1, <1>2, <1>5, AnswerKeeps

LEMMA StutterKeeps == ASSUME Inv, UNCHANGED vars PROVE Inv'
<1>1. UNCHANGED <<schema, rows, server, handler, tx, reported, answer, clock, faults>>
  BY DEF vars, file, memory
<1>2. FileSound' /\ Migrated' /\ TxSound' /\ OneTx'
  BY <1>1 DEF Inv, FileSound, Migrated, TxSound, OneTx, Free, In
<1>3. Validated' /\ Processed' /\ Committed'
  BY <1>1 DEF Inv, Validated, Processed, Committed, Sent, In
<1>4. Counters' /\ ReportedIsStored' /\ ServerErrorsAreFaults'
  BY <1>1 DEF Inv, Counters, ReportedIsStored, ServerErrorsAreFaults
<1> QED
  BY <1>1, <1>2, <1>3, <1>4 DEF Inv

LEMMA InitInv == Init => Inv
<1> SUFFICES ASSUME Init PROVE Inv
  OBVIOUS
<1>1. PICK f \in OldFiles : schema = f.schema /\ rows = f.rows
  BY DEF Init
<1>2. FileSound
  BY <1>1, StoreAssumption DEF FileSound
<1>3. handler \in [Handlers -> Slot] /\ \A h \in Handlers : In(h, "idle")
  BY BoundFacts DEF Init, Idle, Slot, Stages, Payloads, In
<1>4. Migrated /\ OneTx /\ Validated /\ Processed /\ Committed
  BY <1>3 DEF Init, Migrated, OneTx, Validated, Holding, Processed, Committed, In
<1>5. TxSound
  BY DEF Init, TxSound, NoTx
<1>6. Counters /\ ReportedIsStored /\ ServerErrorsAreFaults
  BY BoundFacts DEF Init, Counters, ReportedIsStored, ServerErrorsAreFaults
<1> QED
  BY <1>2, <1>3, <1>4, <1>5, <1>6 DEF Inv

LEMMA NextKeeps == Inv /\ [Next]_vars => Inv'
<1> SUFFICES ASSUME Inv, [Next]_vars PROVE Inv'
  OBVIOUS
<1>1. CASE Launch \/ CreateTables \/ EnforceFields \/ InsertDefault \/ Serve
  BY <1>1, ProcessKeeps
<1>2. CASE Crash
  BY <1>2, CrashKeeps
<1>3. ASSUME NEW h \in Handlers, NEW r \in Requests, Refuse(h, r) \/ Accept(h, r)
      PROVE  Inv'
  BY <1>3, RefuseKeeps, AcceptKeeps
<1>4. ASSUME NEW h \in Handlers, NEW limit \in Limits, AskEvents(h, limit)
      PROVE  Inv'
  BY <1>4, AskEventsKeeps
<1>5. ASSUME NEW h \in Handlers,
             \/ Begin(h) \/ Insert(h) \/ Commit(h)
             \/ DatabaseFails(h) \/ Record(h) \/ Cancel(h) \/ ListEvents(h)
      PROVE  Inv'
  BY <1>5, BeginKeeps, InsertKeeps, CommitKeeps, DatabaseFailsKeeps, RecordKeeps,
     CancelKeeps, ListEventsKeeps
<1>6. CASE UNCHANGED vars
  BY <1>6, StutterKeeps
<1> QED
  BY <1>1, <1>2, <1>3, <1>4, <1>5, <1>6 DEF Next

LEMMA Inductive == Spec => []Inv
BY InitInv, NextKeeps, PTL DEF Spec
-----------------------------------------------------------------------------
(* Types, and one open transaction at most. *)
THEOREM StoreTypeCorrect == Spec => []TypeOK
BY Inductive, TypesGive, PTL

(* Nothing that passes validation is refused by the tables or unreadable in them: *)
(* while the database works, no request is answered 500.                          *)
THEOREM ErrorsAreFaults == Spec => []ServerErrorsAreFaults
<1>1. Inv => ServerErrorsAreFaults
  BY DEF Inv
<1> QED
  BY <1>1, Inductive, PTL

(* A server that serves can read all of its history. *)
THEOREM HistoryIsReadable == Spec => []HistoryReadable
<1>1. Inv => HistoryReadable
  BY SoundHistory
<1> QED
  BY <1>1, Inductive, PTL

(* The report shown is of a heartbeat whose events are stored. *)
THEOREM ReportIsStored == Spec => []ReportedIsStored
<1>1. Inv => ReportedIsStored
  BY DEF Inv
<1> QED
  BY <1>1, Inductive, PTL
-----------------------------------------------------------------------------
(* The table implements EventLog.  While a transaction is open, its rows   *)
(* are exactly those of the events processed that the table did not have,  *)
(* in their order; its commit is the one step that the log sees.           *)

LEMMA Induction ==
  ASSUME NEW S \in SUBSET Nat, 0 \in S, \A n \in S : n + 1 \in S
  PROVE  S = Nat
<1> DEFINE T == Nat \ S
           R == OpToRel(<, Nat)
<1> SUFFICES ASSUME T # {} PROVE FALSE
  OBVIOUS
<1>1. IsWellFoundedOn(R, Nat) /\ T \subseteq Nat
  BY NatLessThanWellFounded
<1>2. \A m, n \in Nat : m < n => <<m, n>> \in R
  BY DEF OpToRel
<1>3. \A x \in T : x - 1 \in T /\ x \in Nat /\ x - 1 \in Nat /\ x - 1 < x
  OBVIOUS
<1> HIDE DEF R, T
<1>4. PICK x \in T : \A y \in T : ~(<<y, x>> \in R)
  BY <1>1, WFMin
<1> QED
  BY <1>2, <1>3, <1>4

(* Each event's seq is above the last one's, so above all before it. *)
LEMMA SeqsIncrease ==
  ASSUME NEW r \in Requests, Refusal(r) = "ok"
  PROVE  \A i, j \in 1..Len(r.events) : i < j => r.events[i].seq < r.events[j].seq
<1> DEFINE n == Len(r.events)
           q(i) == r.events[i].seq
           S == {d \in Nat : \A i \in 1..n : i + d + 1 \in 1..n => q(i) < q(i + d + 1)}
<1>1. r.events \in Seq(Events) /\ (r.events = <<>> \/ ValidEvents(r.boot_id, r.events))
  BY AcceptedFacts
<1>2. n \in Nat /\ \A i \in 1..n : q(i) \in Nat
  BY <1>1 DEF Events
<1>3. \A i \in 1..n : i # 1 => q(i - 1) < q(i)
  <2> SUFFICES ASSUME NEW i \in 1..n, i # 1 PROVE q(i - 1) < q(i)
    OBVIOUS
  <2>1. r.events[i].seq > r.events[i - 1].seq
    BY <1>1 DEF ValidEvents
  <2>2. i - 1 \in 1..n
    BY <1>2
  <2>3. q(i) \in Nat /\ q(i - 1) \in Nat
    BY <1>2, <2>2
  <2> QED
    BY <2>1, <2>3
<1> HIDE DEF n, q
<1>4. 0 \in S
  <2> SUFFICES ASSUME NEW i \in 1..n, i + 0 + 1 \in 1..n PROVE q(i) < q(i + 0 + 1)
    OBVIOUS
  <2>1. i + 0 + 1 = i + 1 /\ i + 1 # 1 /\ (i + 1) - 1 = i
    BY <1>2
  <2> QED
    BY <1>3, <2>1
<1>5. ASSUME NEW d \in S PROVE d + 1 \in S
  <2>1. d \in Nat /\ \A i \in 1..n : i + d + 1 \in 1..n => q(i) < q(i + d + 1)
    OBVIOUS
  <2>2. ASSUME NEW i \in 1..n, i + (d + 1) + 1 \in 1..n
        PROVE  q(i) < q(i + (d + 1) + 1)
    <3> DEFINE k == i + d + 1
    <3>1. /\ k \in 1..n /\ k + 1 \in 1..n /\ k + 1 # 1 /\ (k + 1) - 1 = k
          /\ i + (d + 1) + 1 = k + 1
      BY <1>2, <2>1, <2>2
    <3>2. q(i) < q(k) /\ q(k) < q(k + 1)
      BY <1>3, <2>1, <3>1
    <3>3. q(i) \in Nat /\ q(k) \in Nat /\ q(k + 1) \in Nat
      BY <1>2, <3>1
    <3> HIDE DEF k
    <3> QED
      BY <3>1, <3>2, <3>3
  <2> QED
    BY <2>1, <2>2
<1>6. S = Nat
  <2>1. S \in SUBSET Nat
    OBVIOUS
  <2> HIDE DEF S
  <2> QED
    BY <1>4, <1>5, <2>1, Induction
<1>7. ASSUME NEW i \in 1..n, NEW j \in 1..n, i < j PROVE q(i) < q(j)
  <2>1. j - i - 1 \in Nat /\ i + (j - i - 1) + 1 = j
    BY <1>2, <1>7
  <2> QED
    BY <1>6, <2>1
<1> QED
  BY <1>7 DEF n, q

\* The rows of the open transaction, against the events it has processed.
AddsNew(h, n, new) ==
  /\ \A k \in 1..Len(new) : \E i \in 1..n :
       new[k] = Sent(h, i) /\ ~Has(rows, Sent(h, i))
  /\ \A i \in 1..n : ~Has(rows, Sent(h, i)) =>
       \E k \in 1..Len(new) : new[k] = Sent(h, i)
  /\ \A j, k \in 1..Len(new) : j < k => new[j].seq < new[k].seq

TxRowsNew(h) == AddsNew(h, tx.next, tx.rows)

TxIsNew == \A h \in Handlers : In(h, "inserting") => TxRowsNew(h)

LEMMA TxKept ==
  ASSUME TxIsNew, NEW h \in Handlers, In(h, "inserting"),
         handler'[h] = handler[h], UNCHANGED <<rows, tx>>
  PROVE  TxRowsNew(h)'
BY DEF TxIsNew, TxRowsNew, AddsNew, Sent

(* A row has the key of one that another has. *)
LEMMA HasSplit ==
  ASSUME NEW a \in Seq(Row), NEW b \in Seq(Row), NEW x, Has(a \o b, x), ~Has(a, x)
  PROVE  \E k \in 1..Len(b) : SameKey(b[k], x)
<1>1. PICK i \in 1..Len(a \o b) : SameKey((a \o b)[i], x)
  BY DEF Has
<1>2. CASE i <= Len(a)
  <2>1. i \in 1..Len(a) /\ (a \o b)[i] = a[i]
    BY <1>2
  <2> QED
    BY <1>1, <2>1 DEF Has
<1>3. CASE ~(i <= Len(a))
  <2>1. i - Len(a) \in 1..Len(b) /\ (a \o b)[i] = b[i - Len(a)]
    BY <1>3
  <2> QED
    BY <1>1, <2>1
<1> QED
  BY <1>2, <1>3

LEMMA TxMoved ==
  ASSUME NEW h \in Handlers, NEW n, NEW new, AddsNew(h, n, new),
         UNCHANGED <<handler, rows>>, tx'.next = n, tx'.rows = new
  PROVE  TxRowsNew(h)'
<1>1. AddsNew(h, n, new)'
  BY DEF AddsNew, Sent
<1> QED
  BY <1>1 DEF TxRowsNew

LEMMA InsertIsNew ==
  ASSUME Inv, TxIsNew, NEW h \in Handlers, Insert(h), In(h, "inserting")'
  PROVE  TxRowsNew(h)'
<1> DEFINE q == handler[h].request
           row == NextRow(h)
           n == tx.next + 1
<1>1. /\ In(h, "inserting") /\ tx.next < Len(q.events)
      /\ UNCHANGED <<rows, server>>
  BY DEF Insert, Inserting, file
<1>2. q \in Requests /\ Refusal(q) = "ok" /\ handler[h].seen \in Nat
  BY <1>1, BoundFacts DEF Inv, Validated, Holding, In, Slot
<1>3. q.events \in Seq(Events) /\ tx.next \in Nat /\ tx.rows \in Seq(Row)
      /\ rows \in Seq(Row)
  BY <1>2, AcceptedFacts DEF Inv, TxSound, FileSound
<1>4. n \in 1..Len(q.events) /\ \A i \in 1..tx.next : i \in 1..Len(q.events) /\ i < n
  BY <1>1, <1>3
<1>5. row \in Row /\ Storable(row)
  BY <1>2, <1>4, AcceptedStorable DEF NextRow
<1>6. row = Sent(h, n) /\ row.seq = q.events[n].seq
  BY DEF NextRow, Sent, RowOf
<1>7. \A i \in 1..tx.next : Sent(h, i).seq < row.seq
  <2>1. \A i : Sent(h, i).seq = q.events[i].seq
    BY DEF Sent, RowOf
  <2> QED
    BY <1>2, <1>4, <1>6, <2>1, SeqsIncrease
<1>8. /\ tx' = [next |-> n,
                rows |-> IF Has(rows \o tx.rows, row) THEN tx.rows
                         ELSE Append(tx.rows, row)]
      /\ UNCHANGED handler
  BY <1>5 DEF Insert
<1> HIDE DEF row, q, n
<1>9. tx'.next = n /\ UNCHANGED <<handler, rows>>
  BY <1>1, <1>8
<1>10. TxRowsNew(h)
  BY <1>1 DEF TxIsNew
<1>11. \A i \in 1..n : i = n \/ i \in 1..tx.next
  BY <1>3 DEF n
<1>12. \A i \in 1..tx.next : i \in 1..n
  BY <1>3 DEF n
<1>13. n \in 1..n
  BY <1>3 DEF n
<1>14. \A k \in 1..Len(tx.rows) : tx.rows[k] \in Row /\ tx.rows[k].seq < row.seq
  BY <1>3, <1>7, <1>10 DEF TxRowsNew, AddsNew
<1>15. row.seq \in Nat /\ \A k \in 1..Len(tx.rows) : tx.rows[k].seq \in Nat
  BY <1>5, <1>14 DEF Row
<1>16. CASE Has(rows \o tx.rows, row)
  <2> DEFINE old == tx.rows
  <2>1. tx'.rows = old
    BY <1>8, <1>16
  <2>2. Has(rows, row)
    <3>1. \A k \in 1..Len(old) : ~SameKey(old[k], row)
      BY <1>14, <1>15 DEF SameKey
    <3> QED
      BY <1>3, <1>16, <3>1, HasSplit
  <2>3. \A k \in 1..Len(old) : \E i \in 1..n :
          old[k] = Sent(h, i) /\ ~Has(rows, Sent(h, i))
    BY <1>10, <1>12 DEF TxRowsNew, AddsNew
  <2>4. \A i \in 1..n : ~Has(rows, Sent(h, i)) =>
          \E k \in 1..Len(old) : old[k] = Sent(h, i)
    BY <1>6, <1>10, <1>11, <2>2 DEF TxRowsNew, AddsNew
  <2>5. \A j, k \in 1..Len(old) : j < k => old[j].seq < old[k].seq
    BY <1>10 DEF TxRowsNew, AddsNew
  <2> HIDE DEF old
  <2>6. AddsNew(h, n, old)
    BY <2>3, <2>4, <2>5 DEF AddsNew
  <2> QED
    BY <1>9, <2>1, <2>6, TxMoved
<1>17. CASE ~Has(rows \o tx.rows, row)
  <2> DEFINE new == Append(tx.rows, row)
             m == Len(tx.rows) + 1
  <2>1. tx'.rows = new
    BY <1>8, <1>17
  <2>2. ~Has(rows, row)
    BY <1>3, <1>17, HasKeeps
  <2>3. /\ Len(new) = m /\ new[m] = row /\ m \in 1..m
        /\ \A k \in 1..m : k = m \/ (k \in 1..Len(tx.rows) /\ new[k] = tx.rows[k])
        /\ \A k \in 1..Len(tx.rows) : k \in 1..m /\ k < m /\ new[k] = tx.rows[k]
        /\ m \in Nat
    BY <1>3, <1>5
  <2> HIDE DEF new, m
  <2>4. \A k \in 1..m : \E i \in 1..n : new[k] = Sent(h, i) /\ ~Has(rows, Sent(h, i))
    BY <1>6, <1>10, <1>12, <1>13, <2>2, <2>3 DEF TxRowsNew, AddsNew
  <2>5. \A i \in 1..n : ~Has(rows, Sent(h, i)) => \E k \in 1..m : new[k] = Sent(h, i)
    BY <1>6, <1>10, <1>11, <2>3 DEF TxRowsNew, AddsNew
  <2>6. ASSUME NEW j \in 1..m, NEW k \in 1..m, j < k PROVE new[j].seq < new[k].seq
    <3>1. j # m
      BY <2>3, <2>6
    <3>2. j \in 1..Len(tx.rows) /\ new[j] = tx.rows[j]
      BY <2>3, <3>1
    <3>3. CASE k = m
      BY <1>14, <2>3, <3>2, <3>3
    <3>4. CASE k # m
      BY <1>10, <2>3, <2>6, <3>2, <3>4 DEF TxRowsNew, AddsNew
    <3> QED
      BY <3>3, <3>4
  <2>7. AddsNew(h, n, new)
    BY <2>3, <2>4, <2>5, <2>6 DEF AddsNew
  <2> QED
    BY <1>9, <2>1, <2>7, TxMoved
<1> QED
  BY <1>16, <1>17

LEMMA BeginIsNew ==
  ASSUME Inv, NEW h \in Handlers, Begin(h) PROVE TxRowsNew(h)'
<1>1. tx' = tx /\ tx = NoTx
  BY DEF Begin, Inv, TxSound
<1>2. tx'.next = 0 /\ tx'.rows = <<>>
  BY <1>1 DEF NoTx
<1> QED
  BY <1>2 DEF TxRowsNew, AddsNew

(* A transaction open after a step was open before it or has just begun. *)
LEMMA StillOpen ==
  ASSUME Inv, [Next]_vars, NEW h \in Handlers, In(h, "inserting")'
  PROVE  \/ In(h, "inserting") /\ handler'[h] = handler[h] /\ UNCHANGED <<rows, tx>>
         \/ Insert(h) \/ Begin(h)
<1>1. handler \in [Handlers -> Slot]
  BY DEF Inv
<1>2. CASE Launch \/ CreateTables \/ EnforceFields \/ InsertDefault \/ Serve \/ UNCHANGED vars
  <2>1. UNCHANGED <<handler, rows, tx>>
    BY <1>2 DEF Launch, CreateTables, EnforceFields, InsertDefault, Serve, vars, file, memory
  <2> QED
    BY <2>1 DEF In
<1>3. CASE Crash
  BY <1>3 DEF Crash, In, Idle
<1>4. ASSUME NEW g \in Handlers, UNCHANGED rows, Aborted(g),
             handler'[g].stage # "inserting",
             \A f \in Handlers : f # g => handler'[f] = handler[f]
      PROVE  In(h, "inserting") /\ handler'[h] = handler[h] /\ UNCHANGED <<rows, tx>>
  <2>1. h # g
    BY <1>4 DEF In
  <2>2. handler'[h] = handler[h] /\ In(h, "inserting")
    BY <1>4, <2>1 DEF In
  <2>3. ~In(g, "inserting")
    BY <2>1, <2>2 DEF Inv, OneTx
  <2> QED
    BY <1>4, <2>2, <2>3 DEF Aborted
<1>5. ASSUME NEW g \in Handlers, Leave(g)
      PROVE  /\ handler'[g].stage # "inserting"
             /\ \A f \in Handlers : f # g => handler'[f] = handler[f]
  BY <1>1, <1>5, Left
<1>6. ASSUME NEW g \in Handlers, NEW r, NEW t, NEW s, s # "inserting", Take(g, s, r, t)
      PROVE  /\ handler'[g].stage # "inserting"
             /\ \A f \in Handlers : f # g => handler'[f] = handler[f]
  BY <1>1, <1>6 DEF Take
<1>7. ASSUME NEW g \in Handlers, NEW r \in Requests, Refuse(g, r) \/ Accept(g, r)
      PROVE  In(h, "inserting") /\ handler'[h] = handler[h] /\ UNCHANGED <<rows, tx>>
  <2>1. UNCHANGED <<rows, tx>> /\ Aborted(g)
    BY <1>7 DEF Refuse, Accept, file, Aborted, In
  <2>2. Leave(g) \/ Take(g, "queued", r, clock')
    BY <1>7 DEF Refuse, Accept, Reported, Answer
  <2> QED
    BY <1>4, <1>5, <1>6, <2>1, <2>2
<1>8. ASSUME NEW g \in Handlers, NEW limit \in Limits, AskEvents(g, limit)
      PROVE  In(h, "inserting") /\ handler'[h] = handler[h] /\ UNCHANGED <<rows, tx>>
  <2>1. UNCHANGED <<rows, tx>> /\ Aborted(g)
    BY <1>8 DEF AskEvents, file, Aborted, In
  <2>2. Leave(g) \/ Take(g, "listing", [limit |-> limit], 0)
    BY <1>8 DEF AskEvents, Answer
  <2> QED
    BY <1>4, <1>5, <1>6, <2>1, <2>2
<1>9. ASSUME NEW g \in Handlers, DatabaseFails(g) \/ Record(g) \/ Cancel(g) \/ ListEvents(g)
      PROVE  In(h, "inserting") /\ handler'[h] = handler[h] /\ UNCHANGED <<rows, tx>>
  <2>1. UNCHANGED rows /\ Aborted(g) /\ Leave(g)
    BY <1>9
    DEF DatabaseFails, Record, Cancel, ListEvents, Reported, Answer, Aborted, In, file
  <2> QED
    BY <1>4, <1>5, <2>1
<1>10. ASSUME NEW g \in Handlers, Commit(g) PROVE FALSE
  <2>1. In(g, "inserting") /\ Enter(g, "saved")
    BY <1>10 DEF Commit
  <2>2. /\ handler'[g].stage = "saved"
        /\ \A f \in Handlers : f # g => handler'[f] = handler[f]
    BY <1>1, <2>1, Moved DEF Stages
  <2> QED
    BY <2>1, <2>2 DEF Inv, OneTx, In
<1>11. ASSUME NEW g \in Handlers, Begin(g)
       PROVE  Begin(h)
  <2>1. Enter(g, "inserting") /\ Free
    BY <1>11 DEF Begin
  <2>2. \A f \in Handlers : f # g => handler'[f] = handler[f]
    BY <1>1, <2>1, Moved DEF Stages
  <2>3. h = g
    BY <2>1, <2>2 DEF Free, In
  <2> QED
    BY <1>11, <2>3
<1>12. ASSUME NEW g \in Handlers, Insert(g)
       PROVE  Insert(h)
  <2>1. In(g, "inserting") /\ (UNCHANGED handler \/ Leave(g))
    BY <1>12 DEF Insert, Inserting, Answer
  <2>2. In(h, "inserting") /\ h = g
    BY <1>5, <2>1 DEF Inv, OneTx, In
  <2> QED
    BY <1>12, <2>2
<1> QED
  BY <1>2, <1>3, <1>7, <1>8, <1>9, <1>10, <1>11, <1>12 DEF Next

LEMMA TxIsNewKept == Inv /\ TxIsNew /\ [Next]_vars => TxIsNew'
<1> SUFFICES ASSUME Inv, TxIsNew, [Next]_vars, NEW h \in Handlers, In(h, "inserting")'
             PROVE  TxRowsNew(h)'
  BY DEF TxIsNew
<1> QED
  BY StillOpen, TxKept, InsertIsNew, BeginIsNew

LEMMA TxAlwaysNew == Spec => [](Inv /\ TxIsNew)
<1>1. Init => TxIsNew
  BY DEF Init, TxIsNew, In, Idle
<1> QED
  BY <1>1, InitInv, NextKeeps, TxIsNewKept, PTL DEF Spec

LEMMA HistoryFacts ==
  ASSUME rows \in Seq(Row)
  PROVE  Len(History) = Len(rows) /\ \A i \in 1..Len(rows) : History[i] = Loaded(rows[i])
<1>1. Len(rows) \in Nat
  OBVIOUS
<1>2. Len(History) = Len(rows)
  BY <1>1 DEF History
<1> QED
  BY <1>2 DEF History

LEMMA LoadedKey ==
  ASSUME NEW row, NEW d, NEW b, NEW y, NEW v, NEW s, NEW u, NEW t
  PROVE  /\ Log!Identity(Loaded(row)) = <<row.device_id, row.boot_id, row.seq>>
         /\ Log!Identity(Event(d, b, y, v, s, u, t)) = <<d, b, s>>
         /\ Loaded(row).seq = row.seq
BY DEF Log!Identity, Loaded, Event

(* What is read back is what was sent. *)
LEMMA LoadedIsCarried ==
  ASSUME NEW r \in Requests, Refusal(r) = "ok", NEW i \in 1..Len(r.events), NEW t
  PROVE  Loaded(RowOf(r, r.events[i], t)) =
           Event(r.device_id, r.boot_id, r.events[i].type, r.events[i].value,
                 r.events[i].seq, r.events[i].uptime_ms, t)
<1> DEFINE e == r.events[i]
           row == RowOf(r, e, t)
           value == CASE row.event_type = "mode_changed" -> row.mode
                      [] row.event_type = "light_changed" -> row.light_on = 1
                      [] row.event_type = "wifi_changed" -> row.wifi_connected = 1
<1>1. e \in Events
  BY AcceptedFacts
<1>2. \/ e.type = "mode_changed"
      \/ e.type = "light_changed" /\ e.value \in BOOLEAN
      \/ e.type = "wifi_changed" /\ e.value \in BOOLEAN
  BY <1>1 DEF Events
<1> HIDE DEF e
<1>3. /\ row.device_id = r.device_id /\ row.boot_id = r.boot_id /\ row.seq = e.seq
      /\ row.event_type = e.type /\ row.uptime_ms = e.uptime_ms /\ row.received_at = t
      /\ row.mode = IF e.type = "mode_changed" THEN e.value ELSE Null
      /\ row.light_on = IF e.type = "light_changed" THEN Integer(e.value) ELSE Null
      /\ row.wifi_connected = IF e.type = "wifi_changed" THEN Integer(e.value) ELSE Null
  BY DEF RowOf
<1> HIDE DEF row
<1>4. ASSUME NEW b \in BOOLEAN PROVE (Integer(b) = 1) = b
  <2>1. CASE b = TRUE
    BY <2>1 DEF Integer
  <2>2. CASE b = FALSE
    BY <2>2 DEF Integer
  <2> QED
    BY <2>1, <2>2, Zenon
<1>5. value = e.value
  <2>1. CASE e.type = "mode_changed"
    BY <1>3, <2>1
  <2>2. CASE e.type = "light_changed" /\ e.value \in BOOLEAN
    <3>1. row.event_type = "light_changed" /\ row.light_on = Integer(e.value)
      BY <1>3, <2>2
    <3>2. value = (row.light_on = 1)
      BY <3>1
    <3>3. (row.light_on = 1) = e.value
      BY <1>4, <2>2, <3>1, Zenon
    <3> QED
      BY <3>2, <3>3, Zenon
  <2>3. CASE e.type = "wifi_changed" /\ e.value \in BOOLEAN
    <3>1. row.event_type = "wifi_changed" /\ row.wifi_connected = Integer(e.value)
      BY <1>3, <2>3
    <3>2. value = (row.wifi_connected = 1)
      BY <3>1
    <3>3. (row.wifi_connected = 1) = e.value
      BY <1>4, <2>3, <3>1, Zenon
    <3> QED
      BY <3>2, <3>3, Zenon
  <2> QED
    BY <1>2, <2>1, <2>2, <2>3
<1>6. Loaded(row) = Event(row.device_id, row.boot_id, row.event_type, value,
                          row.seq, row.uptime_ms, row.received_at)
  BY Zenon DEF Loaded
<1> HIDE DEF value
<1> QED
  BY <1>3, <1>5, <1>6, Zenon DEF row, e

LEMMA KnownIsHas ==
  ASSUME rows \in Seq(Row), NEW e, NEW x,
         Log!Identity(e) = <<x.device_id, x.boot_id, x.seq>>
  PROVE  Log!Known(e) <=> Has(rows, x)
<1>1. \A i \in 1..Len(rows) :
        Log!Identity(History[i]) = <<rows[i].device_id, rows[i].boot_id, rows[i].seq>>
  BY HistoryFacts, LoadedKey
<1>2. \A i \in 1..Len(rows) : Log!Identity(History[i]) = Log!Identity(e) <=>
                              SameKey(rows[i], x)
  BY <1>1 DEF SameKey
<1> QED
  BY <1>2, HistoryFacts DEF Log!Known, Has

(* The table of a file has no two rows with one key. *)
LEMMA InitIsLog == Init => Log!Init
<1> SUFFICES ASSUME Init, NEW i \in 1..Len(History), NEW j \in 1..Len(History),
                    Log!Identity(History[i]) = Log!Identity(History[j])
             PROVE  i = j
  BY DEF Log!Init
<1>1. PICK f \in OldFiles : rows = f.rows
  BY DEF Init
<1>2. rows \in Seq(Row) /\ \A k, l \in 1..Len(rows) : SameKey(rows[k], rows[l]) => k = l
  BY <1>1, StoreAssumption
<1>3. i \in 1..Len(rows) /\ j \in 1..Len(rows)
  BY <1>2, HistoryFacts
<1>4. /\ Log!Identity(History[i]) = <<rows[i].device_id, rows[i].boot_id, rows[i].seq>>
      /\ Log!Identity(History[j]) = <<rows[j].device_id, rows[j].boot_id, rows[j].seq>>
  BY <1>2, <1>3, HistoryFacts, LoadedKey
<1>5. <<rows[i].device_id, rows[i].boot_id, rows[i].seq>> =
        <<rows[j].device_id, rows[j].boot_id, rows[j].seq>>
  BY <1>4, Zenon
<1>6. SameKey(rows[i], rows[j])
  BY <1>5 DEF SameKey
<1> QED
  BY <1>2, <1>3, <1>6

(* The commit adds to the log what it lacked of an accepted batch. *)
LEMMA CommitIsLog ==
  ASSUME Inv, Inv', TxIsNew, NEW h \in Handlers, Commit(h)
  PROVE  Log!Next
<1> DEFINE r == handler[h].request
           t == handler[h].seen
           batch == Carried(r, t)
           n == Len(rows)
           new == tx.rows
           ev(i) == Event(r.device_id, r.boot_id, r.events[i].type, r.events[i].value,
                          r.events[i].seq, r.events[i].uptime_ms, t)
<1>1. /\ In(h, "inserting") /\ tx.next = Len(r.events) /\ rows' = rows \o tx.rows
  BY DEF Commit
<1>2. r \in Requests /\ Refusal(r) = "ok" /\ t \in 0..MaxClock
  BY <1>1 DEF Inv, Validated, Holding, In, Slot
<1>3. batch \in AcceptedBatches
  BY <1>2 DEF AcceptedBatches
<1>4. TxRowsNew(h)
  BY <1>1 DEF TxIsNew
<1>5. rows \in Seq(Row) /\ new \in Seq(Row) /\ rows' \in Seq(Row)
  BY DEF Inv, FileSound, TxSound
<1>6. /\ Len(History) = n
      /\ \A i \in 1..n : History[i] = Loaded(rows[i])
  BY <1>5, HistoryFacts
<1>7. /\ Len(History') = Len(rows')
      /\ \A i \in 1..Len(rows') : History'[i] = Loaded(rows'[i])
  BY <1>5 DEF History
<1>8. /\ n \in Nat /\ Len(new) \in Nat /\ Len(rows') = n + Len(new)
      /\ \A i \in 1..n : i \in 1..Len(rows') /\ rows'[i] = rows[i]
      /\ \A k \in 1..Len(new) : n + k \in 1..Len(rows') /\ rows'[n + k] = new[k]
  BY <1>1, <1>5
<1>9. /\ Log!Added = (n + 1)..(n + Len(new))
      /\ \A k \in 1..Len(new) : n + k \in Log!Added
      /\ \A a \in Log!Added : a - n \in 1..Len(new) /\ n + (a - n) = a
  BY <1>6, <1>7, <1>8 DEF Log!Added
<1>10. \A a \in Log!Added : History'[a] = Loaded(new[a - n])
  BY <1>7, <1>8, <1>9
<1> HIDE DEF r, t, n, new, ev, batch
<1>11. \A i \in 1..tx.next :
         /\ Loaded(Sent(h, i)) = ev(i)
         /\ Log!Known(ev(i)) <=> Has(rows, Sent(h, i))
  <2> SUFFICES ASSUME NEW i \in 1..tx.next
               PROVE  /\ Loaded(Sent(h, i)) = ev(i)
                      /\ Log!Known(ev(i)) <=> Has(rows, Sent(h, i))
    OBVIOUS
  <2>1. Loaded(Sent(h, i)) = ev(i)
    BY <1>1, <1>2, LoadedIsCarried DEF Sent, ev, r, t
  <2>2. Log!Identity(ev(i)) =
          <<Sent(h, i).device_id, Sent(h, i).boot_id, Sent(h, i).seq>>
    BY <2>1, LoadedKey
  <2> QED
    BY <1>5, <2>1, <2>2, KnownIsHas
<1>12. batch = {ev(i) : i \in 1..tx.next}
  BY <1>1 DEF batch, Carried, ev
<1>13. {History'[a] : a \in Log!Added} = {e \in batch : ~Log!Known(e)}
  <2>1. ASSUME NEW a \in Log!Added
        PROVE  History'[a] \in batch /\ ~Log!Known(History'[a])
    <3>1. PICK i \in 1..tx.next : new[a - n] = Sent(h, i) /\ ~Has(rows, Sent(h, i))
      BY <1>4, <1>9 DEF TxRowsNew, AddsNew, new
    <3>2. History'[a] = ev(i)
      BY <1>10, <1>11, <3>1
    <3> QED
      BY <1>11, <1>12, <3>1, <3>2
  <2>2. ASSUME NEW e \in batch, ~Log!Known(e)
        PROVE  \E a \in Log!Added : History'[a] = e
    <3>1. PICK i \in 1..tx.next : e = ev(i)
      BY <1>12
    <3>2. ~Has(rows, Sent(h, i))
      BY <1>11, <2>2, <3>1
    <3>3. PICK k \in 1..Len(new) : new[k] = Sent(h, i)
      BY <1>4, <3>2 DEF TxRowsNew, AddsNew, new
    <3>4. n + k \in Log!Added /\ (n + k) - n = k
      BY <1>8, <1>9
    <3>5. History'[n + k] = Loaded(new[k])
      BY <1>10, <3>4
    <3> QED
      BY <1>11, <3>1, <3>3, <3>4, <3>5
  <2> QED
    BY <2>1, <2>2
<1>14. \A a, b \in Log!Added : a < b => History'[a].seq < History'[b].seq
  <2> SUFFICES ASSUME NEW a \in Log!Added, NEW b \in Log!Added, a < b
               PROVE  History'[a].seq < History'[b].seq
    OBVIOUS
  <2>1. a - n \in 1..Len(new) /\ b - n \in 1..Len(new) /\ a - n < b - n
    BY <1>8, <1>9
  <2>2. new[a - n].seq < new[b - n].seq
    BY <1>4, <2>1 DEF TxRowsNew, AddsNew, new
  <2>3. History'[a].seq = new[a - n].seq /\ History'[b].seq = new[b - n].seq
    BY <1>10, LoadedKey
  <2> QED
    BY <2>2, <2>3
<1>15. \A i \in 1..Len(History) : History'[i] = History[i]
  BY <1>6, <1>7, <1>8
<1>16. Len(History) <= Len(History')
  BY <1>6, <1>7, <1>8
<1> QED
  BY <1>3, <1>13, <1>14, <1>15, <1>16 DEF Log!Next

LEMMA OnlyCommits ==
  ASSUME [Next]_vars
  PROVE  UNCHANGED rows \/ \E h \in Handlers : Commit(h)
BY DEF Next, vars, file, Launch, CreateTables, EnforceFields, InsertDefault, Serve,
       Crash, Refuse, Accept, AskEvents, Begin, Insert, DatabaseFails, Record,
       Cancel, ListEvents

(* However handlers, transactions and crashes interleave, the table is an   *)
(* append-only log to which every step adds nothing, or what it lacks of    *)
(* one accepted heartbeat (save_device_events).                             *)
THEOREM HistoryIsLog == Spec => ImplementsLog
<1>1. Inv /\ Inv' /\ TxIsNew /\ [Next]_vars => [Log!Next]_History
  <2> SUFFICES ASSUME Inv, Inv', TxIsNew, [Next]_vars
               PROVE  Log!Next \/ History' = History
    OBVIOUS
  <2>1. CASE UNCHANGED rows
    BY <2>1 DEF History
  <2> QED
    BY <2>1, OnlyCommits, CommitIsLog
<1> QED
  BY <1>1, InitIsLog, TxAlwaysNew, PTL DEF Spec, ImplementsLog, Log!Spec
=============================================================================
