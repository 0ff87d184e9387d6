----------------------------- MODULE EventStore -----------------------------
(***************************************************************************)
(* The backend from its start to an answered heartbeat: the migrations, the*)
(* validation of a request (api.rs), the transaction that stores its events*)
(* on the one pooled connection (persistence.rs), the runtime report       *)
(* (state.rs) and the event history that is read back.  A handler may fail *)
(* in the database, or be dropped where it awaits because its client has   *)
(* gone; the process may be killed at any step and is started again.       *)
(* Integers keep their widths: a request holds u64 values, SQLite i64.     *)
(***************************************************************************)
EXTENDS Integers, Sequences, FiniteSets

CONSTANTS
  DeviceId,    \* LUMAHOME_DEVICE_ID, or the default
  Mode, Manual,   \* HomeMode, and its default
  Null,        \* SQL NULL
  Malformed,   \* a body that is not the JSON of a HeartbeatRequest
  MaxInt,      \* i64::MAX
  MaxEvents,   \* MAX_EVENTS_PER_HEARTBEAT
  MaxLimit,    \* MAX_EVENT_LIMIT
  Requests,    \* the heartbeats that may arrive
  Limits,      \* the limits GET /api/events may be asked for
  OldFiles,    \* the database files the first start may find
  Handlers,    \* slots for requests served at the same time
  MaxClock,    \* bound: timestamps
  MaxFaults    \* bound: failures of the database and kills of the process

NoRow == [none |-> TRUE]
NoReport == [none |-> TRUE]
Idle == [stage |-> "idle", request |-> Malformed, seen |-> 0]

VARIABLES
  schema,      \* migrations applied
  singleton,   \* the row of desired_state
  rows,        \* table device_events, by id
  server,      \* "down", "migrating", "seeded" or "serving"
  handler,     \* of each handler: its stage, its request and last_seen
  tx,          \* the open transaction: events processed, rows inserted
  reported,    \* StoredState: the report and last_seen shown
  answer,      \* the status of the last answer
  clock, faults

file == <<schema, singleton, rows>>
memory == <<handler, tx, reported, answer, clock, faults>>
vars == <<file, server, memory>>
-----------------------------------------------------------------------------
(* Requests and rows. *)

FitsI64(n) == n <= MaxInt

\* Mutant: the uptime is not compared with SQLite's range.
ValidEventsAnyUptime(boot, events) ==
  /\ FitsI64(boot)
  /\ \A i \in 1..Len(events) :
       /\ events[i].seq > (IF i = 1 THEN 0 ELSE events[i - 1].seq)
       /\ FitsI64(events[i].seq)

\* The loop of validate_event_batch.
ValidEvents(boot, events) ==
  /\ FitsI64(boot)
  /\ \A i \in 1..Len(events) :
       /\ events[i].seq > (IF i = 1 THEN 0 ELSE events[i - 1].seq)
       /\ FitsI64(events[i].seq)
       /\ FitsI64(events[i].uptime_ms)

BatchRefusal(boot, events) ==
  IF Len(events) > MaxEvents THEN "event_batch_too_large"
  ELSE IF events = <<>> \/ ValidEvents(boot, events) THEN "ok"
  ELSE "invalid_event_batch"

\* The early returns of device_heartbeat, in their order.
Refusal(r) ==
  IF r = Malformed THEN "invalid_json"
  ELSE IF r.device_id # DeviceId THEN "device_not_allowed"
  ELSE IF r.mode \notin Mode THEN "unsupported_mode"
  ELSE BatchRefusal(r.boot_id, r.events)

\* ApiError: the status of each code, also of those other routes answer with.
Status(code) ==
  CASE code = "ok" -> 200
    [] code = "persistence_failed" -> 500
    [] code = "device_not_allowed" -> 403
    [] code = "not_found" -> 404
    [] code = "method_not_allowed" -> 405
    [] code = "manual_control_unavailable" -> 409
    [] code \in {"invalid_json", "unsupported_mode", "invalid_event_batch",
                 "event_batch_too_large", "invalid_event_limit"} -> 400

Integer(bool) == IF bool THEN 1 ELSE 0

\* The columns that event e of request r, received at t, is bound to.
RowOf(r, e, t) ==
  [device_id |-> r.device_id, boot_id |-> r.boot_id, seq |-> e.seq,
   event_type |-> e.type, uptime_ms |-> e.uptime_ms,
   mode |-> IF e.type = "mode_changed" THEN e.value ELSE Null,
   light_on |-> IF e.type = "light_changed" THEN Integer(e.value) ELSE Null,
   wifi_connected |->
     IF e.type = "wifi_changed" THEN Integer(e.value) ELSE Null,
   received_at |-> t]

\* CHECK constraints of migration 0002.
ChecksHold(row) ==
  /\ row.seq > 0
  /\ row.event_type \in {"mode_changed", "light_changed", "wifi_changed"}
  /\ row.uptime_ms >= 0
  /\ row.mode \in Mode \cup {Null}
  /\ row.light_on \in {0, 1, Null}
  /\ row.wifi_connected \in {0, 1, Null}

\* The triggers of migration 0003: exactly the column of the event's type.
FieldsMatch(row) ==
  /\ row.device_id # ""
  /\ row.boot_id >= 0
  /\ (row.mode # Null) = (row.event_type = "mode_changed")
  /\ (row.light_on # Null) = (row.event_type = "light_changed")
  /\ (row.wifi_connected # Null) = (row.event_type = "wifi_changed")

\* sqlite_integer succeeds and the table takes the row.
Storable(row) ==
  /\ FitsI64(row.boot_id) /\ FitsI64(row.seq) /\ FitsI64(row.uptime_ms)
  /\ ChecksHold(row)
  /\ FieldsMatch(row)

\* stored_event_from_row succeeds.
Readable(row) ==
  /\ row.boot_id >= 0 /\ row.seq >= 0 /\ row.uptime_ms >= 0
  /\ \/ row.event_type = "mode_changed" /\ row.mode \in Mode
     \/ row.event_type = "light_changed" /\ row.light_on \in {0, 1}
     \/ row.event_type = "wifi_changed" /\ row.wifi_connected \in {0, 1}

\* StoredDeviceEvent
Event(device, boot, type, value, seq, uptime, t) ==
  [device_id |-> device, boot_id |-> boot, type |-> type, value |-> value,
   seq |-> seq, uptime_ms |-> uptime, received_at |-> t]

\* The event read from a row.
Loaded(row) ==
  Event(row.device_id, row.boot_id, row.event_type,
        CASE row.event_type = "mode_changed" -> row.mode
          [] row.event_type = "light_changed" -> row.light_on = 1
          [] row.event_type = "wifi_changed" -> row.wifi_connected = 1,
        row.seq, row.uptime_ms, row.received_at)

SameKey(a, b) ==
  a.device_id = b.device_id /\ a.boot_id = b.boot_id /\ a.seq = b.seq

Has(table, row) == \E i \in 1..Len(table) : SameKey(table[i], row)

\* load_desired_state accepts the row.
Loads(row) ==
  row.mode \in Mode /\ row.manual_light_on \in {0, 1} /\ row.config_version >= 1

\* DeviceEvent
Events ==
  [type : {"mode_changed"}, seq : Nat, uptime_ms : Nat, value : Mode] \cup
  [type : {"light_changed", "wifi_changed"}, seq : Nat, uptime_ms : Nat,
   value : BOOLEAN]

\* Rows of a table that enforces its CHECK constraints.
Row == [device_id : STRING, boot_id : Int, seq : Nat \ {0}, uptime_ms : Nat,
        event_type : {"mode_changed", "light_changed", "wifi_changed"},
        mode : Mode \cup {Null}, light_on : {0, 1, Null},
        wifi_connected : {0, 1, Null}, received_at : Nat]

\* What deserialisation lets through, and what the tables that the migrations of
\* a file have made can hold.
ASSUME StoreAssumption ==
  /\ DeviceId \in STRING /\ DeviceId # ""
  /\ Manual \in Mode
  /\ Null \notin Mode \cup {0, 1}
  /\ MaxInt \in Nat /\ MaxClock \in Nat /\ MaxFaults \in Nat /\ MaxLimit \in Nat
  /\ \A r \in Requests \ {Malformed} :
       r.boot_id \in Nat /\ r.events \in Seq(Events)
  /\ \A f \in OldFiles :
       /\ f.schema \in 0..3
       /\ f.singleton = NoRow \/ Loads(f.singleton)
       /\ f.rows \in Seq(Row)
       /\ \A i \in 1..Len(f.rows) :
            /\ ChecksHold(f.rows[i])
            /\ f.schema = 3 => FieldsMatch(f.rows[i])
            /\ \A j \in 1..Len(f.rows) : SameKey(f.rows[i], f.rows[j]) => i = j
-----------------------------------------------------------------------------
(* The process. *)

NoTx == [next |-> 0, rows |-> <<>>]
Default == [mode |-> Manual, manual_light_on |-> 0, config_version |-> 1]

Init == /\ \E f \in OldFiles : /\ schema = f.schema
                               /\ singleton = f.singleton
                               /\ rows = f.rows
        /\ server = "down"
        /\ handler = [h \in Handlers |-> Idle]
        /\ tx = NoTx
        /\ reported = NoReport
        /\ answer = 200
        /\ clock = 0
        /\ faults = 0

\* main: the address is read and the database opened.
Launch ==
  /\ server = "down"
  /\ server' = "migrating"
  /\ UNCHANGED <<file, memory>>

CreateTables ==
  /\ server = "migrating"
  /\ schema < 2
  /\ schema' = schema + 1
  /\ UNCHANGED <<singleton, rows, server, memory>>

\* Mutant: migration 0003 does not touch the rows it finds.
EnforceFieldsOfNewRows ==
  /\ server = "migrating"
  /\ schema = 2
  /\ schema' = 3
  /\ UNCHANGED <<singleton, rows, server, memory>>

\* Migration 0003 ends with an UPDATE of every row, which meets the trigger:
\* one bad row undoes the migration, and the process exits.
EnforceFields ==
  /\ server = "migrating"
  /\ schema = 2
  /\ IF \A i \in 1..Len(rows) : FieldsMatch(rows[i])
     THEN schema' = 3 /\ UNCHANGED server
     ELSE server' = "down" /\ UNCHANGED schema
  /\ UNCHANGED <<singleton, rows, memory>>

\* Mutant: no ON CONFLICT: a row already there is an error.
InsertDefaultAnyway ==
  /\ server = "migrating"
  /\ schema = 3
  /\ IF singleton = NoRow
     THEN singleton' = Default /\ server' = "seeded"
     ELSE server' = "down" /\ UNCHANGED singleton
  /\ UNCHANGED <<schema, rows, memory>>

InsertDefault ==
  /\ server = "migrating"
  /\ schema = 3
  /\ singleton' = IF singleton = NoRow THEN Default ELSE singleton
  /\ server' = "seeded"
  /\ UNCHANGED <<schema, rows, memory>>

\* The desired state is loaded and the port bound.
Serve ==
  /\ server = "seeded"
  /\ server' = IF Loads(singleton) THEN "serving" ELSE "down"
  /\ UNCHANGED <<file, memory>>

\* The process ends: a step of the start fails, or it is killed.  Memory and
\* the open transaction are lost.
Crash ==
  /\ server # "down"
  /\ faults < MaxFaults
  /\ faults' = faults + 1
  /\ server' = "down"
  /\ handler' = [h \in Handlers |-> Idle]
  /\ tx' = NoTx
  /\ reported' = NoReport
  /\ UNCHANGED <<file, answer, clock>>
-----------------------------------------------------------------------------
(* A heartbeat. *)

In(h, s) == handler[h].stage = s
Enter(h, s) == handler' = [handler EXCEPT ![h].stage = s]
Take(h, s, r, t) ==
  handler' = [handler EXCEPT ![h] = [stage |-> s, request |-> r, seen |-> t]]
Leave(h) == handler' = [handler EXCEPT ![h] = Idle]
Answer(h, code) == Leave(h) /\ answer' = Status(code)
Report(r, t) == reported' = [request |-> r, last_seen |-> t]

Refuse(h, r) ==
  /\ server = "serving" /\ In(h, "idle")
  /\ Refusal(r) # "ok"
  /\ Answer(h, Refusal(r))
  /\ UNCHANGED <<file, server, tx, reported, clock, faults>>

\* record_heartbeat_at; the answer acknowledges the last event, when the desired
\* state has been read (DesiredState).
Reported(h, r, t) == Report(r, t) /\ Answer(h, "ok")

\* The timestamp is taken; a heartbeat without events needs no transaction.
Accept(h, r) ==
  /\ server = "serving" /\ In(h, "idle")
  /\ Refusal(r) = "ok"
  /\ clock' \in {clock, clock + 1} /\ clock' <= MaxClock
  /\ IF r.events = <<>>
     THEN Reported(h, r, clock')
     ELSE Take(h, "queued", r, clock') /\ UNCHANGED <<reported, answer>>
  /\ UNCHANGED <<file, server, tx, faults>>

Free == \A h \in Handlers : ~In(h, "inserting")

\* Mutant: the pool has a second connection.
BeginUnpooled(h) ==
  /\ In(h, "queued")
  /\ Enter(h, "inserting")
  /\ UNCHANGED <<file, server, tx, reported, answer, clock, faults>>

\* pool.begin() waits for the only connection.
Begin(h) ==
  /\ In(h, "queued") /\ Free
  /\ Enter(h, "inserting")
  /\ UNCHANGED <<file, server, tx, reported, answer, clock, faults>>

\* The row of the next event of the transaction.
NextRow(h) ==
  RowOf(handler[h].request, handler[h].request.events[tx.next + 1], handler[h].seen)

Inserting(h) == In(h, "inserting") /\ tx.next < Len(handler[h].request.events)

\* Mutant: the statement runs on the pool, outside the transaction.
InsertAutocommit(h) ==
  /\ Inserting(h)
  /\ Storable(NextRow(h))
  /\ tx' = [tx EXCEPT !.next = tx.next + 1]
  /\ rows' = IF Has(rows, NextRow(h)) THEN rows ELSE Append(rows, NextRow(h))
  /\ UNCHANGED <<schema, singleton, server, handler, reported, answer, clock,
                 faults>>

\* INSERT .. ON CONFLICT(device_id, boot_id, seq) DO NOTHING.  A value that
\* does not convert, a CHECK or the trigger fails it: rollback, and 500.
Insert(h) ==
  /\ Inserting(h)
  /\ IF Storable(NextRow(h))
     THEN /\ tx' = [next |-> tx.next + 1,
                    rows |-> IF Has(rows \o tx.rows, NextRow(h)) THEN tx.rows
                             ELSE Append(tx.rows, NextRow(h))]
          /\ UNCHANGED <<handler, answer>>
     ELSE tx' = NoTx /\ Answer(h, "persistence_failed")
  /\ UNCHANGED <<file, server, reported, clock, faults>>

Commit(h) ==
  /\ In(h, "inserting")
  /\ tx.next = Len(handler[h].request.events)
  /\ rows' = rows \o tx.rows
  /\ tx' = NoTx
  /\ Enter(h, "saved")
  /\ UNCHANGED <<schema, singleton, server, reported, answer, clock, faults>>

Aborted(h) == tx' = IF In(h, "inserting") THEN NoTx ELSE tx

\* Mutant: the error of save_device_events is dropped.
DatabaseFailsUnnoticed(h) ==
  /\ handler[h].stage \in {"queued", "inserting"}
  /\ faults < MaxFaults
  /\ faults' = faults + 1
  /\ Enter(h, "saved")
  /\ Aborted(h)
  /\ UNCHANGED <<file, server, reported, answer, clock>>

\* No connection in time, a statement or the commit fails: rollback, and 500.
DatabaseFails(h) ==
  /\ handler[h].stage \in {"queued", "listing", "inserting"}
  /\ faults < MaxFaults
  /\ faults' = faults + 1
  /\ Answer(h, "persistence_failed")
  /\ Aborted(h)
  /\ UNCHANGED <<file, server, reported, clock>>

\* The commit has returned.
Record(h) ==
  /\ In(h, "saved")
  /\ Reported(h, handler[h].request, handler[h].seen)
  /\ UNCHANGED <<file, server, tx, clock, faults>>

\* The client is gone: the handler is dropped where it awaits.
Cancel(h) ==
  /\ ~In(h, "idle")
  /\ Leave(h)
  /\ Aborted(h)
  /\ UNCHANGED <<file, server, reported, answer, clock, faults>>
-----------------------------------------------------------------------------
(* The event history. *)

\* GET /api/events with a limit.
AskEvents(h, limit) ==
  /\ server = "serving" /\ In(h, "idle")
  /\ IF limit \in 1..MaxLimit
     THEN Take(h, "listing", [limit |-> limit], 0) /\ UNCHANGED answer
     ELSE Answer(h, "invalid_event_limit")
  /\ UNCHANGED <<file, server, tx, reported, clock, faults>>

\* Row j is listed before row i: ORDER BY received_at DESC, id DESC.
Before(j, i) ==
  \/ rows[j].received_at > rows[i].received_at
  \/ rows[j].received_at = rows[i].received_at /\ j > i

\* The rows that load_recent_events returns.
Recent(limit) ==
  {i \in 1..Len(rows) : Cardinality({j \in 1..Len(rows) : Before(j, i)}) < limit}

\* One row that cannot be read fails the query.
ListEvents(h) ==
  /\ In(h, "listing") /\ Free
  /\ Answer(h, IF \A i \in Recent(handler[h].request.limit) : Readable(rows[i])
               THEN "ok" ELSE "persistence_failed")
  /\ UNCHANGED <<file, server, tx, reported, clock, faults>>

Next == \/ Launch \/ CreateTables \/ EnforceFields \/ InsertDefault \/ Serve
        \/ Crash
        \/ \E h \in Handlers :
             \/ \E r \in Requests : Refuse(h, r) \/ Accept(h, r)
             \/ \E limit \in Limits : AskEvents(h, limit)
             \/ Begin(h) \/ Insert(h) \/ Commit(h)
             \/ DatabaseFails(h) \/ Record(h) \/ Cancel(h)
             \/ ListEvents(h)

Spec == Init /\ [][Next]_vars

\* A process that is down is started again, and its start goes on.
FairSpec == /\ Spec
            /\ WF_vars(Launch) /\ WF_vars(CreateTables)
            /\ WF_vars(EnforceFields) /\ WF_vars(InsertDefault) /\ WF_vars(Serve)
-----------------------------------------------------------------------------
(* Correctness. *)

\* Every variable holds what its type says, and a transaction is open for at
\* most one handler, which alone has uncommitted rows.
TypeOK ==
  /\ schema \in 0..3
  /\ server \in {"down", "migrating", "seeded", "serving"}
  /\ handler \in [Handlers ->
       [stage : {"idle", "queued", "inserting", "saved", "listing"},
        request : Requests \cup {Malformed} \cup [limit : 1..MaxLimit],
        seen : 0..MaxClock]]
  /\ answer \in {200, 400, 403, 500}
  /\ \A g, h \in Handlers : In(g, "inserting") /\ In(h, "inserting") => g = h
  /\ Free => tx = NoTx

\* While the database works no request is answered 500: whatever validation
\* accepts converts, meets the constraints and triggers, and can be read back.
\* A batch accepted and then refused by the table would be sent for ever.
ServerErrorsAreFaults == faults = 0 => answer # 500

\* A server that accepts requests can read its whole history: one bad row, also
\* one left by an earlier release, would fail every poll of the dashboard.
HistoryReadable ==
  server = "serving" => \A i \in 1..Len(rows) : Readable(rows[i])

\* The report shown is of a heartbeat whose events are stored (protocol.md:120,
\* 138): no failed, dropped or killed transaction is reported as received.
ReportedIsStored ==
  reported # NoReport =>
    \A i \in 1..Len(reported.request.events) :
      Has(rows, RowOf(reported.request, reported.request.events[i],
                      reported.last_seen))

\* The table, read back, is the log of EventLog: batches arrive whole, retries
\* add nothing, and what is read back is what was sent.  Whenever it is served
\* all of it can be read (HistoryReadable).
Carried(r, t) ==
  {Event(r.device_id, r.boot_id, r.events[i].type, r.events[i].value,
         r.events[i].seq, r.events[i].uptime_ms, t) : i \in 1..Len(r.events)}

AcceptedBatches ==
  {Carried(r, t) :
     r \in {q \in Requests : Refusal(q) = "ok"}, t \in 0..MaxClock}

History == [i \in 1..Len(rows) |-> Loaded(rows[i])]

Log == INSTANCE EventLog WITH log <- History, Batches <- AcceptedBatches

ImplementsLog == Log!Spec

\* A server whose rows are sound always comes up again: however often its start
\* is cut off, no step of it fails because it was done before.
EventuallyServes ==
  (\A i \in 1..Len(rows) : FieldsMatch(rows[i])) ~> server = "serving"
=============================================================================
