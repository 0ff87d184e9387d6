# LumaHome in TLA+

LumaHome is a night light (an Arduino UNO R4, `firmware/`), a server (Rust,
axum, SQLite, `backend/`) and a dashboard page (`backend/static/`). The device
works alone; it talks to the server in *heartbeats*, HTTP requests that carry
its report and its events and bring back the desired state and an
acknowledgement. This directory holds a TLA+ model of each part that keeps
state, the TLC runs that check it and TLAPS proofs about the core.

Check a run with `tlc -config MCxxx.cfg Module`, the proofs of a module with
`tlapm ModuleProofs.tla`. `PROJECT.json` lists the runs, the source lines of
every definition, the hazards and the theorems.

## Inventory

| Component | State | Operations | Module |
|---|---|---|---|
| Event buffer (`EventBuffer.cpp`) | ring, head, count, next number, drop counter | append, get, acknowledgeThrough | `EventBuffer`, abstractly `EventQueue` |
| Event delivery (`main.cpp`, `BackendClient.cpp`, `api.rs`, `state.rs`, `persistence.rs`) | the queue, the open call, requests abandoned, table `device_events` | record, send, give up, receive, apply, acknowledge, reset; validate, insert, answer | `EventDelivery` |
| Configuration (`ConfigStore.cpp`, `main.cpp`) | EEPROM record, its cached copy, configuration, dirty flag and timer | load, save, serial commands, desired state, power loss | `ConfigStore` |
| Desired state (`state.rs`, `persistence.rs`) | row, copy in memory, mutex, handlers | read, set mode, set light, crash, start | `DesiredState`, abstractly `DesiredRegister` |
| Synchronisation (`main.cpp`, `BackendClient.cpp`, `state.rs`) | device's copy, its record, open call, reported version | heartbeat, record, answer, apply, override, save, reset | `DesiredSync` |
| Light (`LightSensor.cpp`, `ModeController.cpp`, `LightController.cpp`, `main.cpp`) | samples, sum, mean, mode, command, lamp | sample, serial commands, desired state | `LightControl` |
| Connectivity (`NetworkManager.cpp`, `BackendClient.cpp`) | attempt, backoff, heartbeat schedule, online flag | one pass of `loop()`, serial `heartbeat` | `Connectivity` |
| Online display (`state.rs:191-203, 315-330`) | `last_seen_instant` | record a heartbeat, snapshot | `OnlineStatus` |
| Event store (`main.rs`, `api.rs`, `persistence.rs`, `error.rs`, `migrations/`) | schema version, both tables, the connection, the report | migrate, seed, serve; validate, insert, commit, record; list | `EventStore`, abstractly `EventLog` |
| Dashboard (`app.js`) | `requestInFlight`, `currentState` | poll, click, render | `Dashboard` |
| HTTP exchange (`BackendClient.cpp:18-95, 310-445`) | buffers | parse, write | planned |
| API routing, console, LEDs, build | none of their own | | not modelled |

How they interact. `loop()` is one thread: it samples the light, runs serial
commands, saves the configuration, updates the WiFi, then may run one heartbeat,
a *blocking* call; afterwards it applies the desired state and, last, the
acknowledgement. The server runs any number of handlers; `desired_mutation`
serialises those that touch the desired state, SQLite those that touch the
database, for which there is one connection. The page polls and posts, one of them at a time.

What is hard: a heartbeat is given up while its handler still runs; answers and
requests are lost after the transaction has committed; the device is reset
with events in RAM and a configuration not yet saved; power fails inside an
EEPROM write; the server dies, or drops a handler, between the database and the
memory; buffers, sequence numbers, versions and timers meet their limits.
A server is updated over a database that an earlier release wrote.
`PROJECT.json` lists each hazard at its line with the properties aimed at it.

What makes each component correct, in a phrase: the buffer is a bounded FIFO;
delivery forgets no event on a false acknowledgement and stores none twice; the
record is the configuration once nothing is left to save; a version names one
desired state for ever; the device at the desired version runs the desired
state; the light follows mode and sensor and every change is recorded; the device
keeps trying; a device that is online is shown online; the history is readable and
only grows, by whole batches; the page never goes back.

## The modules

**EventBuffer** keeps the fields of the C++ class. `append` is three
actions, one per outcome. The loop of `acknowledgeThrough` is one action: it
stops after the k events that `StopsAfter` describes. A payload stands for type,
value and uptime. **EventQueue** is the same without array or indices.

**EventDelivery** uses the operators of `EventQueue` for the device's queue. A
call is open from `SendHeartbeat` until it is processed or given up; its request
passes the stages *sent*, *started* (`received_at` taken), *committed* or *dead*.
A response is only usable while its call is open, since each call has its own
connection. `GiveUp` leaves a request that may still take effect among `stale`;
`ServeStale` serves it at any later time. `applyDesiredState` may record events
before `processEventsAck` runs (`RecordApplied`, then `ProcessAck`), as in
`loop()`. A restart of the server is all its handlers dying: it keeps no
event in memory. `boot` indexes the boots; `BootId` gives the 32-bit number each
drew. `gone`, `acknowledged` and `late` are history variables.

**ConfigStore** joins `ConfigStore.cpp` with what `main.cpp` does around it. A
record is its version, its fields and its checksum, which is modelled by what it was
computed from and so fits nothing else (`IsValidV2`, `IsValidV1`). A write that fails or
is cut off by the power leaves a mixture of the old record and the new one (`Torn`):
each field and the checksum of either, and, where bytes of both meet, any
`configVersion` and a checksum that fits nothing. What is written next may be
torn over it in turn. The first state
has any record that an earlier release left, or junk. `held` collects the configurations
the device has had. A change of configuration is one of the three that
call `markConfigDirty`. Time is counted in ticks until the save is due.

**DesiredState** has a slot per concurrent request. A handler waits for the
mutex (*waiting*), sends its statement (*saving*), and once the row is changed
resumes (*saved*). `Cancel` drops it at any await, with the statement possibly
still taking effect; `Crash` kills the process. The mutex is the guard `Enter`:
no other handler is saving or saved. **DesiredRegister** is the
abstract server: one value, which an accepted command replaces by the next
version.

**DesiredSync** extends `DesiredRegister`: the server is the register that
`DesiredState` is shown to implement, so its internals need not be repeated.
The device's copy carries a history flag, whether a serial command changed it
since its version was adopted. `Reset` restores the record or, if it was torn,
the defaults. The device starts unsynchronised, with the defaults or with a migrated
record of version 1. Serial commands and saves wait while a call is open,
because `loop()` blocks. Report and answer are two steps, as `record_heartbeat` releases
the memory lock between them.

**LightControl** has the moving average with its incremental sum, the two
thresholds, and the three callers that change mode, command or light. The
variable `reported` is what the queued events tell.

**Connectivity** runs `loop()`'s pass over the network and the client with a
`millis()` that wraps. Times are compared by unsigned difference, as in
the code; the history variables `idle`, `unbeaten` and `answered` count true time,
the last from a heartbeat that succeeded until one fails.
A heartbeat blocks for up to `MaxCall`, `HTTP_TRANSACTION_TIMEOUT_MS`: the library's
connect and the loops that read end by then, and its writes are assumed to.

**OnlineStatus** extends `Connectivity`: a pass with a heartbeat is also an
exchange with the server, which records it at any moment of the call
(`Recorded`) or not at all; a call given up may be recorded at any later time
(`RecordLate`), any number of times, as several such handlers may be left; the
server may be restarted. `age` is the time since `last_seen_instant`.

**EventStore** is the backend around the table of events. `Launch` to `Serve`
are the start in the steps at which it may be killed: each migration is a
transaction of its own. A handler passes the stages *queued* (for the
connection), *inserting* and *saved*; `DatabaseFails` and `Cancel` may end it at
each. The triggers of migration 0003 are `FieldsMatch`, and its final `UPDATE`,
which meets the new trigger, is the test of `EnforceFields`. The first start
finds any of `OldFiles`. Requests hold u64 values and the table i64, of which
`MaxInt` is the greatest. A row's `id` is its index. A file's table has no two rows with
one key, by its `UNIQUE` constraint. **EventLog** is what readers are promised: a
list that grows by the unknown events of a batch, all at once and in their order.
The mapping (`History`) reads back every row, whether the API is up or not.

**Dashboard** abstracts the desired state and the event history to their
versions. A poll awaits two requests, an update one; they wait, get an outcome,
and are settled when their handler resumes. A response without a usable body is
an unreachable server to the page: rendering it fails.

## The runs

Every run finishes within a few minutes on two workers.

| Run | Bounds | Properties |
|---|---|---|
| `event_buffer` | 3 slots, numbers to 7, 2 payloads | `ContiguousWindow`; `ImplementsQueue` (refinement of `EventQueue`) |
| `delivery_one_boot` | 3 slots, batches of 2, 5 numbers, 2 failures | `HistoryInOrder`, `BatchesAccepted`, `EventuallyLeaves` |
| `delivery_resets` | 2 slots, batches of 2, 3 numbers, 2 boots, 1 failure | `AckedImpliesStored`, `NothingLost`, `OneRowPerIdentity`, `GapsAreDrops` |
| `delivery_repeated_id` | 2 slots, batches of 1, 2 numbers, 2 boots with the same boot ID | *violated*: `AckedImpliesStored` |
| `config_store` | versions to 1, 3 commands, 2 failed writes, 2 boots | `PersistedUnlessSuspect`, `NoInventedRecord`, `DurableVersionMonotonic`, `EventuallyClean` |
| `config_stale_cache` | versions to 2, otherwise the same | *violated*: `CleanMeansPersisted` |
| `desired_state` | 2 handlers, versions to 3 | `VersionNamesOneState`, `ShownIsDurable`, `ImplementsRegister` (refinement of `DesiredRegister`), `EventuallyServed` |
| `desired_sync` | versions to 3, 2 faults, 2 overrides | `SameVersionSameState`, `ReportNotAhead`, `EventuallySynced` |
| `light_control` | 3 samples, readings 0 to 4, thresholds 2 and 3 | `FilteredIsMean`, `LightFollowsMode`, `NoFlicker`, `EventsTellState` |
| `connectivity` | period 10, timeout 3, backoff 1 to 3, interval 3, calls and passes to 2, online timeout 9 | `RetryInTime`, `HeartbeatInTime`, `OnlineIsAnswered`, `StaysOnline` |
| `event_store` | 2 handlers, 12 requests, 4 files, i64 to 3, batches of 2, 1 fault | `ServerErrorsAreFaults`, `HistoryReadable`, `ReportedIsStored`, `ImplementsLog` (refinement of `EventLog`), `EventuallyServes` |
| `dashboard` | 4 versions each of state and history, 3 clicks, 3 failures | `NeverBackwards`, `EventuallyCurrent` |

`connectivity` is a run of `OnlineStatus`, whose `Pass` takes every step of
`Connectivity`'s `LoopPass`. Each module also has a type invariant; those of
`EventBuffer`, `EventDelivery`, `ConfigStore` and `DesiredSync` are proved and not run
again.

Why the bounds are enough. Three slots and seven numbers let the ring wrap
around twice and run out of numbers with any number of events in it. A buffer
of two or three with batches of two meets every relation between batch and
queue: all of it, a part, overtaken by overflow. Two boots let a request of
one reach the server in the next. Three commands, two failures and two boots
let a configuration change, fail to be saved and change back, and let one torn record
be written over another; two versions are enough for one to be older. Two handlers suffice for
a mutex's races, and the last version is reached. A clock of 10
wraps around in every phase of every timer, whose longest is 3; the online
timeout of 9 is exactly what the assumption of `OnlineStatus` asks for, so that one
tick less would break it. The requests of `event_store` end at the greatest
integers, overlap like a retry after an overflow, and fail each test of the
validation once; its files are new, sound, and bad in each of two ways. Two handlers are one
with the connection and one that waits. Where a theorem
below covers the property, the bounds no longer matter.

`DurableVersionMonotonic` is about a boot that has restored or saved a record. Without
that condition TLC finds a corner in which it fails: a boot that meets a torn record
saves the defaults; this write fails too, in just the way that completes the record the
torn one was made from; the retry then replaces that record by the defaults, whose
version is 0. The device runs the defaults throughout, as `load` intends.

In `ConfigStore` the device really may stop for good (power off with the boots
used up), so deadlock is not checked there.

### Two disagreements

- `config_stale_cache`: `save` skips the write when the configuration equals the
  one it last verified. After a failed write the EEPROM may hold something
  else. Example: saved configuration A; a command changes to B; writing B damages
  the record; before the retry a command changes back to A; the retry compares
  with the copy, writes nothing, returns true and clears `configDirty`. The next
  boot finds no readable record. firmware/README.md:40-42 says that a failed
  verification leaves the configuration dirty and retries.
  `PersistedUnlessSuspect` states what does hold.
- `delivery_repeated_id`: the docs say a reset changes the boot ID, and the unique
  key depends on it. `generateBootId` mixes `micros()` and two analog readings
  and compares the result with nothing, so a repeat is possible; the run shows
  what it costs. `delivery_resets` and the theorem assume `DistinctBootIds`.

### Fairness

Liveness is checked under weak fairness of the steps a running system takes by
itself, with every fault bounded by a counter:

- `EventDelivery`, `DesiredSync`: `loop()` sends, gives up, receives, applies and
  acknowledges; the open request is served. Nothing is assumed of requests given
  up, of commands, or of faults.
- `ConfigStore`: time passes and the loop calls `updateConfigSave`. Only a
  bounded number of commands and failed writes keeps a change unsaved: each
  command restarts the interval, by design.
- `DesiredState`: a statement returns, with success or an error, and its handler
  resumes. Passing the mutex is strongly fair: tokio's `Mutex` is first come,
  first served, so a waiting handler whose turn recurs gets it.
- `EventStore`: a process that is down is started again, and its start goes on;
  nothing is assumed of handlers. A file with a bad row is excepted: migration
  0003 refuses it at every start, as intended.
- `Dashboard`: the timer fires, fetches settle, handlers resume. Clicks are bounded: a
  click at every moment between two requests would put off each poll, as
  `loadState` returns while `requestInFlight` is set.

## The proofs

Everything below holds for every value of the constants, under the
assumptions named in the modules (`BufferAssumption` and so on: sizes are
positive, `Manual` is a mode).

**EventBufferProofs.** `ContiguousWindow` with the type invariant is
inductive: the buffered numbers are an interval ending at the last one given
out. From it the refinement follows: the mapped sequence of the ring after a
step is the queue after `Push`, `Refuse` or `Acknowledge`. The lemma
`RingIndex` replaces `%` by a comparison, which the provers need.

**EventDeliveryProofs.** Four inductive invariants, each relying on those before it.
Types come first (`DeliveryTypeCorrect`). `QueueInv` is about queue and requests:
the queue is ordered and holds the newest numbers (`QueueOrdered`), requests and
rows belong to the boot that sent them (`RequestsOwned`, `RowsOwned`), and what the
queue holds up to the number sent is in the open call's batch, even after overflow
and after events recorded while the response is applied (`RequestsCoverQueue`); it
gives `BatchesAccepted`. `OneRowPerIdentity` needs nothing of it. `OrderInv` gives
`HistoryInOrder`: a queued event is stored already if a later one of its boot is
(`RowsCoverQueue`), no stamp is ahead of the clock (`StampsPast`), and what a handler
has still to store fits between the rows and what other handlers have
(`StartedFitRows`, `StartedFitEachOther`), in whatever order they commit. `StoreInv` is the last layer and the only one that needs
`DistinctBootIds`, since an identity already in the table must be of the same boot:
a committed request's events are in the table (`AnsweredIsStored`), the numbers
before an event of a request are in it, stored or dropped (`RequestsComplete`), and the same of
the queue is `NothingLost`. From it follow `AckedImpliesStored` and `GapsAreDrops`.
Most actions are proved once by their shape: the queue is moved
(`QueueMoved`), a request is served or let go (`RequestsKept`).

**ConfigStoreProofs.** `CopyIsRecord` (the cached copy is the record unless a write
has failed since) and `CleanIsCopied` (with nothing to save, the copy is the
running configuration) together give `PersistedUnlessSuspect`; neither alone
is inductive. For the torn records the argument goes by checksums: a mixture holds the
checksum of one of its two records or of neither (`TornFacts`), so what the
checksum in the EEPROM was computed from has been the device's configuration
(`SumIsHeld`, with `RunningIsHeld`), whatever the fields beside it; a valid record has
the fields of its checksum, hence `NoInventedRecord`. Once a boot has restored or saved,
that configuration is not newer than the running one (`SumNotAhead`), hence
`DurableVersionMonotonic`.

**DesiredStateProofs.** `OneHolder` is mutual exclusion. `HolderEvolves` says that
what a handler saves is a successor of the copy, `RowFollows` that the row
is the copy or a successor of it, `ShownBehind` that no answer is ahead of what
readers see. The refinement maps the register to the copy, or to the row
while the process is down; a crash may be a step of the register, when it
leaves a saved state that memory had not taken over.

**DesiredSyncProofs.** `Follows` holds of the device's copy and of its record: not
ahead of the desired state, and equal to it at the same version unless
overridden. `AnswerFollows` says the same of an answer under way. `ReportsBehind`
bounds every version on its way to the server by the desired version, which
never decreases.

**LightControlProofs.** `FilteredIsMean` is about a sum over a set of indices, which
`FoldFunctionOnSet` defines by recursion. Its laws are proved first: a sum splits at any
element (`SumSplit`), depends on the summed values only (`SumSame`) and is at
most the number of elements times their bound (`SumBound`). They need induction,
which is derived from the library's least-element theorem `WFMin` (`Induction`, then
`SubsetInduction` for subsets of a finite set); the theorems that take a
predicate as an operator cannot be used here. The invariant adds to the properties
that the ring fills from its beginning (`FillsInOrder`): the sample overwritten is
in the sum exactly when the window is full (`SumFollows`). `Decided` is what every caller
leaves behind; with `RecordChanges` it gives `EventsTellState`. Hysteresis
(`HysteresisHolds`) needs `LightFollowsMode` for the case without any sample.

**EventStoreProofs.** `AcceptedStorable` says that validation is as strict as
the table: each row of an accepted batch converts, meets the constraints and the
triggers. `SoundReadable` says that such a row can be read back. The
invariant then follows a batch through the table: what is queued was accepted
(`Validated`), the events processed are among the rows inserted or stored
(`Processed`), after the commit all are stored (`Committed`), and once
migration 0003 has run every row is sound (`FileSound`, `Migrated`). For the
refinement of `EventLog`, `TxIsNew` says that the rows of the open
transaction are exactly those of the events processed that the table lacks, in the
order of their numbers. An event the table has with the transaction's rows added
but not without them would have the number of an earlier one of its batch;
`SeqsIncrease`, by induction from the loop of `validate_event_batch`, excludes it.
The table changes at a commit only (`OnlyCommits`), which is a step of the log
(`CommitIsLog`).

**DashboardProofs** holds the proofs about the page and about the device's timers
and online flag. A step of the composition is a step of `Connectivity` or
leaves the device alone, so what is proved of the device holds in it. The timers need
that no time measured exceeds `Wrap`, from `ConnectivityAssumption`. `FlagIsAnswered` relates
the online flag to true time: `FlagFollows` says that `answered` is the time since the
last heartbeat ended while the flag is on, and that no success counts while the WiFi is
up and the flag off, since a WiFi found up again asks for a heartbeat in the same
pass; `HeartbeatInTime` then bounds it. For `StaysOnline` the
invariant bounds the age by the time since the last heartbeat ended plus one
call, and that time by the interval, one pass and one call: this is
where `Interval + 2 * MaxCall + MaxPass <= OnlineTimeout` is needed. In
the code 2000 + 2 * 1500 ms leave a pass of `loop()` one of the six seconds.
For the page, `OneAtATime`: `requestInFlight` is a lock, so that a poll's two
requests or one update are awaited, never both. `Fresh` says that what has been
answered is not older than what is rendered; it would fail for the answer to a
poll if an update could be rendered first.

Every invariant, action property and refinement that a passing run checks is proved.
Checked by TLC only are the six liveness properties (`EventuallyLeaves`,
`EventuallyClean`, `EventuallyServed`, `EventuallySynced`, `EventuallyServes`,
`EventuallyCurrent`): the provers have no fairness and no `ENABLED`.

## Not modelled

HTTP parsing and the JSON writer, including the length of a request and the 32-bit
limit of a version (a heartbeat succeeds or fails); the API's routing, message
texts, health and static files; the console, LEDs and buzzer. The heartbeat interval is constant,
as the server always sends 2000 ms. The checksum of a record is taken to
fit only the fields it was computed from: collisions of its 32 bits are left out. The server's wall clock, from which `received_at` is taken, is
assumed not to go back. A server moved to another database is outside the models.

## Plan

Written first, because the rest relies on them: the buffer, delivery,
configuration and desired state. Then their composition in `DesiredSync`, then
light, connectivity and dashboard, then the event store from the
migrations to the query, and the online display over connectivity. Left, in
this order:

1. `HttpExchange`: the header loop, `parseContentLength`, `readLine` and the fixed
   writer against their buffers and deadline; the 32-bit version.
2. Composition: `ConfigStore` inside `DesiredSync` in place of its `Save` and
   `Reset`, and `EventDelivery` over `EventLog`.
