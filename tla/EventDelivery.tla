--------------------------- MODULE EventDelivery ---------------------------
(***************************************************************************)
(* At-least-once delivery of device events.  The firmware (main.cpp,       *)
(* BackendClient.cpp) sends the oldest events of its queue with every      *)
(* heartbeat and drops them when the response acknowledges them; the       *)
(* backend (api.rs, state.rs, persistence.rs) inserts them in one SQLite   *)
(* transaction and then answers.  A heartbeat is a blocking call on a      *)
(* connection of its own: a response reaches the device only while that    *)
(* call is open.  Requests of calls given up may still be on their way or  *)
(* in a handler; they arrive, commit or die at any later time.  The device *)
(* may be reset at any step; a killed backend is all its handlers dying.   *)
(***************************************************************************)
EXTENDS Naturals, Sequences

CONSTANTS Capacity,    \* EVENT_BUFFER_CAPACITY
          MaxBatch,    \* MAX_EVENTS_PER_HEARTBEAT
          MaxSeq,      \* UINT32_MAX
          MaxBoots,    \* bound: boots of the device
          MaxFaults,   \* bound: open calls that fail
          BootId       \* the boot ID each boot draws (generateBootId)

Boots == 1..MaxBoots

ASSUME DeliveryAssumption == /\ Capacity \in Nat \ {0}
                             /\ MaxBatch \in Nat \ {0}
                             /\ MaxSeq \in Nat \ {0}
                             /\ MaxBoots \in Nat \ {0}
                             /\ MaxFaults \in Nat

VARIABLES
  \* the device, lost on reset
  pending,   \* the buffered events, oldest first
  issued,    \* sequence numbers given out
  boot,      \* which boot is running
  phase,     \* "idle", "waiting" for a response, or "applying" one
  changes,   \* events applyDesiredState is still to record
  call,      \* the open heartbeat call, NoCall when idle
  \* the rest of the world
  stale,     \* requests of calls the device has given up
  rows,      \* table device_events
  clock,     \* orders the received_at timestamps
  faults,
  \* history
  gone,          \* <<boot, seq>> of events lost to a full buffer
  acknowledged,  \* <<boot, seq>> of events removed by an acknowledgement
  late           \* boots with a request that arrived after it was given up

queue == <<pending, issued>>
world == <<stale, rows, clock>>
history == <<gone, acknowledged, late>>
vars == <<queue, boot, phase, changes, call, world, faults, history>>

\* The operators of the device's queue; its two statistics are left out.
\* The content of an event is the boot that observed it.
Q == INSTANCE EventQueue WITH Payload <- Boots, dropped <- 0, acked <- 0

NoCall == [boot |-> 0, events |-> <<>>, stage |-> "none", at |-> 0]

Stages == {"none", "sent", "started", "committed", "dead"}

Init == /\ pending = <<>>
        /\ issued = 0
        /\ boot = 1
        /\ phase = "idle"
        /\ changes = 0
        /\ call = NoCall
        /\ stale = {}
        /\ rows = {}
        /\ clock = 0
        /\ faults = 0
        /\ gone = {}
        /\ acknowledged = {}
        /\ late = {}
-----------------------------------------------------------------------------
(* The device. *)

\* appendEvent: a full queue loses its oldest event, and when the numbers have
\* run out the new event is lost.
Record ==
  IF issued < MaxSeq
  THEN /\ pending' = Q!Pushed(pending, [seq |-> issued + 1, payload |-> boot])
       /\ issued' = issued + 1
       /\ gone' = IF Len(pending) = Capacity
                  THEN gone \cup {<<boot, Head(pending).seq>>} ELSE gone
  ELSE UNCHANGED <<queue, gone>>

\* A sensor sample, serial command or WiFi transition records a change.
Observe == /\ phase = "idle"
           /\ Record
           /\ UNCHANGED <<boot, phase, changes, call, world, faults, acknowledged, late>>

\* Mutant: the whole queue is sent.
BatchSizeUncapped == Len(pending)

BatchSize == IF Len(pending) < MaxBatch THEN Len(pending) ELSE MaxBatch
Batch == SubSeq(pending, 1, BatchSize)

\* buildHeartbeatRequest, connect and write: the loop now blocks.
SendHeartbeat ==
  /\ phase = "idle"
  /\ phase' = "waiting"
  /\ call' = [boot |-> boot, events |-> Batch, stage |-> "sent", at |-> 0]
  /\ UNCHANGED <<queue, boot, changes, world, faults, history>>

\* What a call that is no longer open leaves behind, if it is still to take effect.
Orphan(r) == IF r.stage \in {"sent", "started"} THEN {r} ELSE {}

\* Mutant: there is no deadline.
GiveUpNever == phase = "waiting" /\ UNCHANGED vars

\* No usable response before the deadline.  The connection is closed; the
\* request never left, or is left behind for the backend to find.
GiveUp ==
  /\ phase = "waiting"
  /\ IF call.stage = "dead"
     THEN UNCHANGED <<stale, faults>>
     ELSE /\ faults < MaxFaults
          /\ faults' = faults + 1
          /\ \/ stale' = stale \cup Orphan(call)
             \/ call.stage = "sent" /\ UNCHANGED stale
  /\ phase' = "idle"
  /\ call' = NoCall
  /\ UNCHANGED <<queue, boot, changes, rows, clock, history>>

\* Mutant: the backend answers before its transaction has committed.
AnsweredEarly(r) == r.stage \in {"started", "committed"}

Answered(r) == r.stage = "committed"

\* A complete, valid response; applyDesiredState will record 0 to 2 events.
Receive ==
  /\ phase = "waiting"
  /\ Answered(call)
  /\ phase' = "applying"
  /\ changes' \in 0..2
  /\ UNCHANGED <<queue, boot, call, world, faults, history>>

RecordApplied ==
  /\ phase = "applying"
  /\ changes > 0
  /\ Record
  /\ changes' = changes - 1
  /\ UNCHANGED <<boot, phase, call, world, faults, acknowledged, late>>

SentHighest(r) == r.events[Len(r.events)].seq

\* The backend acknowledges the last submitted event (api.rs:195).
EventsAck(r) == r.events[Len(r.events)].seq

\* processEventsAck rejects an acknowledgement of what this call did not send.
AckAccepted(r) == Len(r.events) > 0 /\ EventsAck(r) <= SentHighest(r)

\* Mutant: any acknowledgement empties the queue.
ProcessAckClearing ==
  /\ phase = "applying"
  /\ changes = 0
  /\ pending' = IF AckAccepted(call) THEN <<>> ELSE pending
  /\ phase' = "idle"
  /\ call' = NoCall
  /\ UNCHANGED <<issued, boot, changes, world, faults, history>>

\* Then the call is over.
ProcessAck ==
  /\ phase = "applying"
  /\ changes = 0
  /\ IF AckAccepted(call)
     THEN \E k \in 0..Len(pending) :
            /\ Q!Covers(pending, EventsAck(call), k)
            /\ pending' = SubSeq(pending, k + 1, Len(pending))
            /\ acknowledged' = acknowledged \cup {<<boot, pending[i].seq>> : i \in 1..k}
            /\ UNCHANGED issued
     ELSE UNCHANGED <<queue, acknowledged>>
  /\ phase' = "idle"
  /\ call' = NoCall
  /\ UNCHANGED <<boot, changes, world, faults, gone, late>>

\* Power loss or reset at any step: RAM is gone, a new boot ID is drawn.
Reset ==
  /\ boot < MaxBoots
  /\ boot' = boot + 1
  /\ pending' = <<>>
  /\ issued' = 0
  /\ phase' = "idle"
  /\ changes' = 0
  /\ call' = NoCall
  /\ stale' = stale \cup Orphan(call)
  /\ UNCHANGED <<rows, clock, faults, history>>

-----------------------------------------------------------------------------
(* The backend, for a request r of the open call or of one given up. *)

\* validate_event_batch: at most MaxBatch events, positive increasing numbers.
ValidBatch(events) ==
  /\ Len(events) <= MaxBatch
  /\ \A i \in 1..Len(events) :
       events[i].seq > (IF i = 1 THEN 0 ELSE events[i - 1].seq)

Stored(id, seq) == \E row \in rows : row.bootId = id /\ row.seq = seq

\* Mutant: rows are inserted without looking for a conflict.
NewRowsUnchecked(r) ==
  {[bootId |-> BootId[r.boot], seq |-> r.events[i].seq,
    boot |-> r.events[i].payload, at |-> r.at] : i \in 1..Len(r.events)}

\* Mutant: received_at is taken when the transaction commits.
NewRowsStampedLate(r) ==
  {[bootId |-> BootId[r.boot], seq |-> r.events[i].seq,
    boot |-> r.events[i].payload, at |-> clock + 1] :
     i \in {j \in 1..Len(r.events) : ~Stored(BootId[r.boot], r.events[j].seq)}}

\* save_device_events: ON CONFLICT(device_id, boot_id, seq) DO NOTHING.
NewRows(r) ==
  {[bootId |-> BootId[r.boot], seq |-> r.events[i].seq,
    boot |-> r.events[i].payload, at |-> r.at] :
     i \in {j \in 1..Len(r.events) : ~Stored(BootId[r.boot], r.events[j].seq)}}

\* device_heartbeat starts: validation, then received_at is taken.
Arrive(r) ==
  /\ r.stage = "sent"
  /\ ValidBatch(r.events)
  /\ clock' = IF r.events = <<>> THEN clock ELSE clock + 1
  /\ UNCHANGED rows

\* The transaction commits; nothing of it is visible before.
Commit(r) ==
  /\ r.stage = "started"
  /\ rows' = rows \cup NewRows(r)
  /\ UNCHANGED clock

Handle(r) == Arrive(r) \/ Commit(r)

\* The request after the step; only a request with events is stamped.
Handled(r) ==
  IF r.stage = "sent"
  THEN [r EXCEPT !.stage = "started", !.at = IF r.events = <<>> THEN 0 ELSE clock + 1]
  ELSE [r EXCEPT !.stage = "committed"]

ServeCall ==
  /\ phase = "waiting"
  /\ Handle(call)
  /\ call' = Handled(call)
  /\ UNCHANGED <<queue, boot, phase, changes, stale, faults, history>>

ServeStale ==
  /\ \E r \in stale : /\ Handle(r)
                      /\ stale' = (stale \ {r}) \cup Orphan(Handled(r))
                      /\ late' = IF r.stage = "sent" THEN late \cup {r.boot} ELSE late
  /\ UNCHANGED <<queue, boot, phase, changes, call, faults, gone, acknowledged>>

\* The handler of the open call fails: the request is lost, the transaction
\* rolls back (500), or the process is killed before or after the commit.
CallDies ==
  /\ phase = "waiting"
  /\ call.stage # "dead"
  /\ faults < MaxFaults
  /\ faults' = faults + 1
  /\ call' = [call EXCEPT !.stage = "dead"]
  /\ UNCHANGED <<queue, boot, phase, changes, world, history>>

\* So may one whose client has gone: axum drops it, or there is no one to tell.
StaleDies ==
  /\ \E r \in stale : stale' = stale \ {r}
  /\ UNCHANGED <<queue, boot, phase, changes, call, rows, clock, faults, history>>

Next == \/ Observe \/ SendHeartbeat \/ GiveUp \/ Receive \/ RecordApplied
        \/ ProcessAck \/ Reset
        \/ ServeCall \/ ServeStale \/ CallDies \/ StaleDies

Spec == Init /\ [][Next]_vars

\* loop() keeps running and an open request is served: after the bounded
\* number of faults the network and the backend are up.
Fairness == /\ WF_vars(SendHeartbeat) /\ WF_vars(ServeCall) /\ WF_vars(Receive)
            /\ WF_vars(GiveUp) /\ WF_vars(RecordApplied) /\ WF_vars(ProcessAck)

FairSpec == Spec /\ Fairness
-----------------------------------------------------------------------------
(* Correctness. *)

Event == [seq : 1..MaxSeq, payload : Boots]

Request == [boot : 0..MaxBoots, events : Seq(Event), stage : Stages, at : Nat]

\* The queue, the calls and the table hold what their types say.
TypeOK ==
  /\ pending \in Seq(Event) /\ Len(pending) <= Capacity
  /\ issued \in 0..MaxSeq
  /\ boot \in Boots
  /\ phase \in {"idle", "waiting", "applying"}
  /\ changes \in 0..2
  /\ call \in Request
  /\ stale \subseteq Request
  /\ \A row \in rows : row.seq \in 1..MaxSeq /\ row.boot \in Boots /\ row.at \in Nat
  /\ clock \in Nat
  /\ faults \in 0..MaxFaults

\* The boot IDs that were drawn are distinct (firmware/README.md:482).
DistinctBootIds ==
  \A b, c \in Boots : BootId[b] = BootId[c] => b = c

\* An event the device has removed on an acknowledgement is in the database:
\* whatever was lost, late, retried or reset, the device never forgets an
\* event on the strength of a batch that did not commit.
AckedImpliesStored ==
  \A e \in acknowledged :
    \E row \in rows : row.boot = e[1] /\ row.seq = e[2]

\* Retries and late handlers store an event once: one row per identity, and
\* it keeps the content of its first commit.
OneRowPerIdentity ==
  \A r1, r2 \in rows : r1.bootId = r2.bootId /\ r1.seq = r2.seq => r1 = r2

StoredFrom(b, seq) == \E row \in rows : row.boot = b /\ row.seq = seq

\* A gap in the stored history of a boot is an event the full buffer gave up,
\* never one the protocol skipped.
GapsAreDrops ==
  \A row \in rows : \A s \in 1..(row.seq - 1) :
    StoredFrom(row.boot, s) \/ <<row.boot, s>> \in gone

\* Every event the running boot has numbered is buffered, stored, or given up by
\* the full buffer, at every moment of a call and of what is left of others.
NothingLost ==
  \A s \in 1..issued :
    \/ \E i \in 1..Len(pending) : pending[i].seq = s
    \/ StoredFrom(boot, s)
    \/ <<boot, s>> \in gone

\* The history API sorts by received_at.  For a boot whose requests all arrived
\* while their calls were open, that is the order in which the device numbered
\* its events, however slowly handlers commit and whatever the buffer dropped.
HistoryInOrder ==
  \A r1, r2 \in rows :
    r1.boot = r2.boot /\ r1.seq < r2.seq /\ r1.boot \notin late => r1.at <= r2.at

\* The backend never refuses a batch the firmware builds: a refused batch
\* would be rebuilt and refused for ever.
BatchesAccepted == \A r \in {call} \cup stale : ValidBatch(r.events)

\* A buffered event is eventually acknowledged, or given up by a full buffer,
\* or lost with a reset.
Buffered(b, s) == boot = b /\ \E i \in 1..Len(pending) : pending[i].seq = s

EventuallyLeaves ==
  \A b \in Boots, s \in 1..MaxSeq : Buffered(b, s) ~> ~Buffered(b, s)
=============================================================================
