------------------------ MODULE EventDeliveryProofs ------------------------
(***************************************************************************)
(* Proofs about event delivery, for any buffer and batch size, number of   *)
(* boots and faults.  Four layers, each on top of the ones before it:      *)
(* types; what the queue and the requests have to do with each other; the  *)
(* order of the table; and, provided no two boots draw the same boot ID,   *)
(* that an acknowledged event is stored and a missing one was dropped.     *)
(***************************************************************************)
EXTENDS EventDelivery, TLAPS

(* A request with nothing to send, the state between calls. *)
LEMMA NoCallFacts ==
  /\ NoCall \in Request
  /\ NoCall.boot = 0 /\ NoCall.events = <<>> /\ NoCall.stage = "none"
  /\ Len(NoCall.events) = 0
  /\ Orphan(NoCall) = {}
BY DeliveryAssumption DEF NoCall, Request, Stages, Orphan, Event

(* The requests that exist, with what their types say of their events. *)
Requests == {call} \cup stale

LEMMA RequestTypes ==
  ASSUME TypeOK, NEW r \in Requests
  PROVE  /\ r \in Request
         /\ r.boot \in 0..MaxBoots /\ r.events \in Seq(Event) /\ r.at \in Nat
         /\ Len(r.events) \in Nat
         /\ \A i \in 1..Len(r.events) :
              r.events[i].seq \in 1..MaxSeq /\ r.events[i].payload \in Boots
<1>1. r \in Request
  BY DEF TypeOK, Requests
<1>2. /\ r.boot \in 0..MaxBoots /\ r.events \in Seq(Event) /\ r.at \in Nat
      /\ Len(r.events) \in Nat
  BY <1>1 DEF Request
<1>3. ASSUME NEW i \in 1..Len(r.events)
      PROVE  r.events[i].seq \in 1..MaxSeq /\ r.events[i].payload \in Boots
  <2>1. r.events[i] \in Event
    BY <1>2
  <2> QED
    BY <2>1 DEF Event
<1> QED
  BY <1>1, <1>2, <1>3

LEMMA QueueTypes ==
  ASSUME TypeOK
  PROVE  /\ pending \in Seq(Event) /\ Len(pending) \in Nat /\ Len(pending) <= Capacity
         /\ \A i \in 1..Len(pending) :
              /\ pending[i] \in Event
              /\ pending[i].seq \in 1..MaxSeq /\ pending[i].payload \in Boots
         /\ issued \in 0..MaxSeq /\ boot \in Boots /\ boot \in Nat
         /\ MaxSeq \in Nat /\ MaxBatch \in Nat /\ Capacity \in Nat /\ MaxBoots \in Nat
<1>1. pending \in Seq(Event) /\ Len(pending) <= Capacity
  BY DEF TypeOK
<1>2. ASSUME NEW i \in 1..Len(pending)
      PROVE  /\ pending[i] \in Event
             /\ pending[i].seq \in 1..MaxSeq /\ pending[i].payload \in Boots
  <2>1. pending[i] \in Event
    BY <1>1
  <2> QED
    BY <2>1 DEF Event
<1> QED
  BY <1>1, <1>2, DeliveryAssumption DEF TypeOK, Boots
-----------------------------------------------------------------------------
(* The queue and the requests. *)

(* What every step but a reset does to the queue: it loses some of its oldest *)
(* events and gains at most one, which is new and numbered past all others.   *)
QueueMoved ==
  /\ boot' = boot
  /\ issued' \in issued..MaxSeq
  /\ \E d \in 0..Len(pending) :
       /\ Len(pending') \in {Len(pending) - d, Len(pending) - d + 1}
       /\ \A i \in 1..(Len(pending) - d) : pending'[i] = pending[i + d]
       /\ Len(pending') = Len(pending) - d + 1 =>
            /\ issued < issued'
            /\ pending'[Len(pending')] = [seq |-> issued', payload |-> boot]

(* No request gets other events or another boot; the call may end. *)
RequestsKept ==
  \A r \in Requests' : \/ r = NoCall
                       \/ \E q \in Requests : r.boot = q.boot /\ r.events = q.events

LEMMA StandingQueue ==
  ASSUME TypeOK, UNCHANGED <<pending, issued, boot>>
  PROVE  QueueMoved
<1>1. Len(pending) \in Nat /\ issued \in 0..MaxSeq /\ MaxSeq \in Nat
  BY QueueTypes
<1>2. 0 \in 0..Len(pending) /\ issued \in issued..MaxSeq
  BY <1>1
<1> QED
  BY <1>1, <1>2 DEF QueueMoved

(* Recording an event. *)
LEMMA RecordMoves ==
  ASSUME TypeOK, Record, boot' = boot
  PROVE  /\ pending' \in Seq(Event) /\ Len(pending') <= Capacity
         /\ issued' \in 0..MaxSeq
         /\ QueueMoved
<1> USE DeliveryAssumption
<1>0. /\ pending \in Seq(Event) /\ Len(pending) <= Capacity /\ Len(pending) \in Nat
      /\ issued \in 0..MaxSeq /\ boot \in Boots
  BY QueueTypes
<1>1. CASE issued >= MaxSeq
  <2>1. UNCHANGED <<pending, issued>>
    BY <1>0, <1>1 DEF Record, queue
  <2> QED
    BY <1>0, <2>1, StandingQueue
<1>2. CASE issued < MaxSeq
  <2> DEFINE e == [seq |-> issued + 1, payload |-> boot]
  <2>1. e \in Event
    BY <1>0, <1>2 DEF Event
  <2>2. issued' = issued + 1 /\ pending' = Q!Pushed(pending, e)
    BY <1>2 DEF Record
  <2>3. e = [seq |-> issued', payload |-> boot]
    BY <2>2
  <2> HIDE DEF e
  <2>4. PICK d \in {0, 1} :
          /\ d <= Len(pending)
          /\ Len(pending') = Len(pending) - d + 1 /\ Len(pending') <= Capacity
          /\ pending' \in Seq(Event)
          /\ \A i \in 1..(Len(pending) - d) : pending'[i] = pending[i + d]
          /\ pending'[Len(pending')] = e
    <3>1. CASE Len(pending) = Capacity
      <4>1. pending' = Append(Tail(pending), e)
        BY <2>2, <3>1 DEF Q!Pushed
      <4>2. /\ Tail(pending) \in Seq(Event) /\ Len(Tail(pending)) = Len(pending) - 1
            /\ \A i \in 1..(Len(pending) - 1) : Tail(pending)[i] = pending[i + 1]
        BY <1>0, <3>1
      <4> QED
        BY <1>0, <2>1, <3>1, <4>1, <4>2
    <3>2. CASE Len(pending) # Capacity
      <4>1. pending' = Append(pending, e)
        BY <2>2, <3>2 DEF Q!Pushed
      <4> QED
        BY <1>0, <2>1, <3>2, <4>1
    <3> QED
      BY <3>1, <3>2
  <2>5. d \in 0..Len(pending) /\ issued' \in issued..MaxSeq /\ issued < issued'
    BY <1>0, <1>2, <2>2, <2>4
  <2>6. QueueMoved
    BY <2>3, <2>4, <2>5 DEF QueueMoved
  <2> QED
    BY <1>0, <1>2, <2>2, <2>4, <2>6
<1> QED
  BY <1>0, <1>1, <1>2

(* Processing an acknowledgement. *)
LEMMA AckMoves ==
  ASSUME TypeOK, ProcessAck
  PROVE  /\ pending' \in Seq(Event) /\ Len(pending') <= Capacity
         /\ issued' = issued
         /\ QueueMoved
<1> USE DeliveryAssumption
<1>1. /\ pending \in Seq(Event) /\ Len(pending) <= Capacity /\ Len(pending) \in Nat
      /\ issued \in 0..MaxSeq
  BY QueueTypes
<1>2. boot' = boot
  BY DEF ProcessAck
<1>3. CASE AckAccepted(call)
  <2>1. PICK k \in 0..Len(pending) :
          /\ pending' = SubSeq(pending, k + 1, Len(pending))
          /\ issued' = issued
    BY <1>3 DEF ProcessAck
  <2>2. /\ pending' \in Seq(Event) /\ Len(pending') = Len(pending) - k
        /\ \A i \in 1..(Len(pending) - k) : pending'[i] = pending[i + k]
    BY <1>1, <2>1
  <2>3. issued' \in issued..MaxSeq /\ Len(pending') # Len(pending) - k + 1
        /\ Len(pending') <= Capacity
    BY <1>1, <2>1, <2>2
  <2> QED
    BY <1>2, <2>1, <2>2, <2>3 DEF QueueMoved
<1>4. CASE ~AckAccepted(call)
  <2>1. UNCHANGED <<pending, issued>>
    BY <1>4 DEF ProcessAck, queue
  <2> QED
    BY <1>1, <1>2, <2>1, StandingQueue
<1> QED
  BY <1>3, <1>4

(* Serving a request keeps the table well formed, and the request what it is. *)
LEMMA HandledFacts ==
  ASSUME TypeOK, NEW r \in Request
  PROVE  /\ Handled(r) \in Request
         /\ Handled(r).boot = r.boot /\ Handled(r).events = r.events
         /\ Handled(r).stage = IF r.stage = "sent" THEN "started" ELSE "committed"
         /\ Handled(r).at = IF r.stage # "sent" THEN r.at
                            ELSE IF r.events = <<>> THEN 0 ELSE clock + 1
<1>0. clock \in Nat
  BY DEF TypeOK
<1>1. CASE r.stage = "sent"
  <2> DEFINE t == IF r.events = <<>> THEN 0 ELSE clock + 1
  <2>1. t \in Nat /\ Handled(r) = [r EXCEPT !.stage = "started", !.at = t]
    BY <1>0, <1>1 DEF Handled
  <2>2. t = IF r.events = <<>> THEN 0 ELSE clock + 1
    OBVIOUS
  <2> HIDE DEF t
  <2> QED
    BY <1>1, <2>1, <2>2 DEF Request, Stages
<1>2. CASE r.stage # "sent"
  BY <1>2 DEF Handled, Request, Stages
<1> QED
  BY <1>1, <1>2

LEMMA NewRowFacts ==
  ASSUME TypeOK, NEW r \in Requests, NEW row \in NewRows(r)
  PROVE  \E i \in 1..Len(r.events) :
           /\ ~Stored(BootId[r.boot], r.events[i].seq)
           /\ row.bootId = BootId[r.boot] /\ row.seq = r.events[i].seq
           /\ row.boot = r.events[i].payload /\ row.at = r.at
           /\ row = [bootId |-> BootId[r.boot], seq |-> r.events[i].seq,
                     boot |-> r.events[i].payload, at |-> r.at]
BY DEF NewRows

LEMMA HandleRows ==
  ASSUME TypeOK, NEW r \in Requests, Handle(r)
  PROVE  /\ \A row \in rows' : row.seq \in 1..MaxSeq /\ row.boot \in Boots /\ row.at \in Nat
         /\ clock' \in Nat
         /\ rows \subseteq rows'
<1>0. /\ \A row \in rows : row.seq \in 1..MaxSeq /\ row.boot \in Boots /\ row.at \in Nat
      /\ clock \in Nat
  BY DEF TypeOK
<1>1. CASE Arrive(r)
  BY <1>0, <1>1 DEF Arrive
<1>2. CASE Commit(r)
  <2>1. rows' = rows \cup NewRows(r) /\ clock' = clock
    BY <1>2 DEF Commit
  <2>2. ASSUME NEW row \in NewRows(r)
        PROVE  row.seq \in 1..MaxSeq /\ row.boot \in Boots /\ row.at \in Nat
    BY NewRowFacts, RequestTypes
  <2> QED
    BY <1>0, <2>1, <2>2
<1> QED
  BY <1>1, <1>2 DEF Handle
-----------------------------------------------------------------------------
(* Types. *)

LEMMA InitTypes == Init => TypeOK
<1> SUFFICES ASSUME Init PROVE TypeOK
  OBVIOUS
<1>1. pending \in Seq(Event) /\ Len(pending) <= Capacity
  BY DeliveryAssumption DEF Init
<1> QED
  BY <1>1, DeliveryAssumption, NoCallFacts DEF Init, TypeOK, Boots

LEMMA RecordTypes ==
  ASSUME TypeOK, Observe \/ RecordApplied
  PROVE  TypeOK'
<1>1. Record /\ UNCHANGED <<boot, call, stale, rows, clock, faults>>
      /\ phase' = phase /\ changes' \in 0..2
  BY DEF Observe, RecordApplied, world, TypeOK
<1>2. pending' \in Seq(Event) /\ Len(pending') <= Capacity /\ issued' \in 0..MaxSeq
  BY <1>1, RecordMoves
<1> QED
  BY <1>1, <1>2 DEF TypeOK

LEMMA BatchFacts ==
  ASSUME TypeOK
  PROVE  /\ BatchSize \in 0..Len(pending) /\ BatchSize <= MaxBatch
         /\ BatchSize = Len(pending) \/ BatchSize = MaxBatch
         /\ Batch \in Seq(Event) /\ Len(Batch) = BatchSize
         /\ \A i \in 1..BatchSize : Batch[i] = pending[i]
<1>1. /\ pending \in Seq(Event) /\ Len(pending) \in Nat
      /\ MaxBatch \in Nat
  BY QueueTypes
<1>2. /\ BatchSize \in 0..Len(pending) /\ BatchSize <= MaxBatch
      /\ BatchSize = Len(pending) \/ BatchSize = MaxBatch
  BY <1>1 DEF BatchSize
<1> QED
  BY <1>1, <1>2 DEF Batch

LEMMA SendTypes == ASSUME TypeOK, SendHeartbeat PROVE TypeOK'
<1>1. /\ UNCHANGED <<pending, issued, boot, changes, stale, rows, clock, faults>>
      /\ phase' = "waiting"
      /\ call' = [boot |-> boot, events |-> Batch, stage |-> "sent", at |-> 0]
  BY DEF SendHeartbeat, queue, world
<1>2. call' \in Request
  BY <1>1, BatchFacts, DeliveryAssumption DEF TypeOK, Request, Stages, Boots
<1> QED
  BY <1>1, <1>2 DEF TypeOK

LEMMA EndTypes ==
  ASSUME TypeOK, GiveUp \/ Receive \/ CallDies \/ StaleDies
  PROVE  TypeOK'
<1>1. UNCHANGED <<pending, issued, boot, rows, clock>>
  BY DEF GiveUp, Receive, CallDies, StaleDies, queue, world, history
<1>2. /\ phase' \in {"idle", "waiting", "applying"} /\ changes' \in 0..2
      /\ faults' \in 0..MaxFaults
  BY DeliveryAssumption
     DEF GiveUp, Receive, CallDies, StaleDies, queue, world, history, TypeOK
<1>3. call' \in Request
  <2>1. call \in Request
    BY DEF TypeOK
  <2>2. CASE CallDies
    BY <2>1, <2>2 DEF CallDies, Request, Stages
  <2>3. CASE ~CallDies
    BY <2>1, <2>3, NoCallFacts DEF GiveUp, Receive, StaleDies
  <2> QED
    BY <2>2, <2>3
<1>4. stale' \subseteq Request
  <2>1. stale' \subseteq stale \cup {call}
    BY DEF GiveUp, Receive, CallDies, StaleDies, Orphan, world
  <2> QED
    BY <2>1 DEF TypeOK
<1> QED
  BY <1>1, <1>2, <1>3, <1>4 DEF TypeOK

LEMMA AckTypes == ASSUME TypeOK, ProcessAck PROVE TypeOK'
<1>1. /\ UNCHANGED <<boot, changes, stale, rows, clock, faults>>
      /\ phase' = "idle" /\ call' = NoCall
  BY DEF ProcessAck, world
<1> QED
  BY <1>1, AckMoves, NoCallFacts DEF TypeOK

LEMMA ResetTypes == ASSUME TypeOK, Reset PROVE TypeOK'
<1>1. /\ pending' = <<>> /\ issued' = 0 /\ phase' = "idle" /\ changes' = 0
      /\ boot' \in Boots /\ call' = NoCall
      /\ stale' \subseteq stale \cup {call}
      /\ UNCHANGED <<rows, clock, faults>>
  BY DeliveryAssumption DEF Reset, Orphan, TypeOK, Boots
<1>2. pending' \in Seq(Event) /\ Len(pending') = 0
  BY <1>1
<1>3. issued' \in 0..MaxSeq /\ Len(pending') <= Capacity
  BY <1>1, <1>2, DeliveryAssumption
<1> QED
  BY <1>1, <1>2, <1>3, NoCallFacts DEF TypeOK

LEMMA ServeTypes == ASSUME TypeOK, ServeCall \/ ServeStale PROVE TypeOK'
<1>1. UNCHANGED <<pending, issued, boot, phase, changes, faults>>
  BY DEF ServeCall, ServeStale, queue
<1>2. PICK r \in Requests :
        Handle(r) /\ {call', Handled(r)} \cup stale' \subseteq Requests \cup {Handled(r)}
  BY DEF ServeCall, ServeStale, Requests, Orphan
<1>3. call' \in Request /\ stale' \subseteq Request
  BY <1>2, RequestTypes, HandledFacts DEF TypeOK, Requests
<1> QED
  BY <1>1, <1>2, <1>3, HandleRows DEF TypeOK

LEMMA NextTypes == TypeOK /\ [Next]_vars => TypeOK'
<1> SUFFICES ASSUME TypeOK, [Next]_vars PROVE TypeOK'
  OBVIOUS
<1>1. CASE Next
  BY <1>1, RecordTypes, SendTypes, EndTypes, AckTypes, ResetTypes, ServeTypes DEF Next
<1>2. CASE UNCHANGED vars
  BY <1>2 DEF vars, queue, world, history, TypeOK
<1> QED
  BY <1>1, <1>2

(* The queue never holds more than its capacity, numbers stay within their   *)
(* width, and requests and rows are made of queued events, for any buffer,   *)
(* batch, number of boots and faults.                                        *)
THEOREM DeliveryTypeCorrect == Spec => []TypeOK
BY InitTypes, NextTypes, PTL DEF Spec
-----------------------------------------------------------------------------
(* The shape of a step. *)

LEMMA KeptByDevice ==
  ASSUME Observe \/ RecordApplied \/ ProcessAck \/ Receive \/ StaleDies
  PROVE  RequestsKept /\ UNCHANGED <<rows, boot>>
<1>1. stale' \subseteq stale /\ (call' = call \/ call' = NoCall)
      /\ UNCHANGED <<rows, boot>>
  BY DEF Observe, RecordApplied, ProcessAck, Receive, StaleDies, world, queue
<1> QED
  BY <1>1 DEF RequestsKept, Requests

LEMMA KeptByEnd ==
  ASSUME TypeOK, GiveUp \/ CallDies \/ Reset
  PROVE  RequestsKept /\ UNCHANGED rows
<1>1. stale' \subseteq stale \cup {call} /\ UNCHANGED rows
  BY DEF GiveUp, CallDies, Reset, Orphan, world
<1>2. call' = NoCall \/ (call'.boot = call.boot /\ call'.events = call.events)
  BY DEF GiveUp, CallDies, Reset, TypeOK, Request
<1> QED
  BY <1>1, <1>2 DEF RequestsKept, Requests

LEMMA KeptByBackend ==
  ASSUME TypeOK, ServeCall \/ ServeStale
  PROVE  /\ RequestsKept /\ UNCHANGED <<pending, issued, boot, phase>>
         /\ \E r \in Requests :
              /\ Handle(r)
              /\ Requests' \subseteq Requests \cup {Handled(r)}
<1>1. UNCHANGED <<pending, issued, boot, phase>>
  BY DEF ServeCall, ServeStale, queue
<1>2. PICK r \in Requests :
        Handle(r) /\ Requests' \subseteq Requests \cup {Handled(r)}
  BY DEF ServeCall, ServeStale, Requests, Orphan
<1>3. Handled(r).boot = r.boot /\ Handled(r).events = r.events
  BY RequestTypes, HandledFacts
<1> QED
  BY <1>1, <1>2, <1>3 DEF RequestsKept

(* A step sends a heartbeat, or resets the device, or moves the queue and    *)
(* keeps the requests.                                                       *)
LEMMA StepShape ==
  ASSUME TypeOK, [Next]_vars
  PROVE  SendHeartbeat \/ Reset \/ (QueueMoved /\ RequestsKept)
<1>1. CASE Observe \/ RecordApplied
  <2>1. Record /\ boot' = boot
    BY <1>1 DEF Observe, RecordApplied
  <2> QED
    BY <1>1, <2>1, RecordMoves, KeptByDevice
<1>2. CASE ProcessAck
  BY <1>2, AckMoves, KeptByDevice
<1>3. CASE Receive \/ StaleDies
  BY <1>3, StandingQueue, KeptByDevice DEF Receive, StaleDies, queue
<1>4. CASE GiveUp \/ CallDies
  BY <1>4, StandingQueue, KeptByEnd DEF GiveUp, CallDies, queue
<1>5. CASE ServeCall \/ ServeStale
  BY <1>5, StandingQueue, KeptByBackend
<1>6. CASE UNCHANGED vars
  BY <1>6, StandingQueue DEF vars, queue, world, RequestsKept, Requests
<1> QED
  BY <1>1, <1>2, <1>3, <1>4, <1>5, <1>6 DEF Next
-----------------------------------------------------------------------------
(* The queue and the requests made of it. *)

(* The queue holds increasing numbers of the running boot. *)
QueueOrdered ==
  \A i \in 1..Len(pending) :
    /\ pending[i].seq <= issued
    /\ pending[i].payload = boot
    /\ \A j \in 1..Len(pending) : i < j => pending[i].seq < pending[j].seq

(* A request carries events of the boot that sent it, which has begun, and no *)
(* row is of a boot still to come; an open call is of the running boot.       *)
RequestsOwned ==
  /\ \A r \in Requests :
       /\ r.boot <= boot
       /\ \A i \in 1..Len(r.events) : r.events[i].payload = r.boot
  /\ phase # "idle" => call.boot = boot

(* A row is filed under the boot ID of the boot its content comes from. *)
RowsOwned ==
  \A row \in rows : row.bootId = BootId[row.boot] /\ row.boot <= boot

(* A request of the running boot is of numbers given out, and has skipped no *)
(* event that is still queued.                                               *)
RequestsCoverQueue ==
  \A r \in Requests : r.boot = boot =>
    \A j \in 1..Len(r.events) :
      /\ r.events[j].seq <= issued
      /\ \A i \in 1..Len(pending) :
           pending[i].seq < r.events[j].seq =>
             \E k \in 1..Len(r.events) : r.events[k].seq = pending[i].seq

(* What is not yet removed of it is in the queue still, no further back than *)
(* in the request: the next batch will include it.                           *)
QueueKeepsRequests ==
  \A r \in Requests : r.boot = boot =>
    \A j \in 1..Len(r.events) :
      Len(pending) > 0 /\ pending[1].seq <= r.events[j].seq =>
        \E k \in 1..Len(pending) : k <= j /\ pending[k].seq = r.events[j].seq

(* While the device waits, nothing is recorded or removed. *)
WaitingSentBatch == phase = "waiting" => call.events = Batch

QueueInv == /\ QueueOrdered
            /\ RequestsOwned /\ RowsOwned
            /\ RequestsCoverQueue /\ QueueKeepsRequests
            /\ WaitingSentBatch
            /\ BatchesAccepted

LEMMA QueueInit == Init => QueueInv
<1> USE NoCallFacts
<1> SUFFICES ASSUME Init PROVE QueueInv
  OBVIOUS
<1>1. /\ pending = <<>> /\ Len(pending) = 0 /\ issued = 0 /\ boot = 1 /\ phase = "idle"
      /\ Requests = {NoCall} /\ rows = {} /\ call = NoCall /\ stale = {}
  BY DEF Init, Requests
<1>2. QueueOrdered /\ RowsOwned /\ WaitingSentBatch
  BY <1>1 DEF QueueOrdered, RowsOwned, WaitingSentBatch
<1>3. RequestsOwned /\ RequestsCoverQueue /\ QueueKeepsRequests
  BY <1>1 DEF RequestsOwned, RequestsCoverQueue, QueueKeepsRequests
<1>4. BatchesAccepted
  BY <1>1, DeliveryAssumption DEF BatchesAccepted, ValidBatch
<1> QED
  BY <1>2, <1>3, <1>4 DEF QueueInv

(* An event in the moved queue is an old one, further back before, or new. *)
LEMMA MovedEvent ==
  ASSUME TypeOK, TypeOK', NEW d \in 0..Len(pending),
         Len(pending') \in {Len(pending) - d, Len(pending) - d + 1},
         \A i \in 1..(Len(pending) - d) : pending'[i] = pending[i + d],
         Len(pending') = Len(pending) - d + 1 =>
           /\ issued < issued'
           /\ pending'[Len(pending')] = [seq |-> issued', payload |-> boot],
         NEW i \in 1..Len(pending')
  PROVE  \/ /\ i \in 1..(Len(pending) - d) /\ i + d \in 1..Len(pending)
            /\ pending'[i] = pending[i + d]
         \/ /\ i = Len(pending') /\ i = Len(pending) - d + 1
            /\ issued < issued'
            /\ pending'[i].seq = issued' /\ pending'[i].payload = boot
<1>1. Len(pending) \in Nat /\ Len(pending') \in Nat
  BY QueueTypes DEF TypeOK
<1>2. CASE i <= Len(pending) - d
  BY <1>1, <1>2
<1>3. CASE i > Len(pending) - d
  BY <1>1, <1>3
<1> QED
  BY <1>1, <1>2, <1>3

LEMMA MovedOrdered ==
  ASSUME TypeOK, TypeOK', QueueOrdered, QueueMoved
  PROVE  QueueOrdered'
<1>1. PICK d \in 0..Len(pending) :
        /\ Len(pending') \in {Len(pending) - d, Len(pending) - d + 1}
        /\ \A i \in 1..(Len(pending) - d) : pending'[i] = pending[i + d]
        /\ Len(pending') = Len(pending) - d + 1 =>
             /\ issued < issued'
             /\ pending'[Len(pending')] = [seq |-> issued', payload |-> boot]
  BY DEF QueueMoved
<1>2. /\ Len(pending) \in Nat /\ Len(pending') \in Nat
      /\ issued \in Nat /\ issued' \in Nat /\ issued <= issued' /\ boot' = boot
  BY QueueTypes DEF TypeOK, QueueMoved
<1>3. ASSUME NEW i \in 1..Len(pending')
      PROVE  \/ /\ i \in 1..(Len(pending) - d) /\ i + d \in 1..Len(pending)
                /\ pending'[i] = pending[i + d]
             \/ /\ i = Len(pending') /\ i = Len(pending) - d + 1
                /\ issued < issued'
                /\ pending'[i].seq = issued' /\ pending'[i].payload = boot
  BY <1>1, MovedEvent
<1>4. ASSUME NEW m \in 1..Len(pending)
      PROVE  /\ pending[m].seq \in Nat /\ pending[m].seq <= issued
             /\ pending[m].payload = boot
  BY QueueTypes DEF QueueOrdered
<1>5. ASSUME NEW i \in 1..Len(pending')
      PROVE  pending'[i].seq <= issued' /\ pending'[i].payload = boot'
  <2> DEFINE m == i + d
  <2>1. CASE m \in 1..Len(pending) /\ pending'[i] = pending[m]
    <3> HIDE DEF m
    <3>1. /\ pending'[i].seq \in Nat /\ pending'[i].seq <= issued
          /\ pending'[i].payload = boot
      BY <1>4, <2>1
    <3> QED
      BY <1>2, <3>1
  <2>2. CASE pending'[i].seq = issued' /\ pending'[i].payload = boot
    BY <1>2, <2>2
  <2>3. \/ m \in 1..Len(pending) /\ pending'[i] = pending[m]
        \/ pending'[i].seq = issued' /\ pending'[i].payload = boot
    BY <1>3
  <2> QED
    BY <2>1, <2>2, <2>3
<1>6. ASSUME NEW i \in 1..Len(pending'), NEW j \in 1..Len(pending'), i < j
      PROVE  pending'[i].seq < pending'[j].seq
  <2> DEFINE m == i + d
             n == j + d
  <2>1. m \in 1..Len(pending) /\ pending'[i] = pending[m]
    <3>1. i # Len(pending')
      BY <1>2, <1>6
    <3> QED
      BY <1>3, <3>1
  <2>2. CASE n \in 1..Len(pending) /\ pending'[j] = pending[n]
    <3>1. m < n
      BY <1>6
    <3> HIDE DEF m, n
    <3> QED
      BY <2>1, <2>2, <3>1 DEF QueueOrdered
  <2>3. CASE pending'[j].seq = issued' /\ issued < issued'
    <3> HIDE DEF m, n
    <3>1. pending'[i].seq \in Nat /\ pending'[i].seq <= issued
      BY <1>4, <2>1
    <3> QED
      BY <1>2, <2>3, <3>1
  <2> QED
    BY <1>3, <2>2, <2>3
<1> QED
  BY <1>5, <1>6 DEF QueueOrdered

(* The requests of before still cover the queue. *)
LEMMA MovedCovers ==
  ASSUME TypeOK, TypeOK', QueueMoved, RequestsKept, RequestsCoverQueue
  PROVE  RequestsCoverQueue'
<1>1. PICK d \in 0..Len(pending) :
        /\ Len(pending') \in {Len(pending) - d, Len(pending) - d + 1}
        /\ \A i \in 1..(Len(pending) - d) : pending'[i] = pending[i + d]
        /\ Len(pending') = Len(pending) - d + 1 =>
             /\ issued < issued'
             /\ pending'[Len(pending')] = [seq |-> issued', payload |-> boot]
  BY DEF QueueMoved
<1>2. /\ issued \in Nat /\ issued' \in Nat /\ issued <= issued' /\ boot' = boot
  BY QueueTypes DEF TypeOK, QueueMoved
<1>3. SUFFICES ASSUME NEW r \in Requests', r.boot = boot, NEW j \in 1..Len(r.events)
               PROVE  /\ r.events[j].seq <= issued'
                      /\ \A i \in 1..Len(pending') :
                           pending'[i].seq < r.events[j].seq =>
                             \E k \in 1..Len(r.events) :
                               r.events[k].seq = pending'[i].seq
  BY <1>2 DEF RequestsCoverQueue
<1>4. r # NoCall
  BY NoCallFacts, <1>3
<1>5. PICK q \in Requests : r.boot = q.boot /\ r.events = q.events
  BY <1>4, <1>3 DEF RequestsKept
<1>6. /\ r.events[j].seq \in Nat /\ r.events[j].seq <= issued
      /\ \A i \in 1..Len(pending) : pending[i].seq < r.events[j].seq =>
           \E k \in 1..Len(r.events) : r.events[k].seq = pending[i].seq
  BY <1>3, <1>5, RequestTypes DEF RequestsCoverQueue
<1>7. ASSUME NEW i \in 1..Len(pending'), pending'[i].seq < r.events[j].seq
      PROVE  \E k \in 1..Len(r.events) : r.events[k].seq = pending'[i].seq
  <2>1. CASE i + d \in 1..Len(pending) /\ pending'[i] = pending[i + d]
    BY <1>6, <1>7, <2>1
  <2>2. CASE pending'[i].seq = issued' /\ issued < issued'
    BY <1>2, <1>6, <1>7, <2>2
  <2> QED
    BY <1>1, <2>1, <2>2, MovedEvent
<1> QED
  BY <1>2, <1>6, <1>7

LEMMA MovedKeeps ==
  ASSUME TypeOK, TypeOK', QueueMoved, RequestsKept, QueueOrdered,
         RequestsCoverQueue, QueueKeepsRequests
  PROVE  QueueKeepsRequests'
<1>1. PICK d \in 0..Len(pending) :
        /\ Len(pending') \in {Len(pending) - d, Len(pending) - d + 1}
        /\ \A i \in 1..(Len(pending) - d) : pending'[i] = pending[i + d]
        /\ Len(pending') = Len(pending) - d + 1 =>
             /\ issued < issued'
             /\ pending'[Len(pending')] = [seq |-> issued', payload |-> boot]
  BY DEF QueueMoved
<1>2. /\ issued \in Nat /\ issued' \in Nat /\ issued <= issued' /\ boot' = boot
      /\ Len(pending) \in Nat /\ Len(pending') \in Nat
  BY QueueTypes DEF TypeOK, QueueMoved
<1>3. SUFFICES ASSUME NEW r \in Requests', r.boot = boot, NEW j \in 1..Len(r.events),
                      Len(pending') > 0, pending'[1].seq <= r.events[j].seq
               PROVE  \E k \in 1..Len(pending') :
                        k <= j /\ pending'[k].seq = r.events[j].seq
  BY <1>2 DEF QueueKeepsRequests
<1>4. r # NoCall
  BY NoCallFacts, <1>3
<1>5. PICK q \in Requests : r.boot = q.boot /\ r.events = q.events
  BY <1>4, <1>3 DEF RequestsKept
<1> DEFINE s == r.events[j].seq
<1>6. s \in Nat /\ s <= issued /\ Len(r.events) \in Nat
  BY <1>3, <1>5, RequestTypes DEF RequestsCoverQueue
<1>7. Len(pending) > 0 /\ pending[1].seq <= s =>
        \E k \in 1..Len(pending) : k <= j /\ pending[k].seq = s
  BY <1>3, <1>5 DEF QueueKeepsRequests
<1>8. pending'[1].seq <= s
  BY <1>3
<1> HIDE DEF s
<1>9. 1 \in 1..Len(pending')
  BY <1>2, <1>3
<1>10. 1 <= Len(pending) - d /\ 1 + d \in 1..Len(pending) /\ pending'[1] = pending[1 + d]
  <2>1. ~(pending'[1].seq = issued' /\ issued < issued')
    BY <1>2, <1>6, <1>8
  <2> QED
    BY <1>1, <1>2, <1>9, <2>1, MovedEvent
<1>11. ASSUME NEW m \in 1..Len(pending), NEW n \in 1..Len(pending), m <= n
       PROVE  /\ pending[m].seq \in Nat /\ pending[n].seq \in Nat
              /\ pending[m].seq <= pending[n].seq
              /\ m < n => pending[m].seq < pending[n].seq
  <2>1. pending[m].seq \in Nat /\ pending[n].seq \in Nat
    BY QueueTypes
  <2>2. m < n => pending[m].seq < pending[n].seq
    BY DEF QueueOrdered
  <2>3. m < n \/ m = n
    BY <1>2, <1>11
  <2> QED
    BY <2>1, <2>2, <2>3
<1>12. pending[1].seq <= s
  <2>1. 1 \in 1..Len(pending) /\ 1 <= 1 + d
    BY <1>2, <1>10
  <2>2. pending[1].seq \in Nat /\ pending[1 + d].seq \in Nat
        /\ pending[1].seq <= pending[1 + d].seq
    BY <1>10, <1>11, <2>1
  <2> QED
    BY <1>6, <1>8, <1>10, <2>2
<1>13. PICK k \in 1..Len(pending) : k <= j /\ pending[k].seq = s
  BY <1>2, <1>7, <1>10, <1>12
<1>14. 1 + d <= k
  <2> SUFFICES ASSUME k < 1 + d PROVE FALSE
    BY <1>2
  <2>1. pending[k].seq < pending[1 + d].seq
    BY <1>10, <1>11
  <2>2. pending[1 + d].seq \in Nat
    BY <1>10, QueueTypes
  <2> QED
    BY <1>6, <1>8, <1>10, <1>13, <2>1, <2>2
<1> DEFINE m == k - d
<1>15. m \in 1..(Len(pending) - d) /\ m + d = k /\ m <= j /\ m \in 1..Len(pending')
  BY <1>1, <1>2, <1>13, <1>14
<1>16. pending'[m].seq = s
  BY <1>1, <1>13, <1>15
<1> HIDE DEF m
<1> QED
  BY <1>15, <1>16 DEF s

(* The batch is the front of the queue. *)
LEMMA BatchIsFront ==
  ASSUME TypeOK, QueueOrdered
  PROVE  /\ ValidBatch(Batch)
         /\ \A i \in 1..Len(Batch) :
              /\ i \in 1..Len(pending) /\ Batch[i] = pending[i]
              /\ Batch[i].payload = boot /\ Batch[i].seq \in 1..issued
         /\ \A i \in 1..Len(pending), j \in 1..Len(Batch) :
              pending[i].seq <= Batch[j].seq => i <= j
         /\ \A i \in 1..Len(pending) : i <= MaxBatch => i \in 1..Len(Batch)
<1>1. /\ Len(pending) \in Nat /\ MaxBatch \in Nat
      /\ BatchSize \in 0..Len(pending) /\ BatchSize <= MaxBatch
      /\ BatchSize = Len(pending) \/ BatchSize = MaxBatch
      /\ Len(Batch) = BatchSize
      /\ \A i \in 1..BatchSize : Batch[i] = pending[i]
  BY BatchFacts, QueueTypes
<1>2. ASSUME NEW i \in 1..Len(Batch)
      PROVE  /\ i \in 1..Len(pending) /\ Batch[i] = pending[i]
             /\ Batch[i].payload = boot /\ Batch[i].seq \in 1..issued
  <2>1. i \in 1..Len(pending) /\ Batch[i] = pending[i]
    BY <1>1
  <2>2. pending[i].seq \in 1..MaxSeq /\ pending[i].seq <= issued
        /\ pending[i].payload = boot /\ issued \in 0..MaxSeq /\ MaxSeq \in Nat
    BY <2>1, QueueTypes DEF QueueOrdered
  <2> QED
    BY <2>1, <2>2
<1>3. ASSUME NEW i \in 1..Len(pending), NEW j \in 1..Len(Batch),
             pending[i].seq <= Batch[j].seq
      PROVE  i <= j
  <2>1. j \in 1..Len(pending) /\ Batch[j] = pending[j]
    BY <1>2
  <2>2. pending[i].seq \in Nat /\ pending[j].seq \in Nat
    BY <2>1, QueueTypes
  <2>3. j < i => pending[j].seq < pending[i].seq
    BY <2>1 DEF QueueOrdered
  <2> QED
    BY <1>3, <2>1, <2>2, <2>3
<1>4. ValidBatch(Batch)
  <2>1. ASSUME NEW i \in 1..Len(Batch)
        PROVE  Batch[i].seq > (IF i = 1 THEN 0 ELSE Batch[i - 1].seq)
    <3>1. CASE i = 1
      BY <1>2, <3>1, QueueTypes
    <3>2. CASE i # 1
      <4> DEFINE m == i - 1
      <4>1. m \in 1..Len(Batch) /\ m < i
        BY <1>1, <3>2
      <4>2. i \in 1..Len(pending) /\ Batch[i] = pending[i]
        BY <1>2
      <4>3. m \in 1..Len(pending) /\ Batch[m] = pending[m]
        BY <1>2, <4>1
      <4> HIDE DEF m
      <4>4. pending[m].seq < pending[i].seq
        BY <4>1, <4>2, <4>3 DEF QueueOrdered
      <4>5. Batch[m].seq \in Nat /\ Batch[i].seq \in Nat
        BY <4>2, <4>3, QueueTypes
      <4>6. Batch[i].seq > Batch[m].seq
        BY <4>2, <4>3, <4>4, <4>5
      <4> QED
        BY <3>2, <4>6 DEF m
    <3> QED
      BY <3>1, <3>2
  <2> QED
    BY <1>1, <2>1 DEF ValidBatch
<1>5. \A i \in 1..Len(pending) : i <= MaxBatch => i \in 1..Len(Batch)
  BY <1>1
<1> QED
  BY <1>2, <1>3, <1>4, <1>5

LEMMA SentFacts ==
  ASSUME TypeOK, SendHeartbeat
  PROVE  /\ UNCHANGED <<pending, issued, boot, stale, rows, clock, gone, acknowledged, late>>
         /\ phase = "idle" /\ phase' = "waiting"
         /\ call'.boot = boot /\ call'.events = Batch /\ call'.stage = "sent"
         /\ Batch' = Batch
         /\ Requests' = {call'} \cup stale
<1>1. UNCHANGED <<pending, issued, boot, stale, rows, clock, gone, acknowledged, late>>
      /\ phase = "idle" /\ phase' = "waiting"
      /\ call' = [boot |-> boot, events |-> Batch, stage |-> "sent", at |-> 0]
  BY DEF SendHeartbeat, queue, world, history
<1>2. Batch' = Batch
  BY <1>1 DEF Batch, BatchSize
<1> QED
  BY <1>1, <1>2 DEF Requests

LEMMA SendKeepsQueue ==
  ASSUME TypeOK, TypeOK', QueueInv, SendHeartbeat
  PROVE  QueueInv'
<1>1. /\ UNCHANGED <<pending, issued, boot, stale, rows>>
      /\ phase' = "waiting"
      /\ call'.boot = boot /\ call'.events = Batch /\ Batch' = Batch
      /\ Requests' = {call'} \cup stale /\ stale \subseteq Requests
  BY SentFacts DEF Requests
<1>2. QueueOrdered /\ QueueOrdered'
  BY <1>1 DEF QueueInv, QueueOrdered
<1>3. /\ ValidBatch(Batch)
      /\ \A i \in 1..Len(Batch) :
           /\ i \in 1..Len(pending) /\ Batch[i] = pending[i]
           /\ Batch[i].payload = boot /\ Batch[i].seq \in 1..issued
      /\ \A i \in 1..Len(pending), j \in 1..Len(Batch) :
           pending[i].seq <= Batch[j].seq => i <= j
  BY <1>2, BatchIsFront
<1>4. Len(Batch) \in Nat /\ Len(pending) \in Nat /\ issued \in Nat /\ boot \in Nat
  BY QueueTypes, BatchFacts
<1>5. RequestsOwned' /\ RowsOwned' /\ WaitingSentBatch'
  BY <1>1, <1>3, <1>4 DEF QueueInv, RequestsOwned, RowsOwned, WaitingSentBatch
<1>6. RequestsCoverQueue'
  <2>1. ASSUME NEW j \in 1..Len(Batch)
        PROVE  /\ Batch[j].seq <= issued
               /\ \A i \in 1..Len(pending) : pending[i].seq < Batch[j].seq =>
                    \E k \in 1..Len(Batch) : Batch[k].seq = pending[i].seq
    <3>1. Batch[j].seq <= issued /\ Batch[j].seq \in Nat
      BY <1>3, <1>4
    <3>2. ASSUME NEW i \in 1..Len(pending), pending[i].seq < Batch[j].seq
          PROVE  \E k \in 1..Len(Batch) : Batch[k].seq = pending[i].seq
      <4>1. pending[i].seq \in Nat
        BY QueueTypes
      <4>2. i <= j
        BY <1>3, <3>1, <3>2, <4>1
      <4>3. i \in 1..Len(Batch)
        BY <1>4, <4>2
      <4> QED
        BY <1>3, <4>3
    <3> QED
      BY <3>1, <3>2
  <2> QED
    BY <1>1, <2>1 DEF QueueInv, RequestsCoverQueue
<1>7. QueueKeepsRequests'
  <2>1. ASSUME NEW j \in 1..Len(Batch)
        PROVE  \E k \in 1..Len(pending) : k <= j /\ pending[k].seq = Batch[j].seq
    BY <1>3, <1>4
  <2> QED
    BY <1>1, <2>1 DEF QueueInv, QueueKeepsRequests
<1>8. BatchesAccepted'
  BY <1>1, <1>3 DEF QueueInv, BatchesAccepted, ValidBatch
<1> QED
  BY <1>2, <1>5, <1>6, <1>7, <1>8 DEF QueueInv

(* Requests of earlier boots have nothing to do with the new, empty queue. *)
LEMMA ResetKeepsQueue ==
  ASSUME TypeOK, TypeOK', QueueInv, Reset
  PROVE  QueueInv'
<1>1. /\ boot' = boot + 1 /\ pending' = <<>> /\ Len(pending') = 0
      /\ phase' = "idle" /\ UNCHANGED rows /\ RequestsKept
  BY KeptByEnd DEF Reset
<1>2. boot \in Nat /\ \A row \in rows : row.boot \in Nat
  <2>1. boot \in Nat
    BY QueueTypes
  <2>2. \A row \in rows : row.boot \in Nat
    BY DEF TypeOK, Boots
  <2> QED
    BY <2>1, <2>2
<1>3. ASSUME NEW r \in Requests'
      PROVE  /\ r.boot \in Nat /\ r.boot <= boot
             /\ \A i \in 1..Len(r.events) : r.events[i].payload = r.boot
             /\ ValidBatch(r.events)
  <2>1. CASE r = NoCall
    BY <1>2, <2>1, NoCallFacts, DeliveryAssumption DEF ValidBatch
  <2>2. CASE r # NoCall
    <3>1. PICK q \in Requests : r.boot = q.boot /\ r.events = q.events
      BY <1>1, <2>2 DEF RequestsKept
    <3>2. q.boot \in Nat /\ ValidBatch(q.events)
      BY RequestTypes, DeliveryAssumption DEF QueueInv, BatchesAccepted, Requests
    <3> QED
      BY <3>1, <3>2 DEF QueueInv, RequestsOwned
  <2> QED
    BY <2>1, <2>2
<1>4. \A r \in Requests' : r.boot # boot' /\ r.boot <= boot'
  BY <1>1, <1>2, <1>3
<1>5. QueueOrdered' /\ RequestsOwned' /\ WaitingSentBatch'
  BY <1>1, <1>3, <1>4 DEF QueueOrdered, RequestsOwned, WaitingSentBatch
<1>6. RequestsCoverQueue' /\ QueueKeepsRequests'
  BY <1>4 DEF RequestsCoverQueue, QueueKeepsRequests
<1>7. RowsOwned'
  BY <1>1, <1>2 DEF QueueInv, RowsOwned
<1>8. BatchesAccepted'
  BY <1>3 DEF BatchesAccepted, Requests, ValidBatch
<1> QED
  BY <1>5, <1>6, <1>7, <1>8 DEF QueueInv

LEMMA KeptOwned ==
  ASSUME TypeOK, TypeOK', QueueInv, RequestsKept, boot' = boot
  PROVE  /\ \A r \in Requests' :
              /\ r.boot <= boot
              /\ \A i \in 1..Len(r.events) : r.events[i].payload = r.boot
         /\ BatchesAccepted'
<1>1. ASSUME NEW r \in Requests'
      PROVE  /\ r.boot <= boot
             /\ \A i \in 1..Len(r.events) : r.events[i].payload = r.boot
             /\ ValidBatch(r.events)
  <2>1. CASE r = NoCall
    BY <2>1, NoCallFacts, QueueTypes DEF ValidBatch
  <2>2. CASE r # NoCall
    <3>1. PICK q \in Requests : r.boot = q.boot /\ r.events = q.events
      BY <2>2 DEF RequestsKept
    <3>2. ValidBatch(q.events)
      BY DEF QueueInv, BatchesAccepted, Requests
    <3> QED
      BY <3>1, <3>2 DEF QueueInv, RequestsOwned
  <2> QED
    BY <2>1, <2>2
<1>2. BatchesAccepted'
  BY <1>1 DEF BatchesAccepted, Requests, ValidBatch
<1> QED
  BY <1>1, <1>2

(* A committed row comes from its request. *)
LEMMA RowsStayOwned ==
  ASSUME TypeOK, QueueInv, [Next]_vars
  PROVE  \A row \in rows' : row.bootId = BootId[row.boot] /\ row.boot <= boot
<1>1. CASE ServeCall \/ ServeStale
  <2>1. PICK r \in Requests : Handle(r)
    BY <1>1, KeptByBackend
  <2>2. rows' = rows \/ rows' = rows \cup NewRows(r)
    BY <2>1 DEF Handle, Arrive, Commit
  <2>3. ASSUME NEW row \in NewRows(r)
        PROVE  row.bootId = BootId[row.boot] /\ row.boot <= boot
    BY NewRowFacts DEF QueueInv, RequestsOwned
  <2> QED
    BY <2>2, <2>3 DEF QueueInv, RowsOwned
<1>2. CASE ~(ServeCall \/ ServeStale)
  <2>1. rows' = rows
    BY <1>2 DEF Next, vars, world, Observe, SendHeartbeat, GiveUp, Receive,
                RecordApplied, ProcessAck, Reset, CallDies, StaleDies
  <2> QED
    BY <2>1 DEF QueueInv, RowsOwned
<1> QED
  BY <1>1, <1>2

LEMMA QueueNext == TypeOK /\ TypeOK' /\ QueueInv /\ [Next]_vars => QueueInv'
<1> SUFFICES ASSUME TypeOK, TypeOK', QueueInv, [Next]_vars PROVE QueueInv'
  OBVIOUS
<1>1. CASE SendHeartbeat \/ Reset
  BY <1>1, SendKeepsQueue, ResetKeepsQueue
<1>2. CASE ~SendHeartbeat /\ ~Reset
  <2>1. QueueMoved /\ RequestsKept /\ boot' = boot
    BY <1>2, StepShape DEF QueueMoved
  <2>2. QueueOrdered' /\ RequestsCoverQueue' /\ QueueKeepsRequests'
    BY <2>1, MovedOrdered, MovedCovers, MovedKeeps DEF QueueInv
  <2>3. RowsOwned' /\ BatchesAccepted'
    BY <2>1, RowsStayOwned, KeptOwned DEF RowsOwned
  <2>4. phase' # "idle" =>
          phase # "idle" /\ call'.boot = call.boot /\ call'.events = call.events
    BY <1>2, HandledFacts
       DEF Next, vars, queue, world, Observe, GiveUp, Receive, RecordApplied, ProcessAck,
           ServeCall, ServeStale, CallDies, StaleDies, TypeOK, Request
  <2>5. RequestsOwned'
    BY <2>1, <2>4, KeptOwned DEF RequestsOwned, QueueInv
  <2>6. phase' = "waiting" => phase = "waiting" /\ UNCHANGED pending
    BY <1>2 DEF Next, vars, queue, Observe, GiveUp, Receive, RecordApplied, ProcessAck,
                ServeCall, ServeStale, CallDies, StaleDies
  <2>7. WaitingSentBatch'
    BY <2>4, <2>6 DEF QueueInv, WaitingSentBatch, Batch, BatchSize
  <2> QED
    BY <2>2, <2>3, <2>5, <2>7 DEF QueueInv
<1> QED
  BY <1>1, <1>2

LEMMA QueueAlways == Spec => [](TypeOK /\ QueueInv)
BY InitTypes, NextTypes, QueueInit, QueueNext, PTL DEF Spec

(* The backend accepts every batch the firmware builds: at most MaxBatch     *)
(* events with positive increasing numbers, after any drops, acknowledgements *)
(* and resets.                                                               *)
THEOREM EveryBatchAccepted == Spec => []BatchesAccepted
<1>1. QueueInv => BatchesAccepted
  BY DEF QueueInv
<1> QED
  BY QueueAlways, <1>1, PTL
-----------------------------------------------------------------------------
(* The table and its order. *)

(* Only serving a request changes the table, the clock or who is late. *)
LEMMA QuietTable ==
  ASSUME [Next]_vars, ~ServeCall, ~ServeStale
  PROVE  UNCHANGED <<rows, clock, late>>
BY DEF Next, vars, world, history, Observe, SendHeartbeat, GiveUp, Receive,
       RecordApplied, ProcessAck, Reset, CallDies, StaleDies

LEMMA RowsGrow == ASSUME TypeOK, [Next]_vars PROVE rows \subseteq rows'
<1>1. CASE ServeCall \/ ServeStale
  BY <1>1, KeptByBackend, HandleRows
<1>2. CASE ~ServeCall /\ ~ServeStale
  BY <1>2, QuietTable
<1> QED
  BY <1>1, <1>2

LEMMA OneRowNext ==
  ASSUME TypeOK, QueueInv, OneRowPerIdentity, [Next]_vars
  PROVE  OneRowPerIdentity'
<1>1. CASE ServeCall \/ ServeStale
  <2>1. PICK r \in Requests : Handle(r)
    BY <1>1, KeptByBackend
  <2>2. CASE Arrive(r)
    BY <2>2 DEF Arrive, OneRowPerIdentity
  <2>3. CASE Commit(r)
    <3>1. rows' = rows \cup NewRows(r)
      BY <2>3 DEF Commit
    <3>2. ASSUME NEW r1 \in rows, NEW r2 \in NewRows(r)
          PROVE  ~(r1.bootId = r2.bootId /\ r1.seq = r2.seq)
      BY NewRowFacts DEF Stored
    <3>3. ASSUME NEW r1 \in NewRows(r), NEW r2 \in NewRows(r), r1.seq = r2.seq
          PROVE  r1 = r2
      <4>1. ASSUME NEW row \in NewRows(r)
            PROVE  row = [bootId |-> BootId[r.boot], seq |-> row.seq,
                          boot |-> r.boot, at |-> r.at]
        BY NewRowFacts DEF QueueInv, RequestsOwned
      <4>2. r1 = [bootId |-> BootId[r.boot], seq |-> r1.seq, boot |-> r.boot, at |-> r.at]
        BY <4>1
      <4>3. r2 = [bootId |-> BootId[r.boot], seq |-> r2.seq, boot |-> r.boot, at |-> r.at]
        BY <4>1
      <4> QED
        BY <3>3, <4>2, <4>3
    <3> QED
      BY <3>1, <3>2, <3>3 DEF OneRowPerIdentity
  <2> QED
    BY <2>1, <2>2, <2>3 DEF Handle
<1>2. CASE ~ServeCall /\ ~ServeStale
  BY <1>2, QuietTable DEF OneRowPerIdentity
<1> QED
  BY <1>1, <1>2

(* Whatever is retried, late or handled twice at once, an identity has one   *)
(* row, with the content of its first commit; even boots that drew the same  *)
(* boot ID do not overwrite each other.                                      *)
THEOREM StoredOnce == Spec => []OneRowPerIdentity
<1>1. Init => OneRowPerIdentity
  BY DEF Init, OneRowPerIdentity
<1>2. TypeOK /\ QueueInv /\ OneRowPerIdentity /\ [Next]_vars => OneRowPerIdentity'
  BY OneRowNext
<1> QED
  BY QueueAlways, <1>1, <1>2, PTL DEF Spec

(* An event of the running boot that is still queued is stored if a later    *)
(* one is, and none is stored that was not numbered.                         *)
RowsCoverQueue ==
  \A row \in rows : row.boot = boot =>
    /\ row.seq <= issued
    /\ \A i \in 1..Len(pending) :
         pending[i].seq < row.seq => Stored(BootId[boot], pending[i].seq)

Started == {r \in Requests : r.stage = "started"}

Carries(r, seq) == \E i \in 1..Len(r.events) : r.events[i].seq = seq

(* No time of receipt lies in the future. *)
StampsPast == /\ \A row \in rows : row.at <= clock
              /\ \A r \in Started : r.at <= clock

(* An event that a handler is still to store fits between the rows of its    *)
(* boot: the time it will be stored under is not out of order with theirs.   *)
StartedFitRows ==
  \A r \in Started, row \in rows :
    r.boot = row.boot /\ r.boot \notin late =>
      \A i \in 1..Len(r.events) :
        ~Stored(BootId[r.boot], r.events[i].seq) =>
          /\ r.events[i].seq < row.seq => r.at <= row.at
          /\ row.seq < r.events[i].seq => row.at <= r.at

(* Two handlers of one boot may commit in either order: where one has an     *)
(* event that the other has not, their times are in order.                   *)
StartedFitEachOther ==
  \A r, q \in Started :
    r.boot = q.boot /\ r.boot \notin late =>
      \A i \in 1..Len(r.events), j \in 1..Len(q.events) :
        ~Carries(q, r.events[i].seq) =>
          /\ r.events[i].seq < q.events[j].seq => r.at <= q.at
          /\ q.events[j].seq < r.events[i].seq => q.at <= r.at

OrderInv == /\ RowsCoverQueue
            /\ StampsPast
            /\ StartedFitRows /\ StartedFitEachOther
            /\ HistoryInOrder

LEMMA OrderInit == Init => OrderInv
<1> SUFFICES ASSUME Init PROVE OrderInv
  OBVIOUS
<1>1. rows = {} /\ Started = {}
  BY NoCallFacts DEF Init, Started, Requests
<1> QED
  BY <1>1 DEF OrderInv, RowsCoverQueue, StampsPast, StartedFitRows, StartedFitEachOther,
              HistoryInOrder

(* The device starts no handler: after its steps fewer are left, or the same. *)
LEMMA DeviceStartsNone ==
  ASSUME TypeOK, [Next]_vars, ~ServeCall, ~ServeStale
  PROVE  Started' \subseteq Started
<1>1. CASE SendHeartbeat
  BY <1>1, SentFacts DEF Started, Requests
<1>2. CASE ~SendHeartbeat
  <2>1. stale' \subseteq stale \cup {call}
    BY <1>2 DEF Next, vars, world, Observe, GiveUp, Receive,
                RecordApplied, ProcessAck, Reset, CallDies, StaleDies, Orphan
  <2>2. call' = call \/ call' = NoCall \/ call'.stage = "dead"
    BY <1>2 DEF Next, vars, world, Observe, GiveUp, Receive,
                RecordApplied, ProcessAck, Reset, CallDies, StaleDies, TypeOK, Request
  <2> QED
    BY <2>1, <2>2, NoCallFacts DEF Started, Requests
<1> QED
  BY <1>1, <1>2

LEMMA DeviceKeepsOrder ==
  ASSUME TypeOK, TypeOK', QueueInv, OrderInv, [Next]_vars, ~ServeCall, ~ServeStale
  PROVE  OrderInv'
<1>1. UNCHANGED <<rows, clock, late>> /\ Started' \subseteq Started
  BY QuietTable, DeviceStartsNone
<1>2. StampsPast' /\ HistoryInOrder'
  BY <1>1 DEF OrderInv, StampsPast, HistoryInOrder
<1>3. StartedFitRows' /\ StartedFitEachOther'
  BY <1>1 DEF OrderInv, StartedFitRows, StartedFitEachOther, Stored, Carries
<1>4. RowsCoverQueue'
  <2>1. CASE SendHeartbeat
    BY <1>1, <2>1, SentFacts DEF OrderInv, RowsCoverQueue, Stored
  <2>2. CASE Reset
    <3>1. boot' = boot + 1
      BY <2>2 DEF Reset
    <3>2. \A row \in rows : row.boot \in Nat /\ row.boot <= boot
      BY DEF QueueInv, RowsOwned, TypeOK, Boots
    <3>3. \A row \in rows : row.boot # boot'
      BY <3>1, <3>2, QueueTypes
    <3> QED
      BY <1>1, <3>3 DEF RowsCoverQueue
  <2>3. CASE ~SendHeartbeat /\ ~Reset
    <3>1. QueueMoved
      BY <2>3, StepShape
    <3>2. PICK d \in 0..Len(pending) :
            /\ Len(pending') \in {Len(pending) - d, Len(pending) - d + 1}
            /\ \A i \in 1..(Len(pending) - d) : pending'[i] = pending[i + d]
            /\ Len(pending') = Len(pending) - d + 1 =>
                 /\ issued < issued'
                 /\ pending'[Len(pending')] = [seq |-> issued', payload |-> boot]
      BY <3>1 DEF QueueMoved
    <3>3. boot' = boot /\ issued \in Nat /\ issued' \in Nat /\ issued <= issued'
      BY <3>1, QueueTypes DEF QueueMoved, TypeOK
    <3>4. ASSUME NEW row \in rows, row.boot = boot
          PROVE  /\ row.seq \in Nat /\ row.seq <= issued
                 /\ \A i \in 1..Len(pending) :
                      pending[i].seq < row.seq => Stored(BootId[boot], pending[i].seq)
      BY <3>4, DeliveryAssumption DEF TypeOK, OrderInv, RowsCoverQueue
    <3>5. ASSUME NEW row \in rows, row.boot = boot, NEW i \in 1..Len(pending'),
                 pending'[i].seq < row.seq
          PROVE  Stored(BootId[boot], pending'[i].seq)
      <4>1. CASE i + d \in 1..Len(pending) /\ pending'[i] = pending[i + d]
        BY <3>4, <3>5, <4>1
      <4>2. CASE pending'[i].seq = issued' /\ issued < issued'
        BY <3>3, <3>4, <3>5, <4>2
      <4> QED
        BY <3>2, <4>1, <4>2, MovedEvent
    <3>6. \A row \in rows : row.boot = boot => row.seq <= issued'
      BY <3>3, <3>4
    <3> QED
      BY <1>1, <3>3, <3>5, <3>6 DEF RowsCoverQueue, Stored
  <2> QED
    BY <2>1, <2>2, <2>3
<1> QED
  BY <1>2, <1>3, <1>4 DEF OrderInv

(* A handler commits: its rows are the ones the invariant made room for. *)
LEMMA CommitKeepsOrder ==
  ASSUME TypeOK, QueueInv, OrderInv, NEW r \in Requests, Commit(r),
         Started' \subseteq Started, UNCHANGED <<pending, issued, boot, late>>
  PROVE  OrderInv'
<1>1. /\ rows' = rows \cup NewRows(r) /\ clock' = clock /\ r \in Started
      /\ r.at \in Nat /\ clock \in Nat
  BY RequestTypes DEF Commit, Started, TypeOK
<1>2. ASSUME NEW row \in NewRows(r)
      PROVE  \E i \in 1..Len(r.events) :
               /\ ~Stored(BootId[r.boot], r.events[i].seq)
               /\ row.seq = r.events[i].seq /\ row.boot = r.boot /\ row.at = r.at
  BY NewRowFacts DEF QueueInv, RequestsOwned
<1>3. \A id, n : Stored(id, n) => Stored(id, n)'
  BY <1>1 DEF Stored
<1>4. ASSUME NEW n, Carries(r, n) PROVE Stored(BootId[r.boot], n)'
  <2>1. PICK i \in 1..Len(r.events) : r.events[i].seq = n
    BY <1>4 DEF Carries
  <2>2. CASE ~Stored(BootId[r.boot], n)
    <3> DEFINE new == [bootId |-> BootId[r.boot], seq |-> r.events[i].seq,
                       boot |-> r.events[i].payload, at |-> r.at]
    <3>1. new \in NewRows(r)
      BY <2>1, <2>2 DEF NewRows
    <3>2. new.bootId = BootId[r.boot] /\ new.seq = n
      BY <2>1
    <3> HIDE DEF new
    <3> QED
      BY <1>1, <3>1, <3>2 DEF Stored
  <2> QED
    BY <1>3, <2>2
<1>5. HistoryInOrder'
  <2>1. ASSUME NEW r1 \in rows', NEW r2 \in rows',
               r1.boot = r2.boot, r1.seq < r2.seq, r1.boot \notin late
        PROVE  r1.at <= r2.at
    <3>1. CASE r1 \in rows /\ r2 \in rows
      BY <2>1, <3>1 DEF OrderInv, HistoryInOrder
    <3>2. CASE r1 \in rows /\ r2 \in NewRows(r)
      BY <1>1, <1>2, <2>1, <3>2 DEF OrderInv, StartedFitRows
    <3>3. CASE r1 \in NewRows(r) /\ r2 \in rows
      BY <1>1, <1>2, <2>1, <3>3 DEF OrderInv, StartedFitRows
    <3>4. CASE r1 \in NewRows(r) /\ r2 \in NewRows(r)
      BY <1>1, <1>2, <3>4
    <3> QED
      BY <1>1, <3>1, <3>2, <3>3, <3>4
  <2> QED
    BY <1>1, <2>1 DEF HistoryInOrder
<1>6. StampsPast'
  BY <1>1, <1>2 DEF OrderInv, StampsPast
<1>7. StartedFitRows'
  <2>1. ASSUME NEW q \in Started, NEW row \in rows', q.boot = row.boot, q.boot \notin late,
               NEW i \in 1..Len(q.events), ~Stored(BootId[q.boot], q.events[i].seq)'
        PROVE  /\ q.events[i].seq < row.seq => q.at <= row.at
               /\ row.seq < q.events[i].seq => row.at <= q.at
    <3>1. CASE row \in rows
      BY <1>3, <2>1, <3>1 DEF OrderInv, StartedFitRows
    <3>2. CASE row \in NewRows(r)
      <4>1. PICK j \in 1..Len(r.events) :
              row.seq = r.events[j].seq /\ row.boot = r.boot /\ row.at = r.at
        BY <1>2, <3>2
      <4>2. ~Carries(r, q.events[i].seq)
        BY <1>4, <2>1, <4>1
      <4> QED
        BY <1>1, <2>1, <4>1, <4>2 DEF OrderInv, StartedFitEachOther
    <3> QED
      BY <1>1, <3>1, <3>2
  <2> QED
    BY <2>1 DEF StartedFitRows
<1>8. StartedFitEachOther'
  BY DEF OrderInv, StartedFitEachOther, Carries
<1>9. RowsCoverQueue'
  <2>1. ASSUME NEW row \in rows', row.boot = boot
        PROVE  /\ row.seq <= issued
               /\ \A i \in 1..Len(pending) :
                    pending[i].seq < row.seq => Stored(BootId[boot], pending[i].seq)'
    <3>1. CASE row \in rows
      BY <1>3, <2>1, <3>1 DEF OrderInv, RowsCoverQueue
    <3>2. CASE row \in NewRows(r)
      <4>1. PICK j \in 1..Len(r.events) : row.seq = r.events[j].seq /\ row.boot = r.boot
        BY <1>2, <3>2
      <4>2. /\ r.events[j].seq <= issued
            /\ \A i \in 1..Len(pending) :
                 pending[i].seq < r.events[j].seq => Carries(r, pending[i].seq)
        BY <2>1, <4>1 DEF QueueInv, RequestsCoverQueue, Carries
      <4> QED
        BY <1>4, <2>1, <4>1, <4>2
    <3> QED
      BY <1>1, <3>1, <3>2
  <2> QED
    BY <2>1 DEF RowsCoverQueue
<1> QED
  BY <1>5, <1>6, <1>7, <1>8, <1>9 DEF OrderInv

(* The open call arrives, with the front of the queue: the handlers and rows *)
(* there are have all of it that comes before what they have.                *)
LEMMA ArrivalKeepsOrder ==
  ASSUME TypeOK, TypeOK', QueueInv, OrderInv, ServeCall, Arrive(call)
  PROVE  OrderInv'
<1>1. /\ UNCHANGED <<pending, issued, boot, stale, rows, late>>
      /\ phase = "waiting" /\ call.events = Batch /\ call.boot = boot
      /\ call' = Handled(call) /\ call \in Requests /\ call.stage = "sent"
  BY DEF ServeCall, Arrive, queue, history, QueueInv, WaitingSentBatch, RequestsOwned,
         Requests
<1>2. /\ call'.boot = boot /\ call'.events = Batch
      /\ call'.at = IF Batch = <<>> THEN 0 ELSE clock + 1
      /\ clock' = IF Batch = <<>> THEN clock ELSE clock + 1
      /\ clock \in Nat
  BY <1>1, HandledFacts, RequestTypes DEF Arrive, TypeOK
<1>3. Started' \subseteq Started \cup {call'}
  BY <1>1 DEF Started, Requests
<1>4. /\ \A i \in 1..Len(Batch) :
           /\ i \in 1..Len(pending) /\ Batch[i] = pending[i]
           /\ Batch[i].payload = boot /\ Batch[i].seq \in 1..issued
      /\ \A i \in 1..Len(pending), j \in 1..Len(Batch) :
           pending[i].seq <= Batch[j].seq => i <= j
      /\ \A i \in 1..Len(pending) : i <= MaxBatch => i \in 1..Len(Batch)
  BY BatchIsFront DEF QueueInv
<1>5. ASSUME NEW i \in 1..Len(Batch) PROVE call'.at = clock + 1 /\ clock' = clock + 1
  <2>1. Len(Batch) > 0 /\ Batch # <<>>
    BY <1>5, BatchFacts, QueueTypes
  <2> QED
    BY <1>2, <2>1
<1>6. HistoryInOrder' /\ RowsCoverQueue'
  BY <1>1 DEF OrderInv, HistoryInOrder, RowsCoverQueue, Stored
<1>7. StampsPast'
  <2>1. clock <= clock' /\ call'.at <= clock'
    BY <1>2
  <2>2. \A row \in rows : row.at \in Nat
    BY DEF TypeOK
  <2>3. \A r \in Started : r.at \in Nat
    BY RequestTypes DEF Started
  <2> QED
    BY <1>1, <1>2, <1>3, <2>1, <2>2, <2>3 DEF OrderInv, StampsPast, TypeOK
<1>8. StartedFitRows'
  <2>1. ASSUME NEW row \in rows, row.boot = boot, NEW i \in 1..Len(Batch),
               ~Stored(BootId[boot], Batch[i].seq)
        PROVE  /\ ~(Batch[i].seq < row.seq)
               /\ row.at <= call'.at
    <3>1. ~(Batch[i].seq < row.seq)
      BY <1>4, <2>1 DEF OrderInv, RowsCoverQueue
    <3>2. row.at \in Nat /\ row.at <= clock
      BY DEF TypeOK, OrderInv, StampsPast
    <3> QED
      BY <1>2, <1>5, <3>1, <3>2
  <2> QED
    BY <1>1, <1>2, <1>3, <2>1 DEF OrderInv, StartedFitRows, Stored
<1>9. StartedFitEachOther'
  <2>1. ASSUME NEW q \in Started, q.boot = boot
        PROVE  /\ q \in Requests /\ q.at \in Nat /\ q.at <= clock
               /\ \A j \in 1..Len(q.events) :
                    q.events[j].seq \in Nat /\ j \in 1..MaxBatch
    <3>1. q \in Requests /\ q.at \in Nat
      BY RequestTypes DEF Started
    <3>2. q.at <= clock
      BY DEF OrderInv, StampsPast
    <3>3. Len(q.events) \in Nat /\ Len(q.events) <= MaxBatch
      BY <3>1, RequestTypes DEF QueueInv, BatchesAccepted, Requests, ValidBatch
    <3>4. ASSUME NEW j \in 1..Len(q.events)
          PROVE  q.events[j].seq \in Nat /\ j \in 1..MaxBatch
      BY <3>1, <3>3, RequestTypes, QueueTypes
    <3> QED
      BY <3>1, <3>2, <3>4
  <2>2. ASSUME NEW q \in Started, q.boot = boot,
               NEW i \in 1..Len(Batch), NEW j \in 1..Len(q.events),
               ~Carries(q, Batch[i].seq)
        PROVE  /\ ~(Batch[i].seq < q.events[j].seq)
               /\ q.at <= call'.at
    <3>1. ~(Batch[i].seq < q.events[j].seq)
      <4>1. i \in 1..Len(pending) /\ Batch[i].seq = pending[i].seq
        BY <1>4
      <4>2. pending[i].seq < q.events[j].seq =>
              \E k \in 1..Len(q.events) : q.events[k].seq = pending[i].seq
        BY <2>1, <2>2, <4>1 DEF QueueInv, RequestsCoverQueue
      <4> QED
        BY <2>2, <4>1, <4>2 DEF Carries
    <3> QED
      BY <1>2, <1>5, <2>1, <2>2, <3>1
  <2>3. ASSUME NEW q \in Started, q.boot = boot,
               NEW i \in 1..Len(q.events), NEW j \in 1..Len(Batch),
               \A k \in 1..Len(Batch) : Batch[k].seq # q.events[i].seq
        PROVE  /\ q.at <= call'.at
               /\ ~(Batch[j].seq < q.events[i].seq)
    <3>1. q.at <= call'.at
      BY <1>2, <1>5, <2>1, <2>3
    <3>2. ASSUME Batch[j].seq < q.events[i].seq PROVE FALSE
      <4>1. j \in 1..Len(pending) /\ Batch[j] = pending[j] /\ Batch[j].seq \in Nat
        BY <1>4, QueueTypes
      <4>2. 1 \in 1..Len(pending) /\ pending[1].seq \in Nat /\ Len(pending) > 0
        BY <4>1, QueueTypes
      <4>3. pending[1].seq <= pending[j].seq
        <5>1. 1 < j => pending[1].seq < pending[j].seq
          BY <4>1, <4>2 DEF QueueInv, QueueOrdered
        <5>2. j = 1 \/ 1 < j
          BY <4>1, QueueTypes
        <5> QED
          BY <4>1, <4>2, <5>1, <5>2
      <4>4. pending[1].seq <= q.events[i].seq
        BY <2>1, <2>3, <3>2, <4>1, <4>2, <4>3
      <4>5. PICK k \in 1..Len(pending) : k <= i /\ pending[k].seq = q.events[i].seq
        BY <2>1, <2>3, <4>2, <4>4 DEF QueueInv, QueueKeepsRequests
      <4>6. k \in 1..Len(Batch)
        BY <1>4, <2>1, <2>3, <4>5, QueueTypes
      <4> QED
        BY <1>4, <2>3, <4>5, <4>6
    <3> QED
      BY <3>1, <3>2
  <2>4. ASSUME NEW r \in Started', NEW q \in Started', r.boot = q.boot, r.boot \notin late,
               NEW i \in 1..Len(r.events), NEW j \in 1..Len(q.events),
               ~Carries(q, r.events[i].seq)
        PROVE  /\ r.events[i].seq < q.events[j].seq => r.at <= q.at
               /\ q.events[j].seq < r.events[i].seq => q.at <= r.at
    <3>1. CASE r \in Started /\ q \in Started
      BY <2>4, <3>1 DEF OrderInv, StartedFitEachOther
    <3>2. CASE r = call' /\ q \in Started
      BY <1>2, <2>2, <2>4, <3>2
    <3>3. CASE r \in Started /\ q = call'
      BY <1>2, <2>3, <2>4, <3>3 DEF Carries
    <3>4. CASE r = call' /\ q = call'
      BY <2>4, <3>4 DEF Carries
    <3> QED
      BY <1>3, <3>1, <3>2, <3>3, <3>4
  <2> QED
    BY <1>1, <2>4 DEF StartedFitEachOther, Carries
<1> QED
  BY <1>6, <1>7, <1>8, <1>9 DEF OrderInv

(* A request given up arrives: from now on its boot is late. *)
LEMMA LateArrivalKeepsOrder ==
  ASSUME TypeOK, TypeOK', OrderInv, ServeStale, NEW r \in stale, Arrive(r),
         stale' = (stale \ {r}) \cup Orphan(Handled(r)), late' = late \cup {r.boot}
  PROVE  OrderInv'
<1>1. /\ UNCHANGED <<pending, issued, boot, call, rows>>
      /\ r \in Requests /\ r.stage = "sent"
  BY DEF ServeStale, Arrive, queue, Requests
<1>2. /\ Handled(r).boot = r.boot
      /\ Handled(r).at = IF r.events = <<>> THEN 0 ELSE clock + 1
      /\ clock' = IF r.events = <<>> THEN clock ELSE clock + 1
      /\ clock \in Nat
  BY <1>1, HandledFacts, RequestTypes DEF Arrive, TypeOK
<1>3. Started' \subseteq Started \cup {Handled(r)}
  BY <1>1 DEF Started, Requests, Orphan
<1>4. HistoryInOrder' /\ RowsCoverQueue'
  BY <1>1 DEF OrderInv, HistoryInOrder, RowsCoverQueue, Stored
<1>5. StampsPast'
  <2>1. clock <= clock' /\ Handled(r).at <= clock'
    BY <1>2
  <2>2. \A row \in rows : row.at \in Nat /\ row.at <= clock
    BY DEF TypeOK, OrderInv, StampsPast
  <2>3. \A q \in Started : q.at \in Nat /\ q.at <= clock
    BY RequestTypes DEF Started, OrderInv, StampsPast
  <2>4. clock' \in Nat
    BY DEF TypeOK
  <2>5. \A row \in rows : row.at <= clock'
    BY <1>2, <2>1, <2>2, <2>4
  <2>6. \A q \in Started : q.at <= clock'
    BY <1>2, <2>1, <2>3, <2>4
  <2> QED
    BY <1>1, <1>3, <2>1, <2>5, <2>6 DEF StampsPast
<1>6. StartedFitRows' /\ StartedFitEachOther'
  BY <1>1, <1>2, <1>3 DEF OrderInv, StartedFitRows, StartedFitEachOther, Stored, Carries
<1> QED
  BY <1>4, <1>5, <1>6 DEF OrderInv

LEMMA OrderNext ==
  TypeOK /\ TypeOK' /\ QueueInv /\ OrderInv /\ [Next]_vars => OrderInv'
<1> SUFFICES ASSUME TypeOK, TypeOK', QueueInv, OrderInv, [Next]_vars PROVE OrderInv'
  OBVIOUS
<1>1. ASSUME NEW r \in Requests, Commit(r),
             Requests' \subseteq Requests \cup {Handled(r)}
      PROVE  Started' \subseteq Started
  <2>1. Handled(r).stage = "committed"
    BY <1>1, HandledFacts, RequestTypes DEF Commit
  <2> QED
    BY <1>1, <2>1 DEF Started
<1>2. CASE ServeCall
  <2>1. /\ call \in Requests /\ UNCHANGED <<pending, issued, boot, late>>
        /\ Requests' \subseteq Requests \cup {Handled(call)}
        /\ Arrive(call) \/ Commit(call)
    BY <1>2 DEF ServeCall, Handle, Requests, queue, history
  <2> QED
    BY <1>1, <1>2, <2>1, ArrivalKeepsOrder, CommitKeepsOrder
<1>3. CASE ServeStale
  <2>1. PICK r \in stale :
          /\ Handle(r)
          /\ stale' = (stale \ {r}) \cup Orphan(Handled(r))
          /\ late' = IF r.stage = "sent" THEN late \cup {r.boot} ELSE late
    BY <1>3 DEF ServeStale
  <2>2. /\ r \in Requests /\ UNCHANGED <<pending, issued, boot>>
        /\ Requests' \subseteq Requests \cup {Handled(r)}
    BY <1>3, <2>1 DEF ServeStale, Requests, queue, Orphan
  <2>3. CASE Arrive(r)
    BY <1>3, <2>1, <2>3, LateArrivalKeepsOrder DEF Arrive
  <2>4. CASE Commit(r)
    BY <1>1, <2>1, <2>2, <2>4, CommitKeepsOrder DEF Commit
  <2> QED
    BY <2>1, <2>3, <2>4 DEF Handle
<1>4. CASE ~ServeCall /\ ~ServeStale
  BY <1>4, DeviceKeepsOrder
<1> QED
  BY <1>2, <1>3, <1>4

(* The history of a boot whose requests all arrived in their calls is sorted *)
(* by received_at as the device numbered its events, in whatever order       *)
(* handlers commit and whatever the buffer dropped, and also when two boots  *)
(* drew the same boot ID.                                                    *)
THEOREM HistorySorted == Spec => []HistoryInOrder
<1>1. OrderInv => HistoryInOrder
  BY DEF OrderInv
<1> QED
  BY QueueAlways, OrderInit, OrderNext, <1>1, PTL DEF Spec
-----------------------------------------------------------------------------
(* The table holds what was acknowledged, and what was not dropped. *)

(* A call that may be answered has its events in the table. *)
AnsweredIsStored ==
  /\ phase = "applying" => call.stage = "committed"
  /\ call.stage = "committed" =>
       \A i \in 1..Len(call.events) : StoredFrom(call.boot, call.events[i].seq)

(* What comes before an event of a request is in it, stored or dropped. *)
RequestsComplete ==
  \A r \in Requests : \A i \in 1..Len(r.events) :
    \A s \in 1..(r.events[i].seq - 1) :
      Carries(r, s) \/ StoredFrom(r.boot, s) \/ <<r.boot, s>> \in gone

StoreInv == /\ AnsweredIsStored /\ AckedImpliesStored
            /\ NothingLost /\ RequestsComplete
            /\ GapsAreDrops

LEMMA StoreInit == Init => StoreInv
<1> SUFFICES ASSUME Init PROVE StoreInv
  OBVIOUS
<1>1. /\ rows = {} /\ acknowledged = {} /\ phase = "idle" /\ issued = 0
      /\ call = NoCall /\ Requests = {NoCall}
  BY DEF Init, Requests
<1>2. AnsweredIsStored /\ AckedImpliesStored /\ GapsAreDrops
  BY <1>1, NoCallFacts DEF AnsweredIsStored, AckedImpliesStored, GapsAreDrops
<1>3. NothingLost /\ RequestsComplete
  BY <1>1, NoCallFacts DEF NothingLost, RequestsComplete
<1> QED
  BY <1>2, <1>3 DEF StoreInv

LEMMA StoredStays ==
  ASSUME rows \subseteq rows', NEW b, NEW n, StoredFrom(b, n)
  PROVE  StoredFrom(b, n)'
BY DEF StoredFrom

(* After its commit, every event of a request is stored under its boot. *)
LEMMA CommitStores ==
  ASSUME DistinctBootIds, TypeOK, QueueInv, NEW r \in Requests, r.boot \in Boots,
         Commit(r), NEW n, Carries(r, n)
  PROVE  StoredFrom(r.boot, n)'
<1>1. rows' = rows \cup NewRows(r)
  BY DEF Commit
<1>2. PICK i \in 1..Len(r.events) : r.events[i].seq = n
  BY DEF Carries
<1>3. CASE Stored(BootId[r.boot], n)
  <2>1. PICK row \in rows : row.bootId = BootId[r.boot] /\ row.seq = n
    BY <1>3 DEF Stored
  <2>2. row.bootId = BootId[row.boot] /\ row.boot \in Boots
    BY DEF QueueInv, TypeOK, RowsOwned
  <2>3. row.boot = r.boot
    BY <2>1, <2>2 DEF DistinctBootIds
  <2> QED
    BY <1>1, <2>1, <2>3 DEF StoredFrom
<1>4. CASE ~Stored(BootId[r.boot], n)
  <2> DEFINE new == [bootId |-> BootId[r.boot], seq |-> r.events[i].seq,
                     boot |-> r.events[i].payload, at |-> r.at]
  <2>1. new \in NewRows(r)
    BY <1>2, <1>4 DEF NewRows
  <2>2. new.boot = r.boot /\ new.seq = n
    BY <1>2 DEF QueueInv, RequestsOwned
  <2> HIDE DEF new
  <2> QED
    BY <1>1, <2>1, <2>2 DEF StoredFrom
<1> QED
  BY <1>3, <1>4

(* A request with events is one of a boot. *)
LEMMA CarrierHasBoot ==
  ASSUME TypeOK, QueueInv, NEW r \in Requests, NEW i \in 1..Len(r.events)
  PROVE  r.boot \in Boots
BY RequestTypes DEF QueueInv, RequestsOwned

LEMMA GoneGrows == ASSUME [Next]_vars PROVE gone \subseteq gone'
<1>1. CASE Observe \/ RecordApplied
  BY <1>1 DEF Observe, RecordApplied, Record
<1>2. CASE ~Observe /\ ~RecordApplied
  BY <1>2 DEF Next, vars, history, SendHeartbeat, GiveUp, Receive, ProcessAck, Reset,
              ServeCall, ServeStale, CallDies, StaleDies
<1> QED
  BY <1>1, <1>2

(* A recorded event is queued; one that leaves the queue for it is dropped. *)
LEMMA RecordLoses ==
  ASSUME TypeOK, Record
  PROVE  /\ \A i \in 1..Len(pending) :
              \/ \E k \in 1..Len(pending') : pending'[k].seq = pending[i].seq
              \/ <<boot, pending[i].seq>> \in gone'
         /\ \/ issued' = issued
            \/ /\ issued' = issued + 1
               /\ \E k \in 1..Len(pending') : pending'[k].seq = issued'
<1> USE DeliveryAssumption
<1>0. /\ pending \in Seq(Event) /\ Len(pending) <= Capacity /\ Len(pending) \in Nat
      /\ issued \in 0..MaxSeq /\ boot \in Boots
  BY QueueTypes
<1>1. CASE issued >= MaxSeq
  <2>1. UNCHANGED <<pending, issued>>
    BY <1>0, <1>1 DEF Record, queue
  <2> QED
    BY <1>0, <2>1
<1>2. CASE issued < MaxSeq
  <2> DEFINE e == [seq |-> issued + 1, payload |-> boot]
  <2>1. e \in Event
    BY <1>0, <1>2 DEF Event
  <2>2. /\ issued' = issued + 1 /\ pending' = Q!Pushed(pending, e)
        /\ gone' = IF Len(pending) = Capacity
                   THEN gone \cup {<<boot, Head(pending).seq>>} ELSE gone
    BY <1>2 DEF Record
  <2>3. e.seq = issued'
    BY <2>2
  <2> HIDE DEF e
  <2>4. CASE Len(pending) = Capacity
    <3>1. pending' = Append(Tail(pending), e) /\ Head(pending) = pending[1]
      BY <1>0, <2>2, <2>4 DEF Q!Pushed
    <3>2. /\ Tail(pending) \in Seq(Event) /\ Len(Tail(pending)) = Len(pending) - 1
          /\ \A k \in 1..(Len(pending) - 1) : Tail(pending)[k] = pending[k + 1]
      BY <1>0, <2>4
    <3>3. /\ Len(pending') = Len(pending) /\ pending'[Len(pending)] = e
          /\ \A k \in 1..(Len(pending) - 1) : pending'[k] = pending[k + 1]
      BY <1>0, <2>1, <2>4, <3>1, <3>2
    <3>4. ASSUME NEW i \in 1..Len(pending), i # 1
          PROVE  \E k \in 1..Len(pending') : pending'[k].seq = pending[i].seq
      <4> DEFINE m == i - 1
      <4>1. m \in 1..(Len(pending) - 1) /\ m + 1 = i /\ m \in 1..Len(pending')
        BY <1>0, <3>3, <3>4
      <4>2. pending'[m] = pending[i]
        BY <3>3, <4>1
      <4> HIDE DEF m
      <4> QED
        BY <4>1, <4>2
    <3>5. <<boot, pending[1].seq>> \in gone'
      BY <2>2, <2>4, <3>1
    <3>6. Len(pending) \in 1..Len(pending') /\ pending'[Len(pending)].seq = issued'
      BY <1>0, <2>3, <2>4, <3>3
    <3> QED
      BY <2>2, <3>4, <3>5, <3>6
  <2>5. CASE Len(pending) # Capacity
    <3>1. pending' = Append(pending, e)
      BY <2>2, <2>5 DEF Q!Pushed
    <3>2. /\ Len(pending') = Len(pending) + 1 /\ pending'[Len(pending) + 1] = e
          /\ \A k \in 1..Len(pending) : pending'[k] = pending[k]
      BY <1>0, <2>1, <3>1
    <3>3. \A i \in 1..Len(pending) : i \in 1..Len(pending')
      BY <1>0, <3>2
    <3>4. Len(pending) + 1 \in 1..Len(pending')
      BY <1>0, <3>2
    <3> QED
      BY <2>2, <2>3, <3>2, <3>3, <3>4
  <2> QED
    BY <2>4, <2>5
<1> QED
  BY <1>0, <1>1, <1>2

LEMMA RecordComplete ==
  ASSUME TypeOK, NothingLost, Record, UNCHANGED <<boot, rows>>, gone \subseteq gone'
  PROVE  NothingLost'
<1>1. issued \in Nat
  BY QueueTypes
<1>2. ASSUME NEW s \in 1..issued'
      PROVE  \/ \E i \in 1..Len(pending') : pending'[i].seq = s
             \/ StoredFrom(boot, s) \/ <<boot, s>> \in gone'
  <2>1. CASE s \in 1..issued
    <3>1. \/ \E i \in 1..Len(pending) : pending[i].seq = s
          \/ StoredFrom(boot, s) \/ <<boot, s>> \in gone
      BY <2>1 DEF NothingLost
    <3> QED
      BY <3>1, RecordLoses
  <2>2. CASE s \notin 1..issued
    <3>1. s = issued' /\ issued' = issued + 1
      BY <1>1, <1>2, <2>2, RecordLoses
    <3> QED
      BY <1>1, <3>1, RecordLoses
  <2> QED
    BY <2>1, <2>2
<1> QED
  BY <1>2 DEF NothingLost, StoredFrom

(* What an acknowledgement removes was sent by the call, and so is stored. *)
LEMMA AckedWasSent ==
  ASSUME TypeOK, QueueInv, StoreInv, phase = "applying", AckAccepted(call),
         NEW i \in 1..Len(pending), pending[i].seq <= EventsAck(call)
  PROVE  StoredFrom(boot, pending[i].seq)
<1>1. /\ call \in Requests /\ call.boot = boot
      /\ \A j \in 1..Len(call.events) : StoredFrom(boot, call.events[j].seq)
  BY DEF QueueInv, RequestsOwned, StoreInv, AnsweredIsStored, Requests
<1> DEFINE n == Len(call.events)
<1>2. n \in 1..Len(call.events) /\ EventsAck(call) = call.events[n].seq
  BY <1>1, RequestTypes DEF AckAccepted, EventsAck
<1> HIDE DEF n
<1>3. call.events[n].seq \in Nat /\ pending[i].seq \in Nat
  <2>1. call.events[n].seq \in Nat
    BY <1>1, <1>2, RequestTypes, DeliveryAssumption
  <2>2. pending[i].seq \in Nat
    BY QueueTypes
  <2> QED
    BY <2>1, <2>2
<1>4. pending[i].seq < call.events[n].seq =>
        \E k \in 1..Len(call.events) : call.events[k].seq = pending[i].seq
  BY <1>1, <1>2 DEF QueueInv, RequestsCoverQueue
<1>5. pending[i].seq < call.events[n].seq \/ pending[i].seq = call.events[n].seq
  BY <1>2, <1>3
<1> QED
  BY <1>1, <1>2, <1>4, <1>5

LEMMA AckKeepsStore ==
  ASSUME TypeOK, QueueInv, StoreInv, ProcessAck
  PROVE  AckedImpliesStored' /\ NothingLost'
<1>1. UNCHANGED <<boot, rows, gone>> /\ phase = "applying"
  BY DEF ProcessAck, world
<1>2. CASE AckAccepted(call)
  <2>1. PICK k \in 0..Len(pending) :
          /\ Q!Covers(pending, EventsAck(call), k)
          /\ pending' = SubSeq(pending, k + 1, Len(pending))
          /\ acknowledged' = acknowledged \cup {<<boot, pending[i].seq>> : i \in 1..k}
          /\ issued' = issued
    BY <1>2 DEF ProcessAck
  <2>2. ASSUME NEW i \in 1..k PROVE StoredFrom(boot, pending[i].seq)
    <3>1. i \in 1..Len(pending) /\ pending[i].seq <= EventsAck(call)
      BY <2>1, QueueTypes DEF Q!Covers
    <3> QED
      BY <1>1, <1>2, <3>1, AckedWasSent
  <2>3. AckedImpliesStored'
    <3>1. ASSUME NEW e \in acknowledged'
          PROVE  \E row \in rows : row.boot = e[1] /\ row.seq = e[2]
      <4>1. CASE e \in acknowledged
        BY <4>1 DEF StoreInv, AckedImpliesStored
      <4>2. CASE e \notin acknowledged
        <5>1. PICK i \in 1..k : e = <<boot, pending[i].seq>>
          BY <2>1, <4>2
        <5> QED
          BY <2>2, <5>1 DEF StoredFrom
      <4> QED
        BY <4>1, <4>2
    <3> QED
      BY <1>1, <3>1 DEF AckedImpliesStored
  <2>4. ASSUME NEW s \in 1..issued
        PROVE  \/ \E i \in 1..Len(pending') : pending'[i].seq = s
               \/ StoredFrom(boot, s) \/ <<boot, s>> \in gone
    <3>1. CASE \E i \in 1..Len(pending) : pending[i].seq = s
      <4>1. PICK i \in 1..Len(pending) : pending[i].seq = s
        BY <3>1
      <4>2. CASE i <= k
        BY <2>2, <4>1, <4>2, QueueTypes
      <4>3. CASE i > k
        <5> DEFINE m == i - k
        <5>1. m \in 1..Len(pending') /\ pending'[m] = pending[i]
          BY <2>1, <4>3, QueueTypes
        <5> HIDE DEF m
        <5> QED
          BY <4>1, <5>1
      <4>4. i <= k \/ i > k
        BY QueueTypes
      <4> QED
        BY <4>2, <4>3, <4>4
    <3> QED
      BY <3>1 DEF StoreInv, NothingLost
  <2> QED
    BY <1>1, <2>1, <2>3, <2>4 DEF NothingLost, StoredFrom
<1>3. CASE ~AckAccepted(call)
  <2>1. UNCHANGED <<pending, issued, acknowledged>>
    BY <1>3 DEF ProcessAck, queue
  <2> QED
    BY <1>1, <2>1 DEF StoreInv, AckedImpliesStored, NothingLost, StoredFrom
<1> QED
  BY <1>2, <1>3

LEMMA AckedNext ==
  ASSUME TypeOK, QueueInv, StoreInv, [Next]_vars
  PROVE  AckedImpliesStored'
<1>1. CASE ProcessAck
  BY <1>1, AckKeepsStore
<1>2. CASE ~ProcessAck
  <2>1. acknowledged' = acknowledged
    BY <1>2 DEF Next, vars, history, Observe, SendHeartbeat, GiveUp, Receive, RecordApplied,
                Reset, ServeCall, ServeStale, CallDies, StaleDies
  <2> QED
    BY <2>1, RowsGrow DEF StoreInv, AckedImpliesStored
<1> QED
  BY <1>1, <1>2

LEMMA AnsweredNext ==
  ASSUME DistinctBootIds, TypeOK, QueueInv, StoreInv, [Next]_vars
  PROVE  AnsweredIsStored'
<1>1. CASE ServeCall
  <2>1. /\ phase = "waiting" /\ phase' = "waiting" /\ Handle(call) /\ call' = Handled(call)
        /\ call \in Requests /\ call.boot = boot /\ boot \in Boots
    BY <1>1, QueueTypes DEF ServeCall, QueueInv, RequestsOwned, Requests
  <2>2. /\ call'.boot = call.boot /\ call'.events = call.events
        /\ call'.stage = "committed" => call.stage # "sent"
    BY <2>1, HandledFacts, RequestTypes
  <2>3. ASSUME call'.stage = "committed", NEW i \in 1..Len(call.events)
        PROVE  StoredFrom(call.boot, call.events[i].seq)'
    <3>1. Commit(call)
      BY <2>1, <2>2, <2>3 DEF Handle, Arrive
    <3>2. Carries(call, call.events[i].seq)
      BY DEF Carries
    <3>3. \E row \in rows' : row.boot = call.boot /\ row.seq = call.events[i].seq
      BY <2>1, <3>1, <3>2, CommitStores DEF StoredFrom
    <3> QED
      BY <2>2, <3>3 DEF StoredFrom
  <2> QED
    BY <2>1, <2>2, <2>3 DEF AnsweredIsStored, StoredFrom
<1>2. CASE ~ServeCall
  <2>1. /\ call'.stage = "committed" => call' = call
        /\ phase' = "applying" => call'.stage = "committed"
    BY <1>2, NoCallFacts
       DEF Next, vars, Observe, SendHeartbeat, GiveUp, Receive, Answered, RecordApplied,
           ProcessAck, Reset, ServeStale, CallDies, StaleDies, TypeOK, Request,
           StoreInv, AnsweredIsStored
  <2> QED
    BY <2>1, RowsGrow DEF StoreInv, AnsweredIsStored, StoredFrom
<1> QED
  BY <1>1, <1>2

LEMMA NothingLostNext ==
  ASSUME TypeOK, QueueInv, StoreInv, [Next]_vars
  PROVE  NothingLost'
<1>1. gone \subseteq gone' /\ rows \subseteq rows' /\ NothingLost
  BY GoneGrows, RowsGrow DEF StoreInv
<1>2. CASE Observe \/ RecordApplied
  <2>1. Record /\ UNCHANGED <<boot, rows>>
    BY <1>2 DEF Observe, RecordApplied, world
  <2> QED
    BY <1>1, <2>1, RecordComplete
<1>3. CASE ProcessAck
  BY <1>3, AckKeepsStore
<1>4. CASE Reset
  BY <1>4 DEF Reset, NothingLost
<1>5. CASE ~(Observe \/ RecordApplied) /\ ~ProcessAck /\ ~Reset
  <2>1. UNCHANGED <<pending, issued, boot>>
    BY <1>5 DEF Next, vars, queue, SendHeartbeat, GiveUp, Receive, ServeCall, ServeStale,
                CallDies, StaleDies
  <2> QED
    BY <1>1, <2>1 DEF NothingLost, StoredFrom
<1> QED
  BY <1>2, <1>3, <1>4, <1>5

(* A batch misses nothing: it is the front of a complete queue. *)
LEMMA RequestsCompleteNext ==
  ASSUME TypeOK, QueueInv, StoreInv, [Next]_vars
  PROVE  RequestsComplete'
<1>1. gone \subseteq gone' /\ rows \subseteq rows'
  BY GoneGrows, RowsGrow
<1>2. ASSUME NEW r \in Requests, NEW i \in 1..Len(r.events),
             NEW s \in 1..(r.events[i].seq - 1)
      PROVE  Carries(r, s) \/ StoredFrom(r.boot, s)' \/ <<r.boot, s>> \in gone'
  BY <1>1, StoredStays DEF StoreInv, RequestsComplete
<1>3. CASE RequestsKept
  <2> SUFFICES ASSUME NEW r \in Requests', NEW i \in 1..Len(r.events),
                      NEW s \in 1..(r.events[i].seq - 1)
               PROVE  Carries(r, s) \/ StoredFrom(r.boot, s)' \/ <<r.boot, s>> \in gone'
    BY DEF RequestsComplete, StoredFrom, Carries
  <2>1. r # NoCall
    BY NoCallFacts
  <2>2. PICK q \in Requests : r.boot = q.boot /\ r.events = q.events
    BY <1>3, <2>1 DEF RequestsKept
  <2>3. Carries(q, s) \/ StoredFrom(q.boot, s)' \/ <<q.boot, s>> \in gone'
    BY <1>2, <2>2
  <2> QED
    BY <2>2, <2>3 DEF Carries, StoredFrom
<1>4. CASE SendHeartbeat
  <2>1. /\ call'.boot = boot /\ call'.events = Batch /\ Requests' = {call'} \cup stale
        /\ stale \subseteq Requests /\ UNCHANGED <<rows, boot>>
    BY <1>4, SentFacts DEF Requests
  <2>2. ASSUME NEW i \in 1..Len(Batch), NEW s \in 1..(Batch[i].seq - 1)
        PROVE  \/ \E k \in 1..Len(Batch) : Batch[k].seq = s
               \/ StoredFrom(boot, s) \/ <<boot, s>> \in gone
    <3>1. Batch[i].seq \in 1..issued
      BY BatchIsFront DEF QueueInv
    <3>2. s \in 1..issued /\ s < Batch[i].seq
      BY <3>1, QueueTypes
    <3>3. CASE \E k \in 1..Len(pending) : pending[k].seq = s
      <4>1. PICK k \in 1..Len(pending) : pending[k].seq = s
        BY <3>3
      <4>2. pending[k].seq <= Batch[i].seq
        BY <3>1, <3>2, <4>1
      <4>3. k <= i
        BY <4>2, BatchIsFront DEF QueueInv
      <4>4. k \in 1..Len(Batch)
        BY <4>3, BatchFacts, QueueTypes
      <4>5. Batch[k] = pending[k]
        BY <4>4, BatchIsFront DEF QueueInv
      <4> QED
        BY <4>1, <4>4, <4>5
    <3> QED
      BY <3>2, <3>3 DEF StoreInv, NothingLost
  <2>3. \A r \in stale : \A i \in 1..Len(r.events) : \A s \in 1..(r.events[i].seq - 1) :
          Carries(r, s) \/ StoredFrom(r.boot, s)' \/ <<r.boot, s>> \in gone'
    BY <1>2, <2>1
  <2>4. \A i \in 1..Len(Batch) : \A s \in 1..(Batch[i].seq - 1) :
          \/ \E k \in 1..Len(Batch) : Batch[k].seq = s
          \/ StoredFrom(boot, s)' \/ <<boot, s>> \in gone'
    BY <1>1, <2>1, <2>2 DEF StoredFrom
  <2> QED
    BY <2>1, <2>3, <2>4 DEF RequestsComplete, Carries, StoredFrom
<1>5. RequestsKept \/ SendHeartbeat
  BY StepShape, KeptByEnd
<1> QED
  BY <1>3, <1>4, <1>5

LEMMA GapsNext ==
  ASSUME DistinctBootIds, TypeOK, QueueInv, StoreInv, [Next]_vars
  PROVE  GapsAreDrops'
<1>1. gone \subseteq gone' /\ rows \subseteq rows'
  BY GoneGrows, RowsGrow
<1>2. ASSUME NEW row \in rows, NEW s \in 1..(row.seq - 1)
      PROVE  StoredFrom(row.boot, s)' \/ <<row.boot, s>> \in gone'
  BY <1>1, StoredStays DEF StoreInv, GapsAreDrops
<1>3. CASE rows' = rows
  BY <1>2, <1>3 DEF GapsAreDrops, StoredFrom
<1>4. CASE ServeCall \/ ServeStale
  <2>1. PICK r \in Requests : Handle(r)
    BY <1>4, KeptByBackend
  <2>2. CASE Commit(r)
    <3>1. ASSUME NEW row \in NewRows(r), NEW s \in 1..(row.seq - 1)
          PROVE  StoredFrom(row.boot, s)' \/ <<row.boot, s>> \in gone'
      <4>1. PICK i \in 1..Len(r.events) : row.seq = r.events[i].seq /\ row.boot = r.boot
        BY NewRowFacts DEF QueueInv, RequestsOwned
      <4>2. Carries(r, s) \/ StoredFrom(r.boot, s) \/ <<r.boot, s>> \in gone
        BY <3>1, <4>1 DEF StoreInv, RequestsComplete
      <4>3. CASE Carries(r, s)
        <5>1. r.boot \in Boots
          BY <4>1, CarrierHasBoot
        <5>2. StoredFrom(r.boot, s)'
          BY <2>2, <4>3, <5>1, CommitStores
        <5> QED
          BY <4>1, <5>2
      <4>4. CASE StoredFrom(r.boot, s)
        BY <1>1, <4>1, <4>4, StoredStays
      <4> QED
        BY <1>1, <4>1, <4>2, <4>3, <4>4
    <3>2. rows' = rows \cup NewRows(r)
      BY <2>2 DEF Commit
    <3>3. ASSUME NEW row \in rows', NEW s \in 1..(row.seq - 1)
          PROVE  StoredFrom(row.boot, s)' \/ <<row.boot, s>> \in gone'
      BY <1>2, <3>1, <3>2, <3>3
    <3> QED
      BY <3>3 DEF GapsAreDrops, StoredFrom
  <2>3. CASE Arrive(r)
    BY <1>3, <2>3 DEF Arrive
  <2> QED
    BY <2>1, <2>2, <2>3 DEF Handle
<1> QED
  BY <1>3, <1>4, QuietTable

LEMMA StoreNext ==
  ASSUME DistinctBootIds
  PROVE  TypeOK /\ QueueInv /\ StoreInv /\ [Next]_vars => StoreInv'
<1> SUFFICES ASSUME TypeOK, QueueInv, StoreInv, [Next]_vars PROVE StoreInv'
  OBVIOUS
<1>1. AnsweredIsStored' /\ AckedImpliesStored'
  BY AnsweredNext, AckedNext
<1>2. NothingLost' /\ RequestsComplete'
  BY NothingLostNext, RequestsCompleteNext
<1>3. GapsAreDrops'
  BY GapsNext
<1> QED
  BY <1>1, <1>2, <1>3 DEF StoreInv

LEMMA StoreAlways == ASSUME DistinctBootIds PROVE Spec => []StoreInv
<1>1. TypeOK /\ QueueInv /\ StoreInv /\ [Next]_vars => StoreInv'
  BY StoreNext
<1> QED
  BY QueueAlways, StoreInit, <1>1, PTL DEF Spec

(* If no two boots draw the same boot ID, an event the device forgot on an    *)
(* acknowledgement is in the database, for any loss, delay, retry, overflow,  *)
(* reset and handler death, and any sizes.                                    *)
THEOREM AckedIsStored == ASSUME DistinctBootIds PROVE Spec => []AckedImpliesStored
<1>1. StoreInv => AckedImpliesStored
  BY DEF StoreInv
<1> QED
  BY StoreAlways, <1>1, PTL

(* If no two boots draw the same boot ID, a number missing from the stored   *)
(* history of a boot, before its last stored event, is one that the full     *)
(* buffer gave up.                                                           *)
THEOREM MissingWasDropped == ASSUME DistinctBootIds PROVE Spec => []GapsAreDrops
<1>1. StoreInv => GapsAreDrops
  BY DEF StoreInv
<1> QED
  BY StoreAlways, <1>1, PTL

(* If no two boots draw the same boot ID, an event the running boot numbered  *)
(* is buffered, stored or given up by the full buffer, whatever has become of *)
(* calls, responses, late requests and handlers.                              *)
THEOREM EventsAccountedFor == ASSUME DistinctBootIds PROVE Spec => []NothingLost
<1>1. StoreInv => NothingLost
  BY DEF StoreInv
<1> QED
  BY StoreAlways, <1>1, PTL
=============================================================================
