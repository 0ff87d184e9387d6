---------------------------- MODULE EventBuffer ----------------------------
(***************************************************************************)
(* firmware/src/EventBuffer.cpp: the ring of device events.  The fields    *)
(* keep their names; an event's type, value and uptime are one payload.    *)
(***************************************************************************)
EXTENDS Integers, Sequences

CONSTANTS Capacity,   \* EVENT_BUFFER_CAPACITY
          MaxSeq,     \* UINT32_MAX
          Payload,    \* what an event reports
          Blank       \* the payload of a slot never written (events_{})

ASSUME BufferAssumption == /\ Capacity \in Nat \ {0}
                           /\ MaxSeq \in Nat \ {0}
                           /\ Blank \in Payload

VARIABLES events, head, count, nextSequence, sequenceAvailable, dropped,
          lastAcknowledged   \* 0 stands for ~hasLastAcknowledgedSequence_

vars == <<events, head, count, nextSequence, sequenceAvailable, dropped,
          lastAcknowledged>>

Slots == 0..(Capacity - 1)
DeviceEvent == [seq : 0..MaxSeq, payload : Payload]

Init == /\ events = [i \in Slots |-> [seq |-> 0, payload |-> Blank]]
        /\ head = 0
        /\ count = 0
        /\ nextSequence = 1
        /\ sequenceAvailable = TRUE
        /\ dropped = 0
        /\ lastAcknowledged = 0

\* get(i): the i-th oldest event.
Slot(i) == (head + i) % Capacity
Get(i) == events[Slot(i)]

Wrap(d) == (d + 1) % (MaxSeq + 1)

\* append, once UINT32_MAX has been used.
AppendExhausted(p) ==
  /\ ~sequenceAvailable
  /\ dropped' = Wrap(dropped)
  /\ UNCHANGED <<events, head, count, nextSequence, sequenceAvailable,
                 lastAcknowledged>>

WriteAt(tail, p) ==
  events' = [events EXCEPT ![tail] = [seq |-> nextSequence, payload |-> p]]

TakeSequence ==
  IF nextSequence = MaxSeq
  THEN sequenceAvailable' = FALSE /\ UNCHANGED nextSequence
  ELSE nextSequence' = nextSequence + 1 /\ UNCHANGED sequenceAvailable

\* append into a ring with room.
AppendRoom(p) ==
  /\ sequenceAvailable
  /\ count < Capacity
  /\ WriteAt(Slot(count), p)
  /\ count' = count + 1
  /\ TakeSequence
  /\ UNCHANGED <<head, dropped, lastAcknowledged>>

\* Mutant: head_ does not move on.
AppendFullStuck(p) ==
  /\ sequenceAvailable
  /\ count = Capacity
  /\ WriteAt(Slot(count), p)
  /\ dropped' = Wrap(dropped)
  /\ TakeSequence
  /\ UNCHANGED <<head, count, lastAcknowledged>>

\* append into a full ring: head_ moves on, and the slot it left is the tail.
AppendFull(p) ==
  /\ sequenceAvailable
  /\ count = Capacity
  /\ head' = Slot(1)
  /\ WriteAt((head' + (count - 1)) % Capacity, p)
  /\ dropped' = Wrap(dropped)
  /\ TakeSequence
  /\ UNCHANGED <<count, lastAcknowledged>>

\* Mutant: the acknowledged event itself stays.
StopsBefore(n, k) == /\ \A i \in 0..(k - 1) : Get(i).seq < n
                     /\ k < count => Get(k).seq >= n

\* The loop of acknowledgeThrough stops after k events.
StopsAfter(n, k) == /\ \A i \in 0..(k - 1) : Get(i).seq <= n
                    /\ k < count => Get(k).seq > n

AcknowledgeThrough(n) ==
  /\ \E k \in 0..count : /\ StopsAfter(n, k)
                         /\ head' = Slot(k)
                         /\ count' = count - k
  /\ lastAcknowledged' = IF n > lastAcknowledged THEN n ELSE lastAcknowledged
  /\ UNCHANGED <<events, nextSequence, sequenceAvailable, dropped>>

Next == \/ \E p \in Payload :
             AppendExhausted(p) \/ AppendRoom(p) \/ AppendFull(p)
        \/ \E n \in 1..MaxSeq : AcknowledgeThrough(n)

Spec == Init /\ [][Next]_vars
-----------------------------------------------------------------------------
(* Correctness. *)

Issued == IF sequenceAvailable THEN nextSequence - 1 ELSE MaxSeq

\* The fields stay within their ranges; in particular head_ indexes the array.
TypeOK ==
  /\ events \in [Slots -> DeviceEvent]
  /\ head \in Slots
  /\ count \in 0..Capacity
  /\ nextSequence \in 1..MaxSeq
  /\ sequenceAvailable \in BOOLEAN
  /\ dropped \in 0..MaxSeq
  /\ lastAcknowledged \in 0..MaxSeq

\* The buffered events are exactly the newest `count` numbers given out, in
\* order and without a gap, whatever appends, overflows and acknowledgements
\* (of numbers already gone, or not yet given) came before.  main.cpp relies
\* on it: the last event of a heartbeat carries its highest number.
ContiguousWindow ==
  /\ ~sequenceAvailable => nextSequence = MaxSeq
  /\ count <= Issued
  /\ \A i \in 0..(count - 1) : Get(i).seq = Issued - count + 1 + i

\* The ring implements the bounded queue of EventQueue.
Queue == INSTANCE EventQueue WITH
  pending <- [i \in 1..count |-> Get(i - 1)],
  issued <- Issued,
  dropped <- dropped,
  acked <- lastAcknowledged

ImplementsQueue == Queue!Spec
=============================================================================
