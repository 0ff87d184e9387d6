----------------------------- MODULE EventQueue -----------------------------
(***************************************************************************)
(* What the device's event buffer promises, with no array and no indices:  *)
(* a bounded FIFO of numbered events.  A full queue gives up its oldest    *)
(* event, an acknowledgement removes the events it covers and nothing      *)
(* else, and once the numbers have run out every new event is refused.     *)
(* EventBuffer implements this; EventDelivery uses it as its device queue. *)
(***************************************************************************)
EXTENDS Naturals, Sequences

CONSTANTS Capacity,   \* EVENT_BUFFER_CAPACITY
          MaxSeq,     \* UINT32_MAX: the last sequence number, and the counters' width
          Payload     \* what an event reports (type, value, uptime)

VARIABLES pending,    \* the buffered events, oldest first
          issued,     \* how many sequence numbers have been given out
          dropped,    \* droppedCount_, a wrapping counter
          acked       \* the highest acknowledgement seen, 0 for none

queueVars == <<pending, issued, dropped, acked>>

Event == [seq : 1..MaxSeq, payload : Payload]

DropCount(d) == (d + 1) % (MaxSeq + 1)

Init == /\ pending = <<>>
        /\ issued = 0
        /\ dropped = 0
        /\ acked = 0

\* The queue with an event at its end, and its oldest gone if it was full.
Pushed(q, e) == Append(IF Len(q) = Capacity THEN Tail(q) ELSE q, e)

Push(p) ==
  /\ issued < MaxSeq
  /\ pending' = Pushed(pending, [seq |-> issued + 1, payload |-> p])
  /\ issued' = issued + 1
  /\ dropped' = IF Len(pending) = Capacity THEN DropCount(dropped) ELSE dropped
  /\ UNCHANGED acked

\* No number is left: the new event is the one that is lost.
Refuse(p) ==
  /\ issued = MaxSeq
  /\ dropped' = DropCount(dropped)
  /\ UNCHANGED <<pending, issued, acked>>

\* The events of q numbered up to n are its first k.
Covers(q, n, k) == \A i \in 1..Len(q) : q[i].seq <= n <=> i <= k

\* They leave, and nothing else does.
Acknowledge(n) ==
  /\ \E k \in 0..Len(pending) :
       /\ Covers(pending, n, k)
       /\ pending' = SubSeq(pending, k + 1, Len(pending))
  /\ acked' = IF n > acked THEN n ELSE acked
  /\ UNCHANGED <<issued, dropped>>

Next == \/ \E p \in Payload : Push(p) \/ Refuse(p)
        \/ \E n \in 1..MaxSeq : Acknowledge(n)

Spec == Init /\ [][Next]_queueVars
=============================================================================
