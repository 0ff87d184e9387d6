------------------------------ MODULE EventLog ------------------------------
(***************************************************************************)
(* What the backend promises of the event history: a list to which a       *)
(* heartbeat adds those of its events that the list does not have yet, all *)
(* of them at once and in their order, and from which nothing is ever      *)
(* taken or changed, whatever becomes of handlers, transactions and the    *)
(* server process.                                                         *)
(***************************************************************************)
EXTENDS Naturals, Sequences

CONSTANT Batches   \* what heartbeats carry: sets of events with their device,
                   \* boot and time of receipt

VARIABLE log

Identity(e) == <<e.device_id, e.boot_id, e.seq>>

Known(e) == \E i \in 1..Len(log) : Identity(log[i]) = Identity(e)

Init == \A i, j \in 1..Len(log) : Identity(log[i]) = Identity(log[j]) => i = j

Added == (Len(log) + 1)..Len(log')

Next == \E batch \in Batches :
          /\ Len(log) <= Len(log')
          /\ \A i \in 1..Len(log) : log'[i] = log[i]
          /\ {log'[i] : i \in Added} = {e \in batch : ~Known(e)}
          /\ \A i, j \in Added : i < j => log'[i].seq < log'[j].seq

Spec == Init /\ [][Next]_log
=============================================================================
