---------------------------- MODULE OnlineStatus ----------------------------
(***************************************************************************)
(* The dashboard's online flag (state.rs) composed with the device that    *)
(* keeps it true (Connectivity): when the server records a heartbeat within*)
(* the call that carries it, what it records of calls the device has given *)
(* up, and its restarts.  The server's clock runs as the device's does.    *)
(***************************************************************************)
EXTENDS Connectivity

CONSTANT OnlineTimeout   \* DEVICE_ONLINE_TIMEOUT

\* With the constants of the code: 2000 + 2 * 1500 + MaxPass <= 6000.
ASSUME OnlineAssumption ==
  OnlineTimeout \in Nat /\ Interval + 2 * MaxCall + MaxPass <= OnlineTimeout

VARIABLES
  age,        \* time since last_seen_instant
  abandoned,  \* handlers of calls given up may still record
  restarted,  \* history: no heartbeat has succeeded since the server's start
  lapsed      \* history: the flag went off while the device was online

report == <<age, abandoned, restarted, lapsed>>
statusVars == <<vars, report>>

\* An age beyond the timeout, or no last_seen_instant at all.
Expired == OnlineTimeout + 1

\* snapshot_at, snapshot_from_stored
ShownOnline == age <= OnlineTimeout

StatusInit == /\ Init
              /\ age = Expired
              /\ abandoned = FALSE /\ restarted = TRUE /\ lapsed = FALSE

Older(d) == IF age + d > Expired THEN Expired ELSE age + d

\* How long the heartbeat of this step has blocked loop().
Elapsed == (now' + Wrap - now) % Wrap

\* record_heartbeat_at runs at r within the call.
Recorded ==
  \E r \in 0..Elapsed :
    /\ age' = Elapsed - r
    /\ lapsed' = (lapsed \/ (online /\ ~restarted /\ age + r > OnlineTimeout))

\* The request is lost, or its handler is behind.
NotRecorded == age' = Older(Elapsed) /\ UNCHANGED lapsed

\* A response that succeeds comes after the record.
Exchange ==
  /\ Recorded \/ (~online' /\ NotRecorded)
  /\ abandoned' \in {abandoned, abandoned \/ ~online'}
  /\ restarted' = (restarted /\ ~online')

Pass == /\ LoopPass
        /\ IF connected' /\ HeartbeatDue THEN Exchange ELSE UNCHANGED report

StatusTick == /\ Tick
              /\ age' = Older(1)
              /\ UNCHANGED <<abandoned, restarted, lapsed>>

\* Mutant: the instant is taken when the request arrives.
RecordLateAsArrived == /\ abandoned
                       /\ age' = Expired
                       /\ abandoned' \in BOOLEAN
                       /\ UNCHANGED <<vars, restarted, lapsed>>

\* The handler of a call given up records it, with the instant of that moment.
RecordLate == /\ abandoned
              /\ age' = 0
              /\ abandoned' \in BOOLEAN
              /\ UNCHANGED <<vars, restarted, lapsed>>

\* The report is in memory only.
ServerRestart == /\ age' = Expired
                 /\ restarted' = TRUE
                 /\ abandoned' = FALSE
                 /\ UNCHANGED <<vars, lapsed>>

StatusNext == \/ Pass \/ StatusTick \/ RecordLate \/ ServerRestart
              \/ (RequestHeartbeat \/ LinkChange) /\ UNCHANGED report

StatusSpec == StatusInit /\ [][StatusNext]_statusVars
-----------------------------------------------------------------------------
(* Correctness. *)

\* A device that is online by its own account (the blue LED) is online on the
\* dashboard too, at every moment from one heartbeat to the next, unless the
\* server has been started in between: not a record at the very beginning of one
\* call and the end of the next, not a late handler makes the flag go off.
StaysOnline == ~lapsed /\ (online /\ ~restarted => ShownOnline)
=============================================================================
