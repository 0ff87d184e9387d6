---------------------------- MODULE MCEventStore ----------------------------
(* Requests and database files for model checking EventStore, with 3 for the *)
(* greatest i64 and batches of at most two events.                           *)
EXTENDS EventStore

CONSTANT Night

ModeEvent(seq, uptime, mode) ==
  [type |-> "mode_changed", seq |-> seq, uptime_ms |-> uptime, value |-> mode]
LightEvent(seq, uptime, on) ==
  [type |-> "light_changed", seq |-> seq, uptime_ms |-> uptime, value |-> on]
WifiEvent(seq, uptime, up) ==
  [type |-> "wifi_changed", seq |-> seq, uptime_ms |-> uptime, value |-> up]

Heartbeat(boot, events) ==
  [device_id |-> "lumahome", boot_id |-> boot, mode |-> Manual,
   events |-> events]

\* A batch that ends at the greatest integers, a retry that overlaps it, no
\* events (the boot ID is then not stored); then what is refused, for each reason.
MCRequests ==
  {Heartbeat(3, <<ModeEvent(1, 0, Night), LightEvent(2, 3, TRUE)>>),
   Heartbeat(3, <<LightEvent(2, 3, TRUE), WifiEvent(3, 3, FALSE)>>),
   Heartbeat(4, <<>>),
   Heartbeat(4, <<WifiEvent(1, 0, TRUE)>>),
   Heartbeat(1, <<WifiEvent(4, 0, TRUE)>>),
   Heartbeat(1, <<WifiEvent(1, 4, TRUE)>>),
   Heartbeat(1, <<WifiEvent(0, 0, TRUE)>>),
   Heartbeat(1, <<WifiEvent(2, 0, TRUE), WifiEvent(2, 0, FALSE)>>),
   Heartbeat(1, <<WifiEvent(1, 0, TRUE), WifiEvent(2, 0, FALSE),
                  WifiEvent(3, 0, TRUE)>>),
   [Heartbeat(1, <<>>) EXCEPT !.device_id = ""],
   [Heartbeat(1, <<>>) EXCEPT !.mode = "vacation"],
   Malformed}

OldRow == RowOf(Heartbeat(0, <<>>), LightEvent(2, 1, FALSE), 0)
KeptRow == [mode |-> Night, manual_light_on |-> 1, config_version |-> 2]

OldFile(rows2) == [schema |-> 2, singleton |-> KeptRow, rows |-> rows2]

\* No file yet; files of an earlier release, two of them with a row that the
\* trigger of migration 0003 would not have let in.
MCOldFiles ==
  {[schema |-> 0, singleton |-> NoRow, rows |-> <<>>],
   OldFile(<<OldRow>>),
   OldFile(<<[OldRow EXCEPT !.boot_id = -1]>>),
   OldFile(<<[OldRow EXCEPT !.light_on = Null]>>)}
=============================================================================
