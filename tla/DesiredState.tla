---------------------------- MODULE DesiredState ----------------------------
(***************************************************************************)
(* The backend's desired state: the row in SQLite (persistence.rs), the    *)
(* copy in memory that answers every request, and the mutex                *)
(* desired_mutation that state.rs holds from reading the copy until it is  *)
(* replaced.  A handler awaits its statement; meanwhile its client may go  *)
(* away, which drops the handler and frees the mutex while the statement,  *)
(* already with SQLite's worker, may still run.  The process may be killed *)
(* at any step.                                                            *)
(***************************************************************************)
EXTENDS Naturals

CONSTANTS Handlers,       \* slots for requests served at the same time
          Mode, Manual,   \* HomeMode, and its default
          MaxVersion      \* i64::MAX, the greatest config_version SQLite holds

ASSUME DesiredAssumption == /\ Manual \in Mode
                            /\ MaxVersion \in Nat \ {0}

DesiredStates == [mode : Mode, manual_light_on : BOOLEAN,
                  config_version : 1..MaxVersion]

Default == [mode |-> Manual, manual_light_on |-> FALSE, config_version |-> 1]

Requests == {[kind |-> "mode", to |-> m] : m \in Mode}
              \cup {[kind |-> "light", to |-> on] : on \in BOOLEAN}
              \cup {[kind |-> "read", to |-> FALSE]}

NoRow == [none |-> TRUE]    \* table desired_state before the first start

VARIABLES
  up,       \* the process runs
  db,       \* the row desired_state
  mem,      \* StoredState.desired
  stage,    \* of each handler: "idle", "waiting" for the mutex, "saving", "saved"
  request,  \* of each handler: what was asked
  next,     \* of each handler: the next_desired it saves
  shown     \* history: the desired states that requests were answered with

vars == <<up, db, mem, stage, request, next, shown>>

Init == /\ up = FALSE
        /\ db = NoRow
        /\ mem = Default
        /\ stage = [r \in Handlers |-> "idle"]
        /\ request = [r \in Handlers |-> [kind |-> "read", to |-> FALSE]]
        /\ next = [r \in Handlers |-> Default]
        /\ shown = {}

\* Persistence::initialize inserts the default row if there is none.
Stored == IF db = NoRow THEN Default ELSE db
-----------------------------------------------------------------------------
(* A request. *)

Receive(r, q) ==
  /\ up
  /\ stage[r] = "idle"
  /\ stage' = [stage EXCEPT ![r] = "waiting"]
  /\ request' = [request EXCEPT ![r] = q]
  /\ UNCHANGED <<up, db, mem, next, shown>>

Holds(r) == stage[r] \in {"saving", "saved"}

\* Mutant: the mutex is not taken.
EnterUnlocked(r) == stage[r] = "waiting"

\* desired_mutation.lock().await: no other handler is between the read of the
\* copy and its replacement.
Enter(r) == /\ stage[r] = "waiting"
            /\ \A q \in Handlers : ~Holds(q)

\* The handler returns, with an error or with the state d.
Return(r) == stage' = [stage EXCEPT ![r] = "idle"]
Answer(r, d) == Return(r) /\ shown' = shown \cup {d}

\* persist_and_replace: the statement goes to the database.
StartSave(r, d) ==
  /\ stage' = [stage EXCEPT ![r] = "saving"]
  /\ next' = [next EXCEPT ![r] = d]
  /\ UNCHANGED <<up, db, mem, request, shown>>

\* consistent_snapshot (GET /api/state) and the end of record_heartbeat.
Read(r) ==
  /\ Enter(r)
  /\ request[r].kind = "read"
  /\ Answer(r, mem)
  /\ UNCHANGED <<up, db, mem, request, next>>

SetMode(r) ==
  /\ Enter(r)
  /\ request[r].kind = "mode"
  /\ \/ /\ mem.mode = request[r].to
        /\ Answer(r, mem)
        /\ UNCHANGED <<up, db, mem, request, next>>
     \/ /\ mem.mode # request[r].to
        /\ StartSave(r, [mode |-> request[r].to,
                         manual_light_on |-> mem.manual_light_on,
                         config_version |-> mem.config_version + 1])

SetManualLight(r) ==
  /\ Enter(r)
  /\ request[r].kind = "light"
  /\ \/ /\ mem.mode # Manual
        /\ Return(r)
        /\ UNCHANGED <<up, db, mem, request, next, shown>>
     \/ /\ mem.mode = Manual
        /\ mem.manual_light_on = request[r].to
        /\ Answer(r, mem)
        /\ UNCHANGED <<up, db, mem, request, next>>
     \/ /\ mem.mode = Manual
        /\ mem.manual_light_on # request[r].to
        /\ StartSave(r, [mode |-> mem.mode,
                         manual_light_on |-> request[r].to,
                         config_version |-> mem.config_version + 1])

\* Mutant: the version is not compared with SQLite's range.
StorableUnchecked(r) == stage[r] = "saving"

\* save_desired_state refuses a version that SQLite cannot hold.
Storable(r) == stage[r] = "saving" /\ next[r].config_version <= MaxVersion

\* The UPDATE takes effect; the handler has not resumed yet.
SaveDone(r) ==
  /\ Storable(r)
  /\ db' = next[r]
  /\ stage' = [stage EXCEPT ![r] = "saved"]
  /\ UNCHANGED <<up, mem, request, next, shown>>

\* Mutant: the error is ignored, and the copy replaced.
SaveFailsUnnoticed(r) ==
  /\ stage[r] = "saving"
  /\ next[r].config_version <= MaxVersion
  /\ mem' = next[r]
  /\ Answer(r, mem')
  /\ UNCHANGED <<up, db, request, next>>

\* Mutant: a failed save keeps the mutex.
SaveFailsLocked(r) == stage[r] = "saving" /\ UNCHANGED vars

\* It fails: 500, and the copy in memory stays.
SaveFails(r) ==
  /\ stage[r] = "saving"
  /\ Return(r)
  /\ UNCHANGED <<up, db, mem, request, next, shown>>

Replace(r) ==
  /\ stage[r] = "saved"
  /\ mem' = next[r]
  /\ Answer(r, mem')
  /\ UNCHANGED <<up, db, request, next>>

\* What the database may come to hold when handler r is dropped.
Leftover(r) == {db} \cup (IF Storable(r) THEN {next[r]} ELSE {})

\* The client closes its connection: axum drops the handler where it awaits.
Cancel(r) ==
  /\ stage[r] # "idle"
  /\ db' \in Leftover(r)
  /\ Return(r)
  /\ UNCHANGED <<up, mem, request, next, shown>>

\* The process is killed: memory is lost.
Crash ==
  /\ up
  /\ up' = FALSE
  /\ db' \in {db} \cup UNION {Leftover(r) : r \in Handlers}
  /\ mem' = Default
  /\ stage' = [r \in Handlers |-> "idle"]
  /\ UNCHANGED <<request, next, shown>>

\* Mutant: the process starts from the defaults, not from the row.
StartFromDefault ==
  /\ ~up
  /\ up' = TRUE
  /\ db' = Stored
  /\ mem' = Default
  /\ UNCHANGED <<stage, request, next, shown>>

\* Persistence::initialize and AppState::new.
Start ==
  /\ ~up
  /\ up' = TRUE
  /\ db' = Stored
  /\ mem' = Stored
  /\ UNCHANGED <<stage, request, next, shown>>

Next == \/ \E r \in Handlers :
             \/ \E q \in Requests : Receive(r, q)
             \/ Read(r) \/ SetMode(r) \/ SetManualLight(r)
             \/ SaveDone(r) \/ SaveFails(r) \/ Replace(r) \/ Cancel(r)
        \/ Crash \/ Start

Spec == Init /\ [][Next]_vars

\* A statement returns and its handler resumes; tokio's Mutex serves waiters
\* in turn, so one that waits cannot be passed over for ever.
Fairness ==
  \A r \in Handlers :
    /\ WF_vars(SaveDone(r) \/ SaveFails(r))
    /\ WF_vars(Replace(r))
    /\ SF_vars(Read(r) \/ SetMode(r) \/ SetManualLight(r))

FairSpec == Spec /\ Fairness
-----------------------------------------------------------------------------
(* Correctness. *)

\* The row, the copy and the handlers hold what their types say.
TypeOK ==
  /\ up \in BOOLEAN
  /\ db \in DesiredStates \cup {NoRow}
  /\ mem \in DesiredStates
  /\ stage \in [Handlers -> {"idle", "waiting", "saving", "saved"}]
  /\ request \in [Handlers -> Requests]
  /\ next \in [Handlers -> [mode : Mode, manual_light_on : BOOLEAN,
                            config_version : 1..(MaxVersion + 1)]]
  /\ shown \subseteq DesiredStates

\* A version names one desired state for ever, across concurrent commands,
\* failed saves, dropped handlers and restarts.  The device relies on it: it
\* ignores a version it already has (main.cpp:346).
VersionNamesOneState ==
  \A d, e \in shown : d.config_version = e.config_version => d = e

\* What an answer has shown survives: a restart never restores an older
\* version, nor another state under a version shown.
ShownIsDurable ==
  \A d \in shown : d.config_version < Stored.config_version \/ d = Stored

\* The desired state that readers can see is the versioned register of
\* DesiredRegister; a crash may complete the one command in flight.
Register == INSTANCE DesiredRegister WITH value <- IF up THEN mem ELSE Stored

ImplementsRegister == Register!Spec

\* Every request gets past the mutex, fails or is dropped.
EventuallyServed ==
  \A r \in Handlers : stage[r] = "waiting" ~> stage[r] # "waiting"
=============================================================================
