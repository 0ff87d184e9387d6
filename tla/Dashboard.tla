------------------------------ MODULE Dashboard ------------------------------
(***************************************************************************)
(* The dashboard page (static/app.js): a timer polls state and events, a   *)
(* click posts an update, and requestInFlight lets one of them run at a    *)
(* time.  The desired state is its version, and so is the event history;   *)
(* others change both, and the backend never takes a version back          *)
(* (DesiredState, EventStore).                                             *)
(***************************************************************************)
EXTENDS Naturals

CONSTANTS MaxVersion,   \* bound: changes of the desired state and of the history
          MaxClicks,    \* bound: updates from this page
          MaxFailures   \* bound: fetches that fail

ASSUME DashboardAssumption ==
  MaxVersion \in Nat \ {0} /\ MaxClicks \in Nat /\ MaxFailures \in Nat

None == 0    \* currentState is null: the controls are disabled; no list

VARIABLES
  server,     \* the versions the backend holds: of the desired state, "state",
              \* and of the history, "events"
  inFlight,   \* requestInFlight
  fetches,    \* the requests that loadState or updateState awaits
  page,       \* what is rendered: the versions of currentState and of the list
  newest,     \* history: the newest versions ever rendered
  clicks, failures

pageVars == <<server, inFlight, fetches, page, newest, clicks, failures>>

Parts == {"state", "events"}
Outcomes == {"waiting", "ok", "refused", "unreachable"}

PageInit == /\ server = [p \in Parts |-> 1]
            /\ inFlight = FALSE
            /\ fetches = {}
            /\ page = [p \in Parts |-> None]
            /\ newest = page
            /\ clicks = 0
            /\ failures = 0
-----------------------------------------------------------------------------
Fetch(kind) == [kind |-> kind, outcome |-> "waiting", version |-> None]

\* loadState and updateState return at once while another one runs.
StartPoll == /\ ~inFlight
             /\ inFlight' = TRUE
             /\ fetches' = fetches \cup {Fetch("state"), Fetch("events")}
             /\ UNCHANGED <<server, page, newest, clicks, failures>>

\* A click on an enabled button.
Click == /\ page["state"] # None
         /\ clicks < MaxClicks
         /\ clicks' = clicks + 1

\* Mutant: a click does not look at requestInFlight.
StartUpdateAnyway == /\ Click
                     /\ inFlight' = TRUE
                     /\ fetches' = fetches \cup {Fetch("update")}
                     /\ UNCHANGED <<server, page, newest, failures>>

StartUpdate == /\ ~inFlight
               /\ Click
               /\ inFlight' = TRUE
               /\ fetches' = fetches \cup {Fetch("update")}
               /\ UNCHANGED <<server, page, newest, failures>>

Resolve(f, outcome, version) ==
  fetches' = (fetches \ {f}) \cup {[f EXCEPT !.outcome = outcome, !.version = version]}

Grows(p) == /\ server[p] < MaxVersion
            /\ server' = [server EXCEPT ![p] = server[p] + 1]

\* The backend answers with what it has at that moment; an update may change it.
\* The response is on its way until the handler resumes.
Respond == \E f \in fetches :
             /\ f.outcome = "waiting"
             /\ UNCHANGED server \/ (f.kind = "update" /\ Grows("state"))
             /\ Resolve(f, "ok", server'[IF f.kind = "events" THEN "events" ELSE "state"])
             /\ UNCHANGED <<inFlight, page, newest, clicks, failures>>

\* An error response, no connection or no usable body; an update may have taken
\* effect.
Fail == \E f \in fetches, outcome \in {"refused", "unreachable"} :
          /\ f.outcome \in {"waiting", "ok"}
          /\ failures < MaxFailures
          /\ failures' = failures + 1
          /\ Resolve(f, outcome, None)
          /\ UNCHANGED <<server, inFlight, page, newest, clicks>>

Show(shown) ==
  /\ page' = shown
  /\ newest' = [p \in Parts |-> IF shown[p] > newest[p] THEN shown[p] ELSE newest[p]]

RenderState(v) == Show([page EXCEPT !["state"] = v])

\* Mutant: the list of events stays.
RenderUnavailableKeepsList ==
  page' = [page EXCEPT !["state"] = None] /\ UNCHANGED newest

RenderUnavailable == page' = [p \in Parts |-> None] /\ UNCHANGED newest

\* A poll that fails in either request shows the backend as unavailable,
\* whatever the cause.
RenderPoll(s, e) ==
  IF s.outcome = "ok" /\ e.outcome = "ok"
  THEN Show([state |-> s.version, events |-> e.version])
  ELSE RenderUnavailable

\* A refused update shows the last state again.
RenderUpdate(f) ==
  \/ f.outcome = "ok" /\ RenderState(f.version)
  \/ f.outcome = "refused" /\ page["state"] # None /\ RenderState(page["state"])
  \/ f.outcome = "refused" /\ page["state"] = None /\ RenderUnavailable
  \/ f.outcome = "unreachable" /\ RenderUnavailable

\* allSettled has both results.
Polled(s, e) == /\ s.kind = "state" /\ s.outcome # "waiting"
                /\ e.kind = "events" /\ e.outcome # "waiting"

\* Mutant: an error leaves the flag set.
SettlePollWithoutFinally ==
  \E s, e \in fetches :
    /\ Polled(s, e)
    /\ RenderPoll(s, e)
    /\ fetches' = fetches \ {s, e}
    /\ inFlight' = (s.outcome # "ok" \/ e.outcome # "ok")
    /\ UNCHANGED <<server, clicks, failures>>

\* loadState resumes; its finally clause clears the flag.
SettlePoll == \E s, e \in fetches :
                /\ Polled(s, e)
                /\ RenderPoll(s, e)
                /\ fetches' = fetches \ {s, e}
                /\ inFlight' = FALSE
                /\ UNCHANGED <<server, clicks, failures>>

\* updateState resumes.
SettleUpdate == \E f \in fetches :
                  /\ f.kind = "update" /\ f.outcome # "waiting"
                  /\ RenderUpdate(f)
                  /\ fetches' = fetches \ {f}
                  /\ inFlight' = FALSE
                  /\ UNCHANGED <<server, clicks, failures>>

\* Another dashboard changes the desired state, or a heartbeat brings events.
OtherChange == /\ \E p \in Parts : Grows(p)
               /\ UNCHANGED <<inFlight, fetches, page, newest, clicks, failures>>

PageNext == \/ StartPoll \/ StartUpdate \/ Respond \/ Fail
            \/ SettlePoll \/ SettleUpdate \/ OtherChange

PageSpec == PageInit /\ [][PageNext]_pageVars

\* The timer fires every two seconds, and a fetch settles.
PageFairSpec == /\ PageSpec
                /\ WF_pageVars(StartPoll) /\ WF_pageVars(Respond)
                /\ WF_pageVars(SettlePoll) /\ WF_pageVars(SettleUpdate)
-----------------------------------------------------------------------------
(* Correctness. *)

\* What is awaited and rendered are versions of the backend, and the page shows
\* state and events together or neither of them.
PageTypeOK ==
  /\ server \in [Parts -> 1..MaxVersion]
  /\ inFlight \in BOOLEAN
  /\ fetches \subseteq [kind : Parts \cup {"update"}, outcome : Outcomes,
                        version : 0..MaxVersion]
  /\ page \in [Parts -> 0..MaxVersion]
  /\ newest \in [Parts -> 0..MaxVersion]
  /\ clicks \in 0..MaxClicks /\ failures \in 0..MaxFailures
  /\ page["state"] = None <=> page["events"] = None

\* The page never shows an older state or history than it has shown before: a
\* poll that was answered before an update cannot render after it.
NeverBackwards == page["state"] # None => page = newest

\* Once clicks, changes and failures have stopped, the page shows what the backend
\* has.  (A click at every moment between two requests would put off each poll.)
EventuallyCurrent == <>[](page = server)
=============================================================================
