-------------------------- MODULE DashboardProofs --------------------------
(***************************************************************************)
(* Proofs about what the dashboard shows: first the page, for any number   *)
(* of versions, clicks and failures; then its online flag and the timers   *)
(* of the device that keep it true, for every width of millis() and every  *)
(* choice of the intervals.                                                *)
(***************************************************************************)
EXTENDS Dashboard, OnlineStatus, TLAPS

(* The page. *)

Part(f) == IF f.kind = "events" THEN "events" ELSE "state"

(* What was answered is at least as new as what has been rendered. *)
Fresh(f) == f.outcome = "ok" => /\ f.version >= 1
                                /\ f.version <= server[Part(f)]
                                /\ newest[Part(f)] <= f.version

(* requestInFlight is a lock: a poll's two requests or an update, never both. *)
OneAtATime ==
  /\ ~inFlight => fetches = {}
  /\ \A f, g \in fetches : f.kind = g.kind \/ f.kind = "update" => f = g

PageInv ==
  /\ PageTypeOK
  /\ OneAtATime
  /\ \A f \in fetches : f.kind = "update" => page["state"] # None
  /\ \A f \in fetches : Fresh(f)
  /\ \A p \in Parts : newest[p] <= server[p]
  /\ NeverBackwards

Fetches == [kind : Parts \cup {"update"}, outcome : Outcomes, version : 0..MaxVersion]

LEMMA InitPage == PageInit => PageInv
<1> USE DashboardAssumption
<1> SUFFICES ASSUME PageInit PROVE PageInv
  OBVIOUS
<1>1. /\ server = [p \in Parts |-> 1] /\ page = [p \in Parts |-> 0] /\ newest = page
      /\ inFlight = FALSE /\ fetches = {} /\ clicks = 0 /\ failures = 0
  BY DEF PageInit, None
<1>2. PageTypeOK
  <2>1. server \in [Parts -> 1..MaxVersion] /\ page \in [Parts -> 0..MaxVersion]
    BY <1>1
  <2>2. page["state"] = None <=> page["events"] = None
    BY <1>1 DEF Parts, None
  <2>3. clicks \in 0..MaxClicks /\ failures \in 0..MaxFailures
    BY <1>1
  <2> QED
    BY <1>1, <2>1, <2>2, <2>3 DEF PageTypeOK
<1>3. NeverBackwards /\ \A p \in Parts : newest[p] <= server[p]
  BY <1>1 DEF NeverBackwards
<1> QED
  BY <1>1, <1>2, <1>3 DEF PageInv, OneAtATime

(* A change by anyone makes a version newer. *)
LEMMA GrowsUp ==
  ASSUME PageTypeOK, NEW p \in Parts, Grows(p)
  PROVE  server' \in [Parts -> 1..MaxVersion] /\ \A q \in Parts : server[q] <= server'[q]
BY DashboardAssumption DEF Grows, PageTypeOK, Parts

(* Rendering what is fresh forgets nothing that was rendered before. *)
LEMMA ShowIsNewest ==
  ASSUME PageTypeOK, NEW shown \in [Parts -> 0..MaxVersion], Show(shown),
         \A p \in Parts : newest[p] <= shown[p]
  PROVE  page' = shown /\ newest' = shown
<1>1. \A p \in Parts : (IF shown[p] > newest[p] THEN shown[p] ELSE newest[p]) = shown[p]
  BY DashboardAssumption DEF PageTypeOK, Parts
<1> QED
  BY <1>1 DEF Show

LEMMA FetchTypes ==
  ASSUME PageInv, NEW f \in fetches
  PROVE  /\ f \in Fetches
         /\ f.kind \in {"state", "events", "update"} /\ f.outcome \in Outcomes
         /\ f.version \in 0..MaxVersion /\ Part(f) \in Parts
BY DEF PageInv, PageTypeOK, Fetches, Parts, Part

(* A new activity starts only when none is under way. *)
LEMMA StartKeeps == ASSUME PageInv, StartPoll \/ StartUpdate PROVE PageInv'
<1> USE DashboardAssumption
<1>1. fetches = {} /\ inFlight' = TRUE /\ UNCHANGED <<server, page, newest, failures>>
  BY DEF StartPoll, StartUpdate, PageInv, OneAtATime
<1>2. clicks' \in 0..MaxClicks
  BY DEF StartPoll, StartUpdate, Click, PageInv, PageTypeOK
<1>3. \/ fetches' = {Fetch("state"), Fetch("events")}
      \/ fetches' = {Fetch("update")} /\ page["state"] # None
  BY <1>1 DEF StartPoll, StartUpdate, Click
<1>4. \A f \in fetches' : f \in Fetches /\ f.outcome = "waiting"
  BY <1>3 DEF Fetch, Fetches, Parts, Outcomes, None
<1>5. PageTypeOK'
  BY <1>1, <1>2, <1>4 DEF PageInv, PageTypeOK, Fetches
<1>6. OneAtATime'
  BY <1>1, <1>3 DEF OneAtATime, Fetch
<1>7. \A f \in fetches' : f.kind = "update" => page'["state"] # None
  BY <1>1, <1>3 DEF Fetch
<1>8. \A f \in fetches' : Fresh(f)'
  BY <1>4 DEF Fresh
<1> QED
  BY <1>1, <1>5, <1>6, <1>7, <1>8 DEF PageInv, NeverBackwards

(* One request gets its outcome, whatever the backend does beside it. *)
LEMMA ResolveKeeps ==
  ASSUME PageInv, NEW f \in fetches, NEW o \in Outcomes, NEW v \in 0..MaxVersion,
         Resolve(f, o, v), UNCHANGED <<inFlight, page, newest>>,
         server' \in [Parts -> 1..MaxVersion],
         \A q \in Parts : server[q] <= server'[q],
         o = "ok" => v = server'[Part(f)],
         clicks' \in 0..MaxClicks, failures' \in 0..MaxFailures
  PROVE  PageInv'
<1> USE DashboardAssumption
<1> DEFINE g == [f EXCEPT !.outcome = o, !.version = v]
<1>1. /\ f \in Fetches /\ g \in Fetches
      /\ g.kind = f.kind /\ g.outcome = o /\ g.version = v
  BY FetchTypes DEF Fetches
<1>2. \A h \in fetches' : (h \in fetches /\ h # f) \/ h = g
  BY DEF Resolve
<1> HIDE DEF g
<1>3. PageTypeOK'
  BY <1>1, <1>2, FetchTypes DEF PageInv, PageTypeOK, Fetches
<1>4. OneAtATime'
  BY <1>1, <1>2 DEF PageInv, OneAtATime
<1>5. \A h \in fetches' : h.kind = "update" => page'["state"] # None
  BY <1>1, <1>2 DEF PageInv
<1>6. \A p \in Parts : newest'[p] <= server'[p]
  BY DEF PageInv, PageTypeOK
<1>7. \A h \in fetches' : Fresh(h)'
  <2> SUFFICES ASSUME NEW h \in fetches', h.outcome = "ok"
               PROVE  /\ h.version >= 1 /\ h.version <= server'[Part(h)]
                      /\ newest'[Part(h)] <= h.version
    BY DEF Fresh, Part
  <2>1. CASE h \in fetches /\ h # f
    <3>1. Fresh(h) /\ Part(h) \in Parts /\ h.version \in 0..MaxVersion
      BY <2>1, FetchTypes DEF PageInv
    <3> QED
      BY <3>1 DEF Fresh, PageInv, PageTypeOK
  <2>2. CASE h = g
    <3>1. Part(h) = Part(f) /\ Part(f) \in Parts /\ h.version = server'[Part(h)]
      BY <1>1, <2>2, FetchTypes DEF Part
    <3> QED
      BY <1>6, <3>1 DEF PageInv, PageTypeOK
  <2> QED
    BY <1>2, <2>1, <2>2
<1> QED
  BY <1>3, <1>4, <1>5, <1>6, <1>7 DEF PageInv, NeverBackwards

LEMMA RespondKeeps == ASSUME PageInv, Respond PROVE PageInv'
<1>1. PICK f \in fetches :
        /\ UNCHANGED server \/ (f.kind = "update" /\ Grows("state"))
        /\ Resolve(f, "ok", server'[Part(f)])
        /\ UNCHANGED <<inFlight, page, newest, clicks, failures>>
  BY DEF Respond, Part
<1>2. /\ server' \in [Parts -> 1..MaxVersion]
      /\ \A q \in Parts : server[q] <= server'[q]
  <2>1. CASE UNCHANGED server
    BY <2>1, DashboardAssumption DEF PageInv, PageTypeOK
  <2>2. CASE Grows("state")
    BY <2>2, GrowsUp DEF PageInv, Parts
  <2> QED
    BY <1>1, <2>1, <2>2
<1>3. server'[Part(f)] \in 0..MaxVersion
  BY <1>2, FetchTypes, DashboardAssumption
<1>4. clicks' \in 0..MaxClicks /\ failures' \in 0..MaxFailures
  BY <1>1 DEF PageInv, PageTypeOK
<1> QED
  BY <1>1, <1>2, <1>3, <1>4, ResolveKeeps DEF Outcomes

LEMMA FailKeeps == ASSUME PageInv, Fail PROVE PageInv'
<1> USE DashboardAssumption
<1>1. PICK f \in fetches, outcome \in {"refused", "unreachable"} :
        /\ failures < MaxFailures /\ failures' = failures + 1
        /\ Resolve(f, outcome, None)
        /\ UNCHANGED <<server, inFlight, page, newest, clicks>>
  BY DEF Fail
<1>2. /\ server' \in [Parts -> 1..MaxVersion]
      /\ \A q \in Parts : server[q] <= server'[q]
      /\ clicks' \in 0..MaxClicks /\ failures' \in 0..MaxFailures
  BY <1>1 DEF PageInv, PageTypeOK
<1> QED
  BY <1>1, <1>2, ResolveKeeps DEF Outcomes, None

(* The activity that has ended was the only one. *)
LEMMA SettledIsQuiet ==
  ASSUME PageInv, fetches' = {}, inFlight' = FALSE, UNCHANGED <<server, clicks, failures>>,
         page' \in [Parts -> 0..MaxVersion], newest' \in [Parts -> 0..MaxVersion],
         page'["state"] = None <=> page'["events"] = None,
         \A p \in Parts : newest'[p] <= server[p],
         NeverBackwards'
  PROVE  PageInv'
<1>1. PageTypeOK'
  BY DEF PageInv, PageTypeOK
<1> QED
  BY <1>1 DEF PageInv, OneAtATime

LEMMA UnavailableKeeps ==
  ASSUME PageInv, fetches' = {}, inFlight' = FALSE, UNCHANGED <<server, clicks, failures>>,
         RenderUnavailable
  PROVE  PageInv'
<1>1. /\ page' = [p \in Parts |-> None] /\ newest' = newest
  BY DEF RenderUnavailable
<1>2. page' \in [Parts -> 0..MaxVersion] /\ page'["state"] = None /\ page'["events"] = None
  BY <1>1, DashboardAssumption DEF Parts, None
<1> QED
  BY <1>1, <1>2, SettledIsQuiet DEF PageInv, PageTypeOK, NeverBackwards

LEMMA ShowKeeps ==
  ASSUME PageInv, fetches' = {}, inFlight' = FALSE, UNCHANGED <<server, clicks, failures>>,
         NEW shown \in [Parts -> 1..MaxVersion], Show(shown),
         \A p \in Parts : newest[p] <= shown[p] /\ shown[p] <= server[p]
  PROVE  PageInv'
<1>1. shown \in [Parts -> 0..MaxVersion] /\ \A p \in Parts : shown[p] # None
  BY DashboardAssumption DEF None
<1>2. page' = shown /\ newest' = shown
  BY <1>1, ShowIsNewest DEF PageInv
<1> QED
  BY <1>1, <1>2, SettledIsQuiet DEF NeverBackwards, Parts

LEMMA SettlePollKeeps == ASSUME PageInv, SettlePoll PROVE PageInv'
<1>1. PICK s \in fetches, e \in fetches :
        /\ RenderPoll(s, e) /\ fetches' = fetches \ {s, e}
        /\ inFlight' = FALSE /\ UNCHANGED <<server, clicks, failures>>
        /\ s.kind = "state" /\ e.kind = "events"
  BY DEF SettlePoll, Polled
<1>2. fetches' = {}
  <2>1. \A f \in fetches : f = s \/ f = e
    BY <1>1, FetchTypes DEF PageInv, OneAtATime
  <2> QED
    BY <1>1, <2>1
<1>3. CASE s.outcome = "ok" /\ e.outcome = "ok"
  <2> DEFINE shown == [state |-> s.version, events |-> e.version]
  <2>1. Show(shown)
    BY <1>1, <1>3 DEF RenderPoll
  <2>2. /\ s.version \in 1..MaxVersion /\ e.version \in 1..MaxVersion
        /\ newest["state"] <= s.version /\ s.version <= server["state"]
        /\ newest["events"] <= e.version /\ e.version <= server["events"]
    BY <1>1, <1>3, FetchTypes, DashboardAssumption DEF PageInv, Fresh, Part
  <2>3. shown \in [Parts -> 1..MaxVersion]
    BY <2>2 DEF Parts
  <2>4. \A p \in Parts : newest[p] <= shown[p] /\ shown[p] <= server[p]
    BY <2>2 DEF Parts
  <2> HIDE DEF shown
  <2> QED
    BY <1>1, <1>2, <2>1, <2>3, <2>4, ShowKeeps
<1>4. CASE ~(s.outcome = "ok" /\ e.outcome = "ok")
  BY <1>1, <1>2, <1>4, UnavailableKeeps DEF RenderPoll
<1> QED
  BY <1>3, <1>4

LEMMA SettleUpdateKeeps == ASSUME PageInv, SettleUpdate PROVE PageInv'
<1> USE DashboardAssumption
<1>1. PICK f \in fetches :
        /\ f.kind = "update" /\ RenderUpdate(f) /\ fetches' = fetches \ {f}
        /\ inFlight' = FALSE /\ UNCHANGED <<server, clicks, failures>>
  BY DEF SettleUpdate
<1>2. fetches' = {}
  BY <1>1 DEF PageInv, OneAtATime
<1>3. page["state"] # None /\ page["events"] # None /\ page = newest
  BY <1>1 DEF PageInv, PageTypeOK, NeverBackwards
<1>4. /\ page \in [Parts -> 1..MaxVersion]
      /\ \A p \in Parts : newest[p] <= page[p] /\ page[p] <= server[p]
  BY <1>3 DEF PageInv, PageTypeOK, Parts, None
<1>5. ASSUME NEW v \in 1..MaxVersion, RenderState(v),
             newest["state"] <= v, v <= server["state"]
      PROVE  PageInv'
  <2> DEFINE shown == [page EXCEPT !["state"] = v]
  <2>1. shown \in [Parts -> 1..MaxVersion] /\ Show(shown)
    BY <1>4, <1>5 DEF RenderState
  <2>2. \A p \in Parts : newest[p] <= shown[p] /\ shown[p] <= server[p]
    BY <1>4, <1>5 DEF Parts
  <2> HIDE DEF shown
  <2> QED
    BY <1>1, <1>2, <2>1, <2>2, ShowKeeps
<1>6. CASE f.outcome = "ok" /\ RenderState(f.version)
  <2>1. /\ f.version \in 1..MaxVersion
        /\ newest["state"] <= f.version /\ f.version <= server["state"]
    BY <1>1, <1>6, FetchTypes DEF PageInv, Fresh, Part
  <2> QED
    BY <1>5, <1>6, <2>1
<1>7. CASE RenderState(page["state"])
  BY <1>4, <1>5, <1>7 DEF Parts
<1>8. CASE RenderUnavailable
  BY <1>1, <1>2, <1>8, UnavailableKeeps
<1> QED
  BY <1>1, <1>6, <1>7, <1>8 DEF RenderUpdate

LEMMA OtherKeeps == ASSUME PageInv, OtherChange PROVE PageInv'
<1> USE DashboardAssumption
<1>1. /\ server' \in [Parts -> 1..MaxVersion]
      /\ \A q \in Parts : server[q] <= server'[q]
      /\ UNCHANGED <<inFlight, fetches, page, newest, clicks, failures>>
  BY GrowsUp DEF OtherChange, PageInv
<1>2. \A f \in fetches : Fresh(f)'
  <2> SUFFICES ASSUME NEW f \in fetches PROVE Fresh(f)'
    OBVIOUS
  <2>1. Fresh(f) /\ Part(f) \in Parts /\ f.version \in 0..MaxVersion
    BY FetchTypes DEF PageInv
  <2> QED
    BY <1>1, <2>1 DEF Fresh, Part, PageInv, PageTypeOK
<1>3. \A p \in Parts : newest'[p] <= server'[p]
  BY <1>1 DEF PageInv, PageTypeOK
<1> QED
  BY <1>1, <1>2, <1>3 DEF PageInv, PageTypeOK, OneAtATime, NeverBackwards

LEMMA PageStep == PageInv /\ [PageNext]_pageVars => PageInv'
<1> SUFFICES ASSUME PageInv, [PageNext]_pageVars PROVE PageInv'
  OBVIOUS
<1>1. CASE UNCHANGED pageVars
  BY <1>1 DEF pageVars, PageInv, PageTypeOK, OneAtATime, NeverBackwards, Fresh, Part
<1> QED
  BY <1>1, StartKeeps, RespondKeeps, FailKeeps, SettlePollKeeps, SettleUpdateKeeps,
     OtherKeeps DEF PageNext

LEMMA PageAlways == PageSpec => []PageInv
BY InitPage, PageStep, PTL DEF PageSpec
-----------------------------------------------------------------------------
(* The page shows state and events together or neither of them, and every
   version on it or under way is one of the backend's. *)
THEOREM PageTypeCorrect == PageSpec => []PageTypeOK
<1>1. PageInv => PageTypeOK
  BY DEF PageInv
<1> QED
  BY <1>1, PageAlways, PTL

(* The page never goes back: of two requests that could overtake each other,
   requestInFlight lets only one be made. *)
THEOREM PageGoesForward == PageSpec => []NeverBackwards
<1>1. PageInv => NeverBackwards
  BY DEF PageInv
<1> QED
  BY <1>1, PageAlways, PTL
-----------------------------------------------------------------------------
(* The device's timers and the online flag. *)

Clock == 0..(Wrap - 1)

LEMMA WrapFacts ==
  /\ Wrap \in Nat /\ Wrap > 0
  /\ RetryInitial \in Nat /\ RetryInitial > 0 /\ RetryMax \in Nat
  /\ RetryInitial <= RetryMax
  /\ ConnectTimeout \in Nat /\ Interval \in Nat
  /\ MaxCall \in Nat /\ MaxPass \in Nat
  /\ ConnectTimeout + MaxCall + MaxPass < Wrap
  /\ RetryMax + MaxCall + MaxPass < Wrap
  /\ Interval + MaxCall + MaxPass < Wrap
<1>1. /\ ConnectTimeout + MaxCall + MaxPass < Wrap
      /\ RetryMax + MaxCall + MaxPass < Wrap
      /\ Interval + MaxCall + MaxPass < Wrap
  BY ConnectivityAssumption
<1> QED
  BY <1>1, ConnectivityAssumption

LEMMA ModuloOnce ==
  ASSUME NEW w \in Nat \ {0}, NEW x \in 0..(2 * w - 1)
  PROVE  x % w = IF x < w THEN x ELSE x - w
<1>1. CASE x < w
  BY <1>1, SMT
<1>2. CASE x >= w
  BY <1>2, SMT
<1> QED
  BY <1>1, <1>2

LEMMA ClockRuns ==
  ASSUME NEW n \in Clock, NEW d \in 0..Wrap
  PROVE  (n + d) % Wrap = IF n + d < Wrap THEN n + d ELSE n + d - Wrap
<1>1. n + d \in 0..(2 * Wrap - 1) /\ Wrap \in Nat \ {0}
  BY WrapFacts DEF Clock
<1> QED
  BY <1>1, WrapFacts, ModuloOnce DEF Clock

(* A timer just read shows nothing. *)
LEMMA TimerStarts == ASSUME NEW t \in Clock PROVE (t + Wrap - t) % Wrap = 0
<1>1. t + Wrap - t = Wrap /\ Wrap \in 0..(2 * Wrap - 1)
  BY WrapFacts DEF Clock
<1> QED
  BY <1>1, WrapFacts, ModuloOnce

(* d later, on the clock and on the timer, as long as the timer does not wrap. *)
LEMMA TimerRuns ==
  ASSUME NEW t \in Clock, NEW n \in Clock, NEW d \in Nat,
         ((n + Wrap - t) % Wrap) + d < Wrap
  PROVE  /\ (n + d) % Wrap \in Clock
         /\ (((n + d) % Wrap) + Wrap - t) % Wrap = ((n + Wrap - t) % Wrap) + d
<1> DEFINE u == (n + Wrap - t) % Wrap
           m == (n + d) % Wrap
<1>1. n + Wrap - t \in 0..(2 * Wrap - 1)
  BY WrapFacts DEF Clock
<1>2. u = IF n + Wrap - t < Wrap THEN n + Wrap - t ELSE n - t
  BY <1>1, WrapFacts, ModuloOnce DEF Clock
<1>3. d \in 0..Wrap
  BY <1>2, WrapFacts DEF Clock
<1>4. m = IF n + d < Wrap THEN n + d ELSE n + d - Wrap
  BY <1>3, ClockRuns
<1>5. m \in Clock
  BY <1>3, <1>4, WrapFacts DEF Clock
<1>6. m + Wrap - t \in 0..(2 * Wrap - 1)
  BY <1>5, WrapFacts DEF Clock
<1> HIDE DEF m
<1>7. (m + Wrap - t) % Wrap = IF m + Wrap - t < Wrap THEN m + Wrap - t ELSE m - t
  BY <1>5, <1>6, WrapFacts, ModuloOnce DEF Clock
<1>8. (m + Wrap - t) % Wrap = u + d
  BY <1>2, <1>4, <1>5, <1>7, WrapFacts DEF Clock
<1> QED
  BY <1>5, <1>8 DEF m
-----------------------------------------------------------------------------
(* The timers tell the true time, and each has an upper bound. *)

Waited == IF attempting THEN attemptStartedAt ELSE retryScheduledAt
WaitLimit == IF attempting THEN ConnectTimeout ELSE retryWait

WaitTimed == ~connected => Since(Waited) = idle /\ idle <= WaitLimit + sincePass

BeatTimed == connected => /\ attempted
                          /\ Since(completedAt) = unbeaten
                          /\ unbeaten <= Interval + sincePass

Types ==
  /\ now \in Clock /\ attemptStartedAt \in Clock
  /\ retryScheduledAt \in Clock /\ completedAt \in Clock
  /\ retryDelay \in RetryInitial..RetryMax
  /\ retryWait \in {0} \cup RetryInitial..RetryMax
  /\ linked \in BOOLEAN /\ connected \in BOOLEAN /\ attempting \in BOOLEAN
  /\ requested \in BOOLEAN /\ attempted \in BOOLEAN /\ online \in BOOLEAN
  /\ sincePass \in 0..MaxPass
  /\ idle \in Nat /\ unbeaten \in Nat /\ answered \in 0..Unanswered

(* The heartbeat that ended last answers for the flag, as long as WiFi is up. *)
FlagFollows == /\ online => connected /\ answered = unbeaten
               /\ connected /\ ~online => answered = Unanswered

ConnInv == Types /\ WaitTimed /\ BeatTimed /\ FlagFollows

(* The age of a report that a device online by its own account is shown with. *)
StatusInv ==
  /\ age \in 0..Expired
  /\ abandoned \in BOOLEAN /\ restarted \in BOOLEAN /\ lapsed \in BOOLEAN
  /\ ~lapsed
  /\ online /\ ~restarted => age <= unbeaten + MaxCall

LEMMA TypesGiveType == Types => TypeOK
BY Zenon DEF Types, TypeOK, Clock

LEMMA ConnInit == Init => ConnInv
<1> SUFFICES ASSUME Init PROVE ConnInv
  OBVIOUS
<1>1. Types
  <2>1. /\ linked \in BOOLEAN /\ connected \in BOOLEAN /\ attempting \in BOOLEAN
        /\ requested \in BOOLEAN /\ attempted \in BOOLEAN /\ online \in BOOLEAN
    BY Zenon DEF Init
  <2> QED
    BY <2>1, WrapFacts DEF Init, Types, Clock, Unanswered
<1>2. Since(Waited) = 0
  BY TimerStarts, WrapFacts DEF Init, Waited, Since, Clock
<1>3. WaitTimed /\ BeatTimed /\ FlagFollows
  BY <1>2, WrapFacts DEF Init, WaitTimed, WaitLimit, BeatTimed, FlagFollows
<1> QED
  BY <1>1, <1>3 DEF ConnInv

LEMMA BackoffInRange ==
  ASSUME Types, ScheduleRetry
  PROVE  /\ retryDelay' \in RetryInitial..RetryMax
         /\ retryWait' \in RetryInitial..RetryMax
         /\ retryScheduledAt' \in Clock
BY WrapFacts DEF Types, ScheduleRetry, Clock

(* What NetworkManager::update leaves. *)
LEMMA NetworkStep ==
  ASSUME ConnInv, NetworkUpdate
  PROVE  /\ attemptStartedAt' \in Clock /\ retryScheduledAt' \in Clock
         /\ retryDelay' \in RetryInitial..RetryMax
         /\ retryWait' \in {0} \cup RetryInitial..RetryMax
         /\ linked' \in BOOLEAN /\ connected' \in BOOLEAN /\ attempting' \in BOOLEAN
         /\ idle' \in Nat /\ WaitLimit' \in Nat
         /\ ~connected' => /\ (now + Wrap - Waited') % Wrap = idle'
                           /\ idle' <= WaitLimit'
<1> USE WrapFacts DEF ConnInv, Types, Clock
<1> SUFFICES ASSUME retryWait' \in Nat => WaitLimit' \in Nat
             PROVE  /\ attemptStartedAt' \in Clock /\ retryScheduledAt' \in Clock
                    /\ retryDelay' \in RetryInitial..RetryMax
                    /\ retryWait' \in {0} \cup RetryInitial..RetryMax
                    /\ linked' \in BOOLEAN /\ connected' \in BOOLEAN
                    /\ attempting' \in BOOLEAN
                    /\ idle' \in Nat
                    /\ ~connected' => /\ (now + Wrap - Waited') % Wrap = idle'
                                      /\ idle' <= WaitLimit'
  BY DEF WaitLimit
<1>1. CASE FoundUp
  <2>1. linked' \in BOOLEAN /\ connected' \in BOOLEAN /\ attempting' \in BOOLEAN
    BY <1>1, Zenon DEF FoundUp
  <2>2. connected'
    BY <1>1, Zenon DEF FoundUp
  <2> QED
    BY <1>1, <2>1, <2>2 DEF FoundUp
<1>2. CASE FoundLost
  <2>1. Waited' = now /\ WaitLimit' = retryWait' /\ idle' = 0
    BY <1>2 DEF FoundLost, ScheduleRetry, Waited, WaitLimit
  <2>2. (now + Wrap - now) % Wrap = 0
    BY TimerStarts
  <2> QED
    <3>1. linked' \in BOOLEAN /\ connected' \in BOOLEAN /\ attempting' \in BOOLEAN
      BY <1>2, Zenon DEF FoundLost
    <3>2. attemptStartedAt' = attemptStartedAt
      BY <1>2, Zenon DEF FoundLost
    <3>3. ScheduleRetry
      BY <1>2 DEF FoundLost
    <3> QED
      BY <2>1, <2>2, <3>1, <3>2, <3>3, BackoffInRange
<1>3. CASE AttemptFails
  <2>1. Waited' = now /\ WaitLimit' = retryWait' /\ idle' = 0
    BY <1>3 DEF AttemptFails, ScheduleRetry, Waited, WaitLimit
  <2>2. (now + Wrap - now) % Wrap = 0
    BY TimerStarts
  <2> QED
    <3>1. linked' \in BOOLEAN /\ connected' \in BOOLEAN /\ attempting' \in BOOLEAN
      BY <1>3, Zenon DEF AttemptFails
    <3>2. attemptStartedAt' = attemptStartedAt
      BY <1>3, Zenon DEF AttemptFails
    <3>3. ScheduleRetry
      BY <1>3 DEF AttemptFails
    <3> QED
      BY <2>1, <2>2, <3>1, <3>2, <3>3, BackoffInRange
<1>4. CASE StartAttempt
  <2>1. ~connected' => Waited' = now /\ WaitLimit' = ConnectTimeout /\ idle' = 0
    BY <1>4 DEF StartAttempt, Waited, WaitLimit
  <2>2. (now + Wrap - now) % Wrap = 0
    BY TimerStarts
  <2> QED
    BY <1>4, <2>1, <2>2 DEF StartAttempt
<1>5. CASE StillWaiting
  <2>1. UNCHANGED <<linked, network, idle>> /\ ~connected
    BY <1>5 DEF StillWaiting
  <2>2. Waited' = Waited /\ WaitLimit' = WaitLimit
    BY <2>1 DEF Waited, WaitLimit, network
  <2>3. (now + Wrap - Waited) % Wrap = idle
    BY <2>1 DEF WaitTimed, Since
  <2>4. idle < WaitLimit
    BY <1>5, <2>1, <2>3 DEF StillWaiting, RetryDue, Since, Waited, WaitLimit
  <2>5. WaitLimit \in Nat
    BY DEF WaitLimit
  <2> QED
    BY <2>1, <2>2, <2>3, <2>4, <2>5 DEF network
<1> QED
  BY <1>1, <1>2, <1>3, <1>4, <1>5 DEF NetworkUpdate

(* A heartbeat that starts now and lasts d. *)
LEMMA CallLasts ==
  ASSUME now \in Clock, NEW d \in 0..MaxCall
  PROVE  Later(d) \in Clock /\ (Later(d) + Wrap - now) % Wrap = d
<1>1. (now + Wrap - now) % Wrap = 0 /\ d \in Nat /\ d < Wrap
  BY TimerStarts, WrapFacts
<1> QED
  BY <1>1, TimerRuns DEF Later

LEMMA HeartbeatStep ==
  ASSUME ConnInv, Heartbeat
  PROVE  /\ connected' /\ attempted' /\ attempted' \in BOOLEAN /\ requested' \in BOOLEAN
         /\ now' \in Clock /\ completedAt' = now' /\ online' \in BOOLEAN
         /\ unbeaten' = 0
         /\ answered' = IF online' THEN 0 ELSE Unanswered
         /\ Elapsed \in 0..MaxCall
<1>1. PICK d \in 0..MaxCall, succeeded \in BOOLEAN :
        /\ now' = Later(d) /\ completedAt' = Later(d) /\ online' = succeeded
        /\ answered' = IF succeeded THEN 0 ELSE Unanswered
  BY DEF Heartbeat
<1>2. now \in Clock
  BY DEF ConnInv, Types, Clock
<1>3. now' \in Clock /\ Elapsed = d
  BY <1>1, <1>2, CallLasts DEF Elapsed
<1>4. requested' \in BOOLEAN /\ attempted' \in BOOLEAN
  BY Zenon DEF Heartbeat
<1> QED
  BY <1>1, <1>3, <1>4 DEF Heartbeat

LEMMA PassKeeps == ASSUME ConnInv, LoopPass PROVE ConnInv'
<1>1. NetworkUpdate /\ sincePass' = 0
  BY DEF LoopPass
<1>2. CASE Heartbeat
  <2>1. Since(completedAt)' = 0
    BY <1>2, HeartbeatStep, TimerStarts DEF Since
  <2>2. Types'
    <3>1. online' \in BOOLEAN /\ requested' \in BOOLEAN /\ attempted' \in BOOLEAN
      BY <1>2, HeartbeatStep, Zenon
    <3> QED
      BY <1>1, <1>2, <3>1, HeartbeatStep, NetworkStep, WrapFacts
      DEF Types, Unanswered
  <2>3. FlagFollows'
    <3>1. connected' /\ unbeaten' = 0 /\ answered' = IF online' THEN 0 ELSE Unanswered
      BY <1>2, HeartbeatStep
    <3> QED
      BY <3>1 DEF FlagFollows, Unanswered
  <2> QED
    BY <1>1, <1>2, <2>1, <2>2, <2>3, HeartbeatStep, WrapFacts
    DEF ConnInv, WaitTimed, BeatTimed
<1>3. CASE NoHeartbeat
  <2>1. /\ requested' = RequestedNow
        /\ online' = (online /\ ~(connected /\ ~connected'))
        /\ unbeaten' = IF connected' THEN unbeaten ELSE 0
        /\ now' = now /\ attempted' = attempted /\ completedAt' = completedAt
        /\ answered' = answered
    BY <1>3 DEF NoHeartbeat
  <2>2. Types'
    BY <1>1, <2>1, NetworkStep, WrapFacts
    DEF ConnInv, Types, Clock, RequestedNow, Unanswered
  <2>3. WaitTimed'
    BY <1>1, <2>1, NetworkStep, WrapFacts DEF WaitTimed, Since
  <2>4. BeatTimed'
    <3> SUFFICES ASSUME connected'
                 PROVE  /\ attempted'
                        /\ Since(completedAt)' = unbeaten'
                        /\ unbeaten' <= Interval + sincePass'
      BY DEF BeatTimed
    <3>1. ~HeartbeatDue
      BY <1>3 DEF NoHeartbeat
    <3>2. connected /\ attempted /\ ~(Since(completedAt) >= Interval)
      BY <1>1, <3>1, NetworkStep, Zenon
      DEF HeartbeatDue, RequestedNow, ConnInv, Types
    <3> QED
      BY <1>1, <2>1, <3>2, WrapFacts DEF ConnInv, BeatTimed, Since, Types
  <2>5. FlagFollows'
    <3>1. connected' => connected
      <4>1. ~HeartbeatDue \/ ~connected'
        BY <1>3 DEF NoHeartbeat
      <4> QED
        BY <1>1, <4>1, NetworkStep, Zenon DEF HeartbeatDue, RequestedNow, ConnInv, Types
    <3>2. online' => online /\ connected'
      BY <2>1 DEF ConnInv, FlagFollows
    <3>3. connected' /\ ~online' => connected /\ ~online
      BY <2>1, <3>1
    <3> QED
      BY <2>1, <3>2, <3>3 DEF ConnInv, FlagFollows, Unanswered
  <2> QED
    BY <2>2, <2>3, <2>4, <2>5 DEF ConnInv
<1> QED
  BY <1>2, <1>3 DEF LoopPass

LEMMA TickKeeps == ASSUME ConnInv, Tick PROVE ConnInv'
<1> USE WrapFacts
<1>1. /\ now' = Later(1) /\ sincePass' = sincePass + 1 /\ sincePass < MaxPass
      /\ idle' = idle + 1 /\ unbeaten' = unbeaten + 1
      /\ answered' = IF answered < Unanswered THEN answered + 1 ELSE answered
      /\ UNCHANGED <<linked, network, client>>
  BY DEF Tick
<1>2. now \in Clock /\ Waited \in Clock /\ completedAt \in Clock
  BY DEF ConnInv, Types, Clock, Waited
<1>3. now' \in Clock
    <2>1. ((now + Wrap - now) % Wrap = 0 /\ 0 + 1 < Wrap) \/ Wrap = 1
    BY <1>2, TimerStarts
  <2>2. CASE Wrap = 1
    BY <1>1, <1>2, <2>2 DEF ConnInv, Types, Clock
  <2>3. CASE (now + Wrap - now) % Wrap = 0 /\ 0 + 1 < Wrap
    BY <1>1, <1>2, <2>3, TimerRuns DEF Later
  <2> QED
    BY <2>1, <2>2, <2>3
<1>4. Types'
  BY <1>1, <1>3 DEF ConnInv, Types, Clock, network, client, Unanswered
<1>5. WaitTimed'
  <2> SUFFICES ASSUME ~connected'
               PROVE  Since(Waited)' = idle' /\ idle' <= WaitLimit' + sincePass'
    BY DEF WaitTimed
  <2>1. /\ Waited' = Waited /\ WaitLimit' = WaitLimit /\ ~connected
    BY <1>1 DEF Waited, WaitLimit, network
  <2>2. /\ (now + Wrap - Waited) % Wrap = idle
        /\ idle <= WaitLimit + sincePass
    BY <2>1 DEF ConnInv, WaitTimed, Since
  <2>3. WaitLimit \in 0..ConnectTimeout \/ WaitLimit \in 0..RetryMax
    BY DEF WaitLimit, ConnInv, Types
  <2>4. ((now + Wrap - Waited) % Wrap) + 1 < Wrap
    BY <1>1, <2>2, <2>3 DEF ConnInv, Types
  <2>5. (now' + Wrap - Waited) % Wrap = idle + 1
    BY <1>1, <1>2, <2>2, <2>4, TimerRuns DEF Later
  <2> QED
    BY <1>1, <2>1, <2>2, <2>3, <2>5 DEF Since, ConnInv, Types
<1>6. BeatTimed'
  <2> SUFFICES ASSUME connected'
               PROVE  /\ attempted'
                      /\ Since(completedAt)' = unbeaten'
                      /\ unbeaten' <= Interval + sincePass'
    BY DEF BeatTimed
  <2>1. /\ connected /\ attempted' = attempted /\ completedAt' = completedAt
    BY <1>1 DEF network, client
  <2>2. /\ attempted /\ (now + Wrap - completedAt) % Wrap = unbeaten
        /\ unbeaten <= Interval + sincePass
    BY <2>1 DEF ConnInv, BeatTimed, Since
  <2>3. ((now + Wrap - completedAt) % Wrap) + 1 < Wrap
    BY <1>1, <2>2 DEF ConnInv, Types
  <2>4. (now' + Wrap - completedAt) % Wrap = unbeaten + 1
    BY <1>1, <1>2, <2>2, <2>3, TimerRuns DEF Later
  <2> QED
    BY <1>1, <2>1, <2>2, <2>4 DEF Since, ConnInv, Types
<1>7. FlagFollows'
  <2>1. online' = online /\ connected' = connected
    BY <1>1 DEF network, client
  <2>2. CASE connected /\ answered = unbeaten
    <3>1. unbeaten \in Nat /\ unbeaten < Unanswered
      BY <2>2 DEF ConnInv, Types, BeatTimed, Unanswered
    <3>2. answered' = unbeaten'
      BY <1>1, <2>2, <3>1
    <3>3. connected /\ ~online => FALSE
      BY <2>2, <3>1 DEF ConnInv, FlagFollows
    <3> QED
      BY <2>1, <2>2, <3>2, <3>3 DEF FlagFollows
  <2>3. CASE ~connected
    BY <2>1, <2>3 DEF ConnInv, FlagFollows
  <2>4. CASE connected /\ ~online
    <3>1. answered = Unanswered /\ Unanswered \in Nat
      BY <2>4 DEF ConnInv, FlagFollows, Unanswered
    <3>2. answered' = Unanswered
      BY <1>1, <3>1
    <3> QED
      BY <2>1, <2>4, <3>2 DEF FlagFollows, Unanswered
  <2> QED
    BY <2>2, <2>3, <2>4 DEF ConnInv, FlagFollows
<1> QED
  BY <1>4, <1>5, <1>6, <1>7 DEF ConnInv

(* Everything the timers depend on is left alone. *)
LEMMA OthersKeep ==
  ASSUME ConnInv, RequestHeartbeat \/ LinkChange \/ UNCHANGED vars
  PROVE  ConnInv'
<1>1. /\ UNCHANGED <<now, network, attempted, completedAt, online, sincePass,
                     idle, unbeaten, answered>>
      /\ linked' \in BOOLEAN /\ requested' \in BOOLEAN
  BY DEF RequestHeartbeat, LinkChange, vars, network, client, ConnInv, Types
<1> QED
  BY <1>1 DEF ConnInv, Types, WaitTimed, BeatTimed, FlagFollows, Waited, WaitLimit,
              Since, network, Unanswered

LEMMA ConnNext == ConnInv /\ [Next]_vars => ConnInv'
BY PassKeeps, TickKeeps, OthersKeep DEF Next

(* The composition restricts the device's steps, and adds none. *)
LEMMA StatusStep == StatusNext => [Next]_vars
BY DEF StatusNext, Pass, StatusTick, RecordLate, ServerRestart, Next, vars

(* The device in the composition is the device of Connectivity. *)
THEOREM DeviceUnaffected == StatusSpec => Spec
<1>1. StatusInit => Init
  BY DEF StatusInit
<1>2. [StatusNext]_statusVars => [Next]_vars
  BY StatusStep DEF statusVars
<1> QED
  BY <1>1, <1>2, PTL DEF StatusSpec, Spec
-----------------------------------------------------------------------------
(* The report of an online device never gets old. *)

LEMMA StatusInitInv == StatusInit => StatusInv
<1> SUFFICES ASSUME StatusInit PROVE StatusInv
  OBVIOUS
<1>1. /\ abandoned \in BOOLEAN /\ restarted \in BOOLEAN /\ lapsed \in BOOLEAN
      /\ restarted /\ ~lapsed /\ age = Expired
  BY Zenon DEF StatusInit
<1> QED
  BY <1>1, OnlineAssumption DEF StatusInv, Expired

LEMMA OlderInRange ==
  ASSUME NEW d \in Nat, age \in 0..Expired
  PROVE  Older(d) \in 0..Expired /\ Older(d) <= age + d
BY OnlineAssumption DEF Older, Expired

LEMMA ExchangeKeeps ==
  ASSUME ConnInv, StatusInv, LoopPass, Heartbeat, Exchange
  PROVE  StatusInv'
<1> USE WrapFacts, OnlineAssumption
<1>1. Elapsed \in 0..MaxCall /\ online' \in BOOLEAN /\ unbeaten' = 0
  BY HeartbeatStep
<1>2. abandoned' \in BOOLEAN /\ restarted' \in BOOLEAN
  BY <1>1 DEF Exchange, StatusInv
<1>3. CASE Recorded
  <2>1. PICK r \in 0..Elapsed :
          /\ age' = Elapsed - r
          /\ lapsed' = (lapsed \/ (online /\ ~restarted /\ age + r > OnlineTimeout))
    BY <1>3 DEF Recorded
  <2>2. online /\ ~restarted => age + r <= OnlineTimeout
    <3> SUFFICES ASSUME online, ~restarted PROVE age + r <= OnlineTimeout
      OBVIOUS
    <3>1. age <= unbeaten + MaxCall /\ unbeaten <= Interval + sincePass
      BY DEF StatusInv, ConnInv, BeatTimed, FlagFollows
    <3> QED
      BY <1>1, <2>1, <3>1 DEF StatusInv, ConnInv, Types, Expired
  <2>3. age' \in 0..MaxCall
    BY <1>1, <2>1
  <2>4. ~lapsed' /\ lapsed' \in BOOLEAN
    BY <1>1, <2>1, <2>2 DEF StatusInv, Expired
  <2> QED
    BY <1>1, <1>2, <2>3, <2>4 DEF StatusInv, Expired
<1>4. CASE ~online' /\ NotRecorded
  BY <1>1, <1>2, <1>4, OlderInRange DEF NotRecorded, StatusInv
<1> QED
  BY <1>3, <1>4 DEF Exchange

LEMMA StatusPass == ASSUME ConnInv, StatusInv, Pass PROVE StatusInv'
<1>1. CASE Heartbeat
  BY <1>1, ExchangeKeeps DEF Pass, Heartbeat
<1>2. CASE NoHeartbeat
  <2>1. UNCHANGED report
    BY <1>2 DEF Pass, NoHeartbeat
  <2>2. online' => online /\ unbeaten' = unbeaten
    BY <1>2 DEF NoHeartbeat, ConnInv, FlagFollows
  <2> QED
    BY <2>1, <2>2 DEF StatusInv, report, Expired
<1> QED
  BY <1>1, <1>2 DEF Pass, LoopPass

LEMMA StatusNextKeeps == ConnInv /\ StatusInv /\ [StatusNext]_statusVars => StatusInv'
<1> SUFFICES ASSUME ConnInv, StatusInv, [StatusNext]_statusVars PROVE StatusInv'
  OBVIOUS
<1> USE WrapFacts, OnlineAssumption
<1>1. CASE Pass
  BY <1>1, StatusPass
<1>2. CASE StatusTick
  <2>1. age' = Older(1) /\ UNCHANGED <<online, abandoned, restarted, lapsed>>
        /\ unbeaten' = unbeaten + 1
    BY <1>2 DEF StatusTick, Tick, client
  <2> QED
    BY <2>1, OlderInRange DEF StatusInv, ConnInv, Types, Expired
<1>3. CASE RecordLate
  BY <1>3 DEF RecordLate, StatusInv, vars, client, Expired, ConnInv, Types
<1>4. CASE ServerRestart
  <2>1. /\ abandoned' \in BOOLEAN /\ restarted' \in BOOLEAN /\ restarted'
        /\ age' = Expired' /\ lapsed' = lapsed
    BY <1>4, Zenon DEF ServerRestart, Expired
  <2> QED
    BY <2>1 DEF StatusInv, Expired
<1>5. CASE (RequestHeartbeat \/ LinkChange) /\ UNCHANGED report
  BY <1>5 DEF RequestHeartbeat, LinkChange, report, client, StatusInv, Expired
<1>6. CASE UNCHANGED statusVars
  BY <1>6 DEF statusVars, vars, report, client, StatusInv, Expired
<1> QED
  BY <1>1, <1>2, <1>3, <1>4, <1>5, <1>6 DEF StatusNext

LEMMA Inductive == StatusSpec => [](ConnInv /\ StatusInv)
<1>1. StatusInit => ConnInv /\ StatusInv
  BY ConnInit, StatusInitInv DEF StatusInit
<1>2. ConnInv /\ StatusInv /\ [StatusNext]_statusVars => (ConnInv /\ StatusInv)'
  <2>1. [StatusNext]_statusVars => [Next]_vars
    BY StatusStep DEF statusVars
  <2> QED
    BY <2>1, ConnNext, StatusNextKeeps
<1> QED
  BY <1>1, <1>2, PTL DEF StatusSpec

(* The timers stay readings of millis(), and the backoff in its range. *)
THEOREM TimersTypeCorrect == StatusSpec => []TypeOK
<1>1. ConnInv /\ StatusInv => TypeOK
  BY TypesGiveType DEF ConnInv
<1> QED
  BY <1>1, Inductive, PTL

(* A device without WiFi tries again in time, though millis() wraps. *)
THEOREM RetriesInTime == StatusSpec => []RetryInTime
<1>1. ConnInv /\ StatusInv => RetryInTime
  BY WrapFacts
  DEF ConnInv, Types, WaitTimed, WaitLimit, RetryInTime
<1> QED
  BY <1>1, Inductive, PTL

(* A connected device sends its next heartbeat in time. *)
THEOREM HeartbeatsInTime == StatusSpec => []HeartbeatInTime
<1>1. ConnInv /\ StatusInv => HeartbeatInTime
  BY WrapFacts DEF ConnInv, Types, BeatTimed, HeartbeatInTime
<1> QED
  BY <1>1, Inductive, PTL

(* The online flag is on exactly while WiFi is up and the last heartbeat was  *)
(* answered, which in true time is never longer ago than interval and pass.   *)
THEOREM FlagIsAnswered == StatusSpec => []OnlineIsAnswered
<1>1. ConnInv => OnlineIsAnswered
  <2> SUFFICES ASSUME ConnInv PROVE OnlineIsAnswered
    OBVIOUS
  <2>1. CASE online
    <3>1. connected /\ answered = unbeaten /\ unbeaten <= Interval + sincePass
      BY <2>1 DEF ConnInv, FlagFollows, BeatTimed
    <3>2. answered <= Interval + MaxPass
      BY <3>1, WrapFacts DEF ConnInv, Types
    <3> QED
      BY <2>1, <3>1, <3>2 DEF OnlineIsAnswered
  <2>2. CASE ~online /\ connected
    <3>1. answered = Interval + MaxPass + 1
      BY <2>2 DEF ConnInv, FlagFollows, Unanswered
    <3>2. ~(answered <= Interval + MaxPass)
      BY <3>1, WrapFacts
    <3> QED
      BY <2>2, <3>2 DEF OnlineIsAnswered
  <2>3. CASE ~online /\ ~connected
    BY <2>3 DEF OnlineIsAnswered
  <2> QED
    BY <2>1, <2>2, <2>3
<1> QED
  BY <1>1, Inductive, PTL

(* A device that is online by its own account is shown online. *)
THEOREM OnlineIsShown == StatusSpec => []StaysOnline
<1>1. ConnInv /\ StatusInv => StaysOnline
  BY WrapFacts, OnlineAssumption
  DEF ConnInv, Types, BeatTimed, FlagFollows, StatusInv, StaysOnline, ShownOnline,
      Expired
<1> QED
  BY <1>1, Inductive, PTL
=============================================================================
