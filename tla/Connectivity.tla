---------------------------- MODULE Connectivity ----------------------------
(***************************************************************************)
(* The device's connection: WiFi attempts with exponential backoff         *)
(* (NetworkManager.cpp), the schedule of heartbeats and the online flag    *)
(* (BackendClient.cpp), in the order loop() of main.cpp runs them.  Times  *)
(* are millis(), an unsigned counter that wraps around; a pass of loop()   *)
(* may last, a heartbeat most of all.                                      *)
(***************************************************************************)
EXTENDS Naturals

CONSTANTS Wrap,             \* millis() counts modulo Wrap (2^32)
          ConnectTimeout,   \* WIFI_CONNECT_TIMEOUT_MS
          RetryInitial,     \* WIFI_RETRY_INITIAL_MS
          RetryMax,         \* WIFI_RETRY_MAX_MS
          Interval,         \* heartbeatIntervalMs_
          MaxCall,          \* HTTP_TRANSACTION_TIMEOUT_MS
          MaxPass           \* bound: time between two passes of loop()

ASSUME ConnectivityAssumption ==
  /\ RetryInitial \in Nat \ {0} /\ RetryMax \in Nat /\ RetryInitial <= RetryMax
  /\ ConnectTimeout \in Nat /\ Interval \in Nat
  /\ MaxCall \in Nat /\ MaxPass \in Nat
  /\ Wrap \in Nat
  /\ \A wait \in {ConnectTimeout, RetryMax, Interval} : wait + MaxCall + MaxPass < Wrap

VARIABLES
  now,                                      \* millis()
  linked,                                   \* WiFi.status() == WL_CONNECTED
  connected, attempting, attemptStartedAt,  \* NetworkManager
  retryScheduledAt, retryWait, retryDelay,
  requested, attempted, completedAt,        \* BackendClient: heartbeatRequested_,
  online,                                   \* hasAttempted_, lastAttemptCompletedAt_
  sincePass,   \* time since the last pass of loop()
  idle,        \* history: true time since a retry was scheduled, an attempt
               \* started or the link was found up
  unbeaten,    \* history: true time since a heartbeat ended or WiFi was down
  answered     \* history: true time since a heartbeat succeeded, if none failed since

network == <<connected, attempting, attemptStartedAt,
             retryScheduledAt, retryWait, retryDelay>>
client == <<requested, attempted, completedAt, online>>
vars == <<now, linked, network, client, sincePass, idle, unbeaten, answered>>

\* Longer than any success may count, or no success at all.
Unanswered == Interval + MaxPass + 1

Init == /\ now \in 0..(Wrap - 1)
        /\ linked = FALSE
        /\ connected = FALSE /\ attempting = FALSE
        /\ attemptStartedAt = 0
        /\ retryScheduledAt = now /\ retryWait = 0 /\ retryDelay = RetryInitial
        /\ requested = FALSE /\ attempted = FALSE /\ completedAt = 0
        /\ online = FALSE
        /\ sincePass = 0 /\ idle = 0 /\ unbeaten = 0
        /\ answered = Unanswered

\* Unsigned subtraction of two readings of millis().
Since(t) == (now + Wrap - t) % Wrap
Later(d) == (now + d) % Wrap
-----------------------------------------------------------------------------
(* NetworkManager::update. *)

\* Mutant: the doubled delay is not capped.
ScheduleRetryUncapped ==
  /\ retryScheduledAt' = now
  /\ retryWait' = retryDelay
  /\ retryDelay' = IF retryDelay < RetryMax THEN retryDelay * 2 ELSE retryDelay

ScheduleRetry ==
  /\ retryScheduledAt' = now
  /\ retryWait' = retryDelay
  /\ retryDelay' = IF retryDelay < RetryMax
                   THEN IF retryDelay * 2 > RetryMax THEN RetryMax ELSE retryDelay * 2
                   ELSE retryDelay

FoundUp == /\ linked
           /\ connected' = TRUE /\ attempting' = FALSE
           /\ retryDelay' = RetryInitial
           /\ idle' = 0
           /\ UNCHANGED <<linked, attemptStartedAt, retryScheduledAt, retryWait>>

FoundLost == /\ ~linked /\ connected
             /\ connected' = FALSE /\ attempting' = FALSE
             /\ ScheduleRetry
             /\ idle' = 0
             /\ UNCHANGED <<linked, attemptStartedAt>>

AttemptFails == /\ ~linked /\ ~connected /\ attempting
                /\ Since(attemptStartedAt) >= ConnectTimeout
                /\ attempting' = FALSE
                /\ ScheduleRetry
                /\ idle' = 0
                /\ UNCHANGED <<linked, connected, attemptStartedAt>>

\* Mutant: times are compared, not their difference.
RetryDueAbsolute == now >= retryScheduledAt + retryWait

RetryDue == Since(retryScheduledAt) >= retryWait

\* WiFi.begin returns at once; the status is read again right after it.
StartAttempt == /\ ~linked /\ ~connected /\ ~attempting
                /\ RetryDue
                /\ linked' \in BOOLEAN
                /\ connected' = linked'
                /\ attempting' = ~linked'
                /\ retryDelay' = IF linked' THEN RetryInitial ELSE retryDelay
                /\ attemptStartedAt' = now
                /\ idle' = 0
                /\ UNCHANGED <<retryScheduledAt, retryWait>>

StillWaiting == /\ ~linked /\ ~connected
                /\ IF attempting THEN Since(attemptStartedAt) < ConnectTimeout
                                 ELSE ~RetryDue
                /\ UNCHANGED <<linked, network, idle>>

NetworkUpdate == \/ FoundUp \/ FoundLost \/ AttemptFails
                 \/ StartAttempt \/ StillWaiting

\* onWifiConnected and onWifiDisconnected both leave a heartbeat requested; so
\* does the serial command "heartbeat".
RequestedNow == requested \/ connected' # connected

\* Mutant: the same for heartbeats.
HeartbeatDueAbsolute == RequestedNow \/ ~attempted \/ now >= completedAt + Interval

HeartbeatDue == RequestedNow \/ ~attempted \/ Since(completedAt) >= Interval

\* BackendClient::update after NetworkManager::update: the heartbeat blocks
\* loop() for d, and its outcome sets the online flag.
Heartbeat ==
  /\ connected' /\ HeartbeatDue
  /\ \E d \in 0..MaxCall, succeeded \in BOOLEAN :
       /\ now' = Later(d)
       /\ completedAt' = Later(d)
       /\ online' = succeeded
       /\ answered' = IF succeeded THEN 0 ELSE Unanswered
  /\ requested' = FALSE /\ attempted' = TRUE
  /\ unbeaten' = 0

\* Mutant: onWifiDisconnected leaves the online flag alone.
NoHeartbeatStaysOnline ==
  /\ ~(connected' /\ HeartbeatDue)
  /\ requested' = RequestedNow
  /\ unbeaten' = IF connected' THEN unbeaten ELSE 0
  /\ UNCHANGED <<now, attempted, completedAt, online, answered>>

NoHeartbeat ==
  /\ ~(connected' /\ HeartbeatDue)
  /\ requested' = RequestedNow
  /\ online' = (online /\ ~(connected /\ ~connected'))
  /\ unbeaten' = IF connected' THEN unbeaten ELSE 0
  /\ UNCHANGED <<now, attempted, completedAt, answered>>

LoopPass == /\ NetworkUpdate
            /\ Heartbeat \/ NoHeartbeat
            /\ sincePass' = 0

RequestHeartbeat == /\ connected /\ ~requested
                    /\ requested' = TRUE
                    /\ UNCHANGED <<now, linked, network, attempted, completedAt,
                                   online, sincePass, idle, unbeaten, answered>>

Tick == /\ sincePass < MaxPass
        /\ now' = Later(1)
        /\ sincePass' = sincePass + 1
        /\ idle' = idle + 1
        /\ unbeaten' = unbeaten + 1
        /\ answered' = IF answered < Unanswered THEN answered + 1 ELSE answered
        /\ UNCHANGED <<linked, network, client>>

\* The access point comes and goes.
LinkChange == /\ linked' = ~linked
              /\ UNCHANGED <<now, network, client, sincePass, idle, unbeaten, answered>>

Next == LoopPass \/ RequestHeartbeat \/ Tick \/ LinkChange

Spec == Init /\ [][Next]_vars
-----------------------------------------------------------------------------
(* Correctness. *)

\* The timers are readings of millis(), and the backoff never leaves its range.
TypeOK ==
  /\ {now, attemptStartedAt, retryScheduledAt, completedAt} \subseteq 0..(Wrap - 1)
  /\ retryDelay \in RetryInitial..RetryMax
  /\ retryWait \in {0} \cup RetryInitial..RetryMax
  /\ {linked, connected, attempting, requested, attempted, online} \subseteq BOOLEAN
  /\ sincePass \in 0..MaxPass

\* A device without WiFi always tries again in time: counted in true time, no
\* wait or attempt outlasts its limit by more than a pass, though millis() wraps.
RetryInTime ==
  ~connected => idle <= (IF attempting THEN ConnectTimeout ELSE retryWait) + MaxPass

\* A connected device sends its next heartbeat in time.
HeartbeatInTime == connected => unbeaten <= Interval + MaxPass

\* The device is online by its own account (the blue LED) exactly while its WiFi
\* is up and the last heartbeat succeeded, and that success is never older, in
\* true time, than one interval and a pass: a failure, a lost WiFi or a clock that
\* wraps never leaves the flag on, and a WiFi that comes back soon after a success
\* never leaves it off, as a heartbeat follows at once.
OnlineIsAnswered == online <=> connected /\ answered <= Interval + MaxPass
=============================================================================
