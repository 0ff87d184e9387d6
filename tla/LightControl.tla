---------------------------- MODULE LightControl ----------------------------
(***************************************************************************)
(* The device's light: the sensor's moving average (LightSensor.cpp), the  *)
(* modes (ModeController.cpp), the lamp (LightController.cpp), and the     *)
(* events recordObservableChanges (main.cpp) queues about both.  Three     *)
(* callers change them: a sensor sample, a serial command, and a newer     *)
(* desired state.                                                          *)
(***************************************************************************)
EXTENDS Naturals, Functions

CONSTANTS Manual, Night,     \* HomeMode
          SampleCount,       \* LIGHT_SAMPLE_COUNT
          MaxReading,        \* greatest value of analogRead
          OnBelow, OffAbove  \* NIGHT_ON_THRESHOLD, NIGHT_OFF_THRESHOLD

ASSUME LightAssumption == /\ Manual # Night
                          /\ SampleCount \in Nat \ {0}
                          /\ MaxReading \in Nat
                          /\ OnBelow \in Nat /\ OffAbove \in Nat
                          /\ OnBelow <= OffAbove

Mode == {Manual, Night}
Reading == 0..MaxReading
Indices == 0..(SampleCount - 1)

VARIABLES
  samples, sampleCount, nextSampleIndex, runningSum,   \* LightSensor
  filtered,                              \* appState.sensorFiltered
  mode, manualLightOn, actualLightOn,    \* appState
  lamp,                                  \* LightController's lightOn_
  reported     \* history: mode and light as the queued events tell them

sensor == <<samples, sampleCount, nextSampleIndex, runningSum, filtered>>
vars == <<sensor, mode, manualLightOn, actualLightOn, lamp, reported>>

\* setup(): the restored mode is set without a sensor value and without events;
\* a heartbeat reports it.
Init == /\ samples = [i \in Indices |-> 0]
        /\ sampleCount = 0
        /\ nextSampleIndex = 0
        /\ runningSum = 0
        /\ filtered = 0
        /\ mode \in Mode
        /\ manualLightOn \in BOOLEAN
        /\ actualLightOn = (mode = Manual /\ manualLightOn)
        /\ lamp = actualLightOn
        /\ reported = [mode |-> mode, light |-> actualLightOn]
-----------------------------------------------------------------------------
\* applyLight: LightController writes the pins only on a change of its own.
ApplyLight(on) ==
  /\ lamp' = IF on = lamp THEN lamp ELSE on
  /\ actualLightOn' = on

\* Mutant: one threshold instead of two.
EvaluateNightAtOnce(value) == ApplyLight(value < OnBelow)

\* evaluateNightMode, in night mode: between the thresholds the light stays.
EvaluateNight(value) ==
  CASE value < OnBelow  -> ApplyLight(TRUE)
    [] value > OffAbove -> ApplyLight(FALSE)
    [] OTHER            -> UNCHANGED <<lamp, actualLightOn>>

\* ModeController::setMode, for a manual command given before it.
SetMode(m, manual) ==
  /\ mode' = m
  /\ IF m = Manual THEN ApplyLight(manual)
     ELSE IF sampleCount > 0 THEN EvaluateNight(filtered)
     ELSE ApplyLight(FALSE)

\* recordObservableChanges: an event for each of mode and light that changed.
RecordChanges ==
  reported' = [mode |-> IF mode' # mode THEN mode' ELSE reported.mode,
               light |-> IF actualLightOn' # actualLightOn THEN actualLightOn'
                                                           ELSE reported.light]

\* Mutant: the sample overwritten stays in the sum.
EvictedNothing == 0

\* LightSensor::update, 100 ms after the last sample.
Evicted == IF sampleCount < SampleCount THEN 0 ELSE samples[nextSampleIndex]

\* Mutant: the sum is divided by the size of the window, full or not.
TakeSampleFullWindow(raw) ==
  /\ samples' = [samples EXCEPT ![nextSampleIndex] = raw]
  /\ runningSum' = runningSum - Evicted + raw
  /\ sampleCount' = IF sampleCount < SampleCount THEN sampleCount + 1 ELSE sampleCount
  /\ nextSampleIndex' = (nextSampleIndex + 1) % SampleCount
  /\ filtered' = runningSum' \div SampleCount

TakeSample(raw) ==
  /\ samples' = [samples EXCEPT ![nextSampleIndex] = raw]
  /\ runningSum' = runningSum - Evicted + raw
  /\ sampleCount' = IF sampleCount < SampleCount THEN sampleCount + 1 ELSE sampleCount
  /\ nextSampleIndex' = (nextSampleIndex + 1) % SampleCount
  /\ filtered' = runningSum' \div sampleCount'

Sample == \E raw \in Reading :
            /\ TakeSample(raw)
            /\ IF mode = Night THEN EvaluateNight(filtered')
                               ELSE UNCHANGED <<lamp, actualLightOn>>
            /\ UNCHANGED <<mode, manualLightOn>>
            /\ RecordChanges

\* handleCommand "mode ...": repeating the current mode does nothing.
SerialMode == \E m \in Mode \ {mode} :
                /\ SetMode(m, manualLightOn)
                /\ UNCHANGED <<sensor, manualLightOn>>
                /\ RecordChanges

\* Mutant: the command drives the light in night mode too.
SerialLightAnyMode == \E on \in BOOLEAN :
                        /\ manualLightOn' = on
                        /\ ApplyLight(on)
                        /\ UNCHANGED <<sensor, mode>>
                        /\ RecordChanges

\* handleCommand "light ...": in night mode the command is only remembered.
SerialLight == \E on \in BOOLEAN :
                 /\ manualLightOn' = on
                 /\ IF mode = Manual THEN SetMode(Manual, on)
                                     ELSE UNCHANGED <<mode, lamp, actualLightOn>>
                 /\ UNCHANGED sensor
                 /\ RecordChanges

\* Mutant: a desired state changes the light without an event.
ApplyDesiredSilently == \E m \in Mode, on \in BOOLEAN :
                          /\ manualLightOn' = on
                          /\ SetMode(m, on)
                          /\ UNCHANGED <<sensor, reported>>

\* applyDesiredState with a newer version.
ApplyDesired == \E m \in Mode, on \in BOOLEAN :
                  /\ manualLightOn' = on
                  /\ SetMode(m, on)
                  /\ UNCHANGED sensor
                  /\ RecordChanges

Next == Sample \/ SerialMode \/ SerialLight \/ ApplyDesired

Spec == Init /\ [][Next]_vars
-----------------------------------------------------------------------------
(* Correctness. *)

\* The fields keep their ranges; runningSum_ is unsigned and never underflows.
TypeOK ==
  /\ samples \in [Indices -> Reading]
  /\ sampleCount \in 0..SampleCount
  /\ nextSampleIndex \in Indices
  /\ runningSum \in Nat
  /\ filtered \in Reading
  /\ mode \in Mode
  /\ manualLightOn \in BOOLEAN /\ actualLightOn \in BOOLEAN /\ lamp \in BOOLEAN
  /\ reported \in [mode : Mode, light : BOOLEAN]

\* The sum maintained incrementally is that of the samples in the window, so
\* the filtered value is their mean however often the ring has wrapped.
Window == {i \in Indices : i < sampleCount}
SumOf(s, is) == FoldFunctionOnSet(+, 0, s, is)
FilteredIsMean ==
  /\ runningSum = SumOf(samples, Window)
  /\ sampleCount > 0 => filtered = SumOf(samples, Window) \div sampleCount

\* The light is what the mode asks for, whoever changed what last: the manual
\* command in manual mode; in night mode on in the dark, off in brightness.
LightFollowsMode ==
  /\ mode = Manual => actualLightOn = manualLightOn
  /\ mode = Night /\ sampleCount = 0 => ~actualLightOn
  /\ mode = Night /\ sampleCount > 0 /\ filtered < OnBelow => actualLightOn
  /\ mode = Night /\ sampleCount > 0 /\ filtered > OffAbove => ~actualLightOn

\* Hysteresis: while night mode lasts, a mean between the thresholds never
\* switches the light.
NoFlicker ==
  [][mode = Night /\ mode' = Night /\ filtered' \in OnBelow..OffAbove
       => actualLightOn' = actualLightOn]_vars

\* Someone who knows the state at boot and reads the events knows the mode,
\* the light and the lamp: no caller changes one of them without an event.
EventsTellState == reported = [mode |-> mode, light |-> lamp]
=============================================================================
