---------------------------- MODULE ControlLoop ----------------------------
(***************************************************************************)
(* A level holder: a sensor in its SensorDriverInterface                   *)
(* (drivers/driver_interface.h), a SwitchDriver (drivers/switch_driver.h)  *)
(* that compares the sensor's reading with a target, and the device the    *)
(* switch writes to, a heater's pin say.  The sensor's task and the device *)
(* updater run in threads of the task pool.                                *)
(*                                                                         *)
(* A reading is the average the driver keeps of its samples (module        *)
(* SampleContainer); here an accepted sample makes it any of Readings and  *)
(* a rejected one leaves it, unless the sensor has several and another was *)
(* accepted.  Before the first sample it is uninitialised.                 *)
(***************************************************************************)
EXTENDS Integers

CONSTANTS
  Readings,   \* what the sensor can read
  Targets,    \* what a request may set as target, in the sensor's unit
  Odd,        \* a target whose unit does not compare with the sensor's
  Allowed,    \* the switch's allowed difference
  Stay,       \* the ticks for which it stays in a state
  Defaults,   \* its default levels
  MaxErrors   \* SensorDriverInterface::MaxErrors

Levels == {"low", "neutral", "high"}
None   == "none"       \* a default-constructed value

ASSUME LoopAssumption ==
  /\ Readings \subseteq Int /\ Readings # {}
  /\ Targets \subseteq Int /\ Targets # {} /\ Odd \notin Targets
  /\ Allowed \in Nat /\ Stay \in Nat /\ MaxErrors \in Nat \ {0}
  /\ Defaults \subseteq Levels

VARIABLES
  config,     \* the switch's defaultValue and onlyTriggerOnChange, and whether
              \* the sensor driver talks to the sensor when it is created and
              \* when it is re-initialised (Bme280Driver)
  answers,    \* what the sensor does when it is read
  accepts,    \* the written device is there and accepts values
  present,    \* the sensor is in the device table
  posted,     \* SensorDriverInterface::mTrackedTask
  errors,     \* SensorDriverInterface::mErrorCount
  reading,    \* what the sensor driver would read
  target,     \* SwitchConfig::targetValue
  previous,   \* SwitchDriver::mPreviousValue
  since,      \* ticks since SwitchDriver::mSwitchedStatesAt, up to Stay
  level,      \* what the written device holds
  silent      \* history: iterations in a row without an answer, up to MaxErrors

sensor == <<present, posted, errors, reading, silent>>
switch == <<target, previous, since, level>>
loopVars == <<config, answers, accepts, sensor, switch>>

Configs == [default : Defaults, onlyOnChange : BOOLEAN, probes : BOOLEAN]

LoopInit ==
  /\ config \in Configs
  /\ answers = "well" /\ accepts = TRUE
  /\ present = FALSE /\ posted = FALSE /\ errors = 0 /\ silent = 0
  /\ reading \in Readings
  /\ target \in Targets \cup {Odd}
  /\ previous = None
  /\ since \in 0 .. Stay
  /\ level \in Levels

-----------------------------------------------------------------------------
\* The sensor.

\* read_value is not refused.
Readable == present /\ errors # MaxErrors

\* A driver object whose error count starts at zero and whose average nobody
\* has set.
NewSensor ==
  /\ errors' = 0 /\ silent' = 0
  /\ posted' = FALSE
  /\ reading' \in Readings

\* Bme280Driver's creation talks to the sensor; the others' does without it.
Creatable == config.probes => answers # "not"

\* A request creates the sensor, or one a reset could not create is there again
\* after the next.
Create ==
  /\ ~ present /\ Creatable
  /\ present' = TRUE
  /\ NewSensor
  /\ UNCHANGED <<config, answers, accepts, switch>>

Remove ==
  /\ present
  /\ present' = FALSE /\ posted' = FALSE /\ errors' = 0 /\ silent' = 0
  /\ UNCHANGED <<config, answers, accepts, reading, switch>>

\* Mutant: a sample the container rejects is an error of the sensor.
CountsOdd == {"not", "oddly"}
\* The outcomes of oneIteration that are DeviceState::ReadError.
ReadErrors == {"not"}

\* Mutant: the limit is tested one iteration late.
NotAbove == errors <= MaxErrors
BelowLimit == errors < MaxErrors

\* updateThread below the limit: one iteration of the driver.
Iterate ==
  /\ posted /\ BelowLimit
  /\ errors' = IF answers \in ReadErrors THEN errors + 1 ELSE 0
  /\ silent' = IF answers = "not"
               THEN IF silent < MaxErrors THEN silent + 1 ELSE silent
               ELSE 0
  /\ reading' \in IF answers = "not" THEN {reading} ELSE Readings
  /\ UNCHANGED <<config, answers, accepts, present, posted, switch>>

\* ... and at the limit, where the reinit of ds18x20 and dhtxx does nothing and
\* succeeds.
Reinit ==
  /\ posted /\ ~ BelowLimit
  /\ ~ config.probes
  /\ errors' = 0
  /\ UNCHANGED <<config, answers, accepts, present, posted, reading, silent, switch>>

-----------------------------------------------------------------------------
\* The switch.

\* calculateRelevantBound.
Near == target - Allowed < reading /\ reading < target + Allowed
Bound == IF Near THEN "neutral" ELSE IF target < reading THEN "low" ELSE "high"

\* writeValueToDevice.
WriteLevel(v) ==
  /\ level' = IF accepts THEN v ELSE level
  /\ since' = IF accepts THEN 0 ELSE since

\* Mutant: no default values where there is nothing to compare.
NoSafety == UNCHANGED <<level, since, previous>>
\* enableSafety, whatever time has passed.
EnableSafety == WriteLevel(config.default) /\ UNCHANGED previous

\* Mutant: a value is sent only where it changes.
OnChange == Bound # previous
ShouldSet == Bound # previous \/ ~ config.onlyOnChange

\* watchValuesAndReact.
React ==
  \/ /\ ~ Readable \/ target = Odd
     /\ EnableSafety
  \/ /\ Readable /\ target # Odd
     /\ since < Stay \/ ~ ShouldSet
     /\ UNCHANGED <<level, since, previous>>
  \/ /\ Readable /\ target # Odd
     /\ since = Stay /\ ShouldSet
     /\ WriteLevel(Bound)
     /\ previous' = Bound

\* The device updater: the sensor posts its task, the switch reacts.
Update ==
  /\ posted' = present
  /\ React
  /\ UNCHANGED <<config, answers, accepts, present, errors, reading, silent, target>>

\* A request writes the target; its unit is compared with a configured one.
SetTarget ==
  /\ target' \in Targets \cup {Odd}
  /\ UNCHANGED <<config, answers, accepts, sensor, previous, since, level>>

-----------------------------------------------------------------------------
\* The surroundings: the sensor begins or ceases to answer, or answers oddly,
\* so that its samples are rejected; the written device comes and goes, and
\* others write to it; time goes on.
SensorChanges ==
  /\ answers' \in {"well", "oddly", "not"} \ {answers}
  /\ UNCHANGED <<config, accepts, sensor, switch>>

DeviceChanges ==
  /\ accepts' = ~ accepts
  /\ UNCHANGED <<config, answers, sensor, switch>>

OtherWrite ==
  /\ level' \in Levels \ {level}
  /\ UNCHANGED <<config, answers, accepts, sensor, target, previous, since>>

Tick ==
  /\ since < Stay
  /\ since' = since + 1
  /\ UNCHANGED <<config, answers, accepts, sensor, target, previous, level>>

\* A reset: both drivers are built from the table.
Reboot ==
  /\ UNCHANGED <<config, answers, accepts, target>>
  /\ present' = (present /\ Creatable)
  /\ NewSensor
  /\ previous' = None
  /\ since' \in 0 .. Stay
  /\ level' \in Levels

\* Bme280Driver's reinit at the limit reads its configuration through mConf,
\* which the moves into and inside the wrapper never copy: whatever the sensor
\* does it may seem to succeed, it may fail, which changes nothing here, or the
\* controller may panic and restart.
ReinitAstray ==
  /\ posted /\ ~ BelowLimit
  /\ config.probes
  /\ \/ /\ errors' = 0
        /\ UNCHANGED <<config, answers, accepts, present, posted, reading, silent, switch>>
     \/ Reboot

LoopNext ==
  \/ Create \/ Remove \/ Iterate \/ Reinit \/ ReinitAstray
  \/ Update \/ SetTarget
  \/ SensorChanges \/ DeviceChanges \/ OtherWrite \/ Tick \/ Reboot

\* Both tasks run again and again (TasksRun of TaskPool), and time goes on.  A
\* reinit that goes astray need not come out in any particular way.
LoopFairness ==
  /\ WF_loopVars(Iterate) /\ WF_loopVars(Reinit)
  /\ WF_loopVars(Update) /\ WF_loopVars(Tick)

LoopSpec == LoopInit /\ [][LoopNext]_loopVars /\ LoopFairness

-----------------------------------------------------------------------------

LoopTypeOK ==
  /\ config \in Configs
  /\ answers \in {"well", "oddly", "not"}
  /\ accepts \in BOOLEAN /\ present \in BOOLEAN /\ posted \in BOOLEAN
  /\ posted => present
  /\ errors \in 0 .. MaxErrors
  /\ silent \in 0 .. MaxErrors
  /\ reading \in Readings
  /\ target \in Targets \cup {Odd}
  /\ previous \in Levels \cup {None}
  /\ since \in 0 .. Stay
  /\ level \in Levels

\* A sensor that answers is never refused, however odd its answers: refusal
\* takes MaxErrors iterations in a row without an answer.
RefusedIfSilent == present /\ ~ Readable => silent = MaxErrors

\* The controller does not come to rest.
Resets == []<><<Reboot>>_loopVars

\* While the sensor can be read and the device accepts values, the level the
\* reading calls for is written again and again, whatever failed, was refused
\* or was written by others before: unless values are sent on changes only,
\* for then the switch takes what it sent last for what the device holds.
Follows ==
  ~ config.onlyOnChange =>
    \A l \in Levels :
      <>[](accepts /\ Readable /\ target # Odd /\ Bound = l) => []<>(level = l) \/ Resets

\* While the sensor cannot be read, or not compared with the target, the
\* default level is, at once and whatever the configuration.
FailsSafe ==
  \A l \in Levels :
    config.default = l /\ <>[](accepts /\ (~ Readable \/ target = Odd))
      => []<>(level = l)

\* A sensor that does not answer any more is refused again and again, whatever
\* its driver's reinit does, so that the switch sees it missing; unless the
\* controller is reset for ever, which a reinit that goes astray can do.
Noticed == <>[](present /\ answers = "not") => []<> ~ Readable \/ Resets
=============================================================================
