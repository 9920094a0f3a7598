------------------------------ MODULE PinDriver ------------------------------
(***************************************************************************)
(* PinDriver (drivers/pin_driver.cpp) for a pin that is written: an        *)
(* output, a PWM output, or a timed pin, which a write turns on and a      *)
(* task of the task pool turns off again.                                  *)
(*                                                                         *)
(* Whoever writes, creates or removes holds the lock of the device table;  *)
(* the task that turns the pin off takes no lock.  Of the pool (module     *)
(* TaskPool) only the timers of this driver are kept.                      *)
(***************************************************************************)
EXTENDS Integers

CONSTANTS
  Delays,     \* the times for which a request turns a timed pin on, in ticks
  Threads,    \* the threads of the task pool
  MaxDuty,    \* PinConfig::max_value
  PwmValues,  \* what a request writes to a PWM output as duty
  Percents,   \* what a request writes as percentage
  NoTimer     \* no such task in the pool

ASSUME PinAssumption ==
  /\ Delays \subseteq Nat /\ Delays # {}
  /\ Threads \in Nat \ {0}
  /\ MaxDuty \in Nat
  /\ PwmValues \subseteq Nat /\ Percents \subseteq Int
  /\ NoTimer \notin Nat

VARIABLES
  type,       \* PinConfig::type
  invert,     \* PinConfig::invert
  there,      \* the driver object exists
  pinLevel,   \* the electrical level of the pin
  duty,       \* m_current_value of a PWM output
  writing,    \* where a write to a timed pin is
  delay,      \* secondsTillReset of that write
  timer,      \* trackedTasked: ticks until its task is due
  newTimer,   \* timedTask, of the write under way
  running,    \* workers that have taken a reset and not set the level yet
  stale,      \* ... for a driver that is gone
  owed,       \* history: ticks for which the last write promised the pin on
  overtaken,  \* history: a reset of an earlier write came after the last one
  leftOn,     \* history: the pin is on, and not by a write of its driver
  given       \* history: the last request to a PWM output

pinConfig == <<type, invert>>
timers == <<timer, newTimer, running, stale>>
write  == <<writing, delay>>
told   == <<owed, overtaken, leftOn>>
pinVars == <<pinConfig, there, pinLevel, duty, write, timers, told, given>>

On == pinLevel # invert
Writable == there /\ writing = "idle"

PinInit ==
  /\ type = "timed" /\ invert = FALSE /\ there = FALSE /\ pinLevel = FALSE
  /\ duty = 0 /\ given = [unit |-> "pwm", value |-> 0]
  /\ writing = "idle" /\ delay = 0
  /\ timer = NoTimer /\ newTimer = NoTimer /\ running = 0 /\ stale = 0
  /\ owed = 0 /\ overtaken = FALSE /\ leftOn = FALSE

-----------------------------------------------------------------------------
\* create_driver makes the pin an output and sets no level, so an inverted pin
\* is on from then.  A PWM output begins with a duty of zero.
CreatePin ==
  /\ ~ there
  /\ there' = TRUE
  /\ type' \in {"output", "pwm", "timed"} /\ invert' \in BOOLEAN
  /\ duty' = 0 /\ given' = [unit |-> "pwm", value |-> IF invert' THEN MaxDuty ELSE 0]
  /\ leftOn' = (pinLevel # invert')
  /\ owed' = 0 /\ overtaken' = FALSE
  /\ UNCHANGED <<pinLevel, write, timers>>

\* The destructor takes its task from the pool, and sets no level.
RemovePin ==
  /\ Writable
  /\ there' = FALSE
  /\ timer' = NoTimer
  /\ stale' = stale + running /\ running' = 0
  /\ leftOn' = On
  /\ owed' = 0
  /\ UNCHANGED <<pinConfig, pinLevel, duty, write, newTimer, overtaken, given>>

PinPowerCycle ==
  /\ there' = FALSE /\ pinLevel' = FALSE /\ duty' = 0
  /\ writing' = "idle" /\ delay' = 0
  /\ timer' = NoTimer /\ newTimer' = NoTimer /\ running' = 0 /\ stale' = 0
  /\ owed' = 0 /\ overtaken' = FALSE /\ leftOn' = FALSE
  /\ UNCHANGED <<pinConfig, given>>

-----------------------------------------------------------------------------
\* adjustTimedValue, with the thread that writes between any two of its calls.

TurnOn(s) ==
  /\ Writable /\ type = "timed"
  /\ pinLevel' = ~ invert
  /\ writing' = "on" /\ delay' = s
  /\ owed' = s /\ overtaken' = (running + stale > 0) /\ leftOn' = FALSE
  /\ UNCHANGED <<pinConfig, there, duty, timers, given>>

\* Mutant: last_executed is the clock's epoch, so that the task is due at once.
DueAtOnce == 0
\* last_executed is now.
DueThen == delay

Post ==
  /\ writing = "on"
  /\ newTimer' = DueThen
  /\ writing' = "posted"
  /\ UNCHANGED <<pinConfig, there, pinLevel, duty, delay, timer, running, stale, told, given>>

\* The pool is full: the pin goes off at once and the request fails; the timer
\* of an earlier write stays.
PostFails ==
  /\ writing = "on"
  /\ pinLevel' = invert
  /\ writing' = "idle" /\ owed' = 0
  /\ UNCHANGED <<pinConfig, there, duty, delay, timers, overtaken, leftOn, given>>

\* Mutant: the new task is removed, not the one it replaces.
KeepOld == timer' = timer
\* The trackers are swapped and the replaced one takes its task from the pool.
TakeNew == timer' = newTimer

Swap ==
  /\ writing = "posted"
  /\ TakeNew /\ newTimer' = NoTimer
  /\ writing' = "idle"
  /\ UNCHANGED <<pinConfig, there, pinLevel, duty, delay, running, stale, told, given>>

\* A worker takes a task that is due from the pool ...
Pick ==
  /\ running + stale < Threads
  /\ running' = running + 1
  /\ \/ /\ timer = 0 /\ timer' = NoTimer
        /\ overtaken' = (overtaken \/ writing # "idle")
        /\ UNCHANGED newTimer
     \/ /\ newTimer = 0 /\ newTimer' = NoTimer
        /\ UNCHANGED <<timer, overtaken>>
  /\ UNCHANGED <<pinConfig, there, pinLevel, duty, write, stale, owed, leftOn, given>>

\* ... and runs it: resetPinTimed.  m_current_value of a timed pin is zero.
Reset ==
  /\ running > 0
  /\ running' = running - 1
  /\ pinLevel' = invert
  /\ UNCHANGED <<pinConfig, there, duty, write, timer, newTimer, stale, told, given>>

\* With the driver destroyed it reads what has become of its storage.
StaleReset ==
  /\ stale > 0
  /\ stale' = stale - 1
  /\ pinLevel' \in BOOLEAN
  /\ leftOn' = (pinLevel' # invert)
  /\ UNCHANGED <<pinConfig, there, duty, write, timer, newTimer, running, owed, overtaken, given>>

-----------------------------------------------------------------------------
\* adjustPinLevel; a percentage other than zero turns the pin on.
WriteOutput(on) ==
  /\ Writable /\ type = "output"
  /\ pinLevel' = (on # invert)
  /\ leftOn' = on
  /\ UNCHANGED <<pinConfig, there, duty, write, timers, owed, overtaken, given>>

Clamp(n, most) == IF n < 0 THEN 0 ELSE IF n > most THEN most ELSE n

\* The counts for a percentage; a hundredth of the maximum is cut off first.
Counts(percent) == (MaxDuty \div 100) * percent

\* adjustPwmOutput.
Duty(request) ==
  LET counts == Clamp(IF request.unit = "pwm" THEN request.value
                      ELSE Counts(Clamp(request.value, 100)), MaxDuty)
  IN  IF invert THEN MaxDuty - counts ELSE counts

Requests == [unit : {"pwm"}, value : PwmValues] \cup [unit : {"percent"}, value : Percents]

WritePwm(request) ==
  /\ Writable /\ type = "pwm"
  /\ duty' = Duty(request)
  /\ given' = request
  /\ UNCHANGED <<pinConfig, there, pinLevel, write, timers, told>>

-----------------------------------------------------------------------------
Sooner(ticks) == IF ticks = NoTimer \/ ticks = 0 THEN ticks ELSE ticks - 1

PinTick ==
  /\ timer' = Sooner(timer) /\ newTimer' = Sooner(newTimer)
  /\ owed' = Sooner(owed)
  /\ UNCHANGED <<pinConfig, there, pinLevel, duty, write, running, stale, overtaken, leftOn, given>>

Work == Pick \/ Reset \/ StaleReset
Request == Post \/ PostFails \/ Swap

PinNext ==
  \/ CreatePin \/ RemovePin \/ PinPowerCycle
  \/ \E s \in Delays : TurnOn(s)
  \/ Request \/ Work
  \/ \E on \in BOOLEAN : WriteOutput(on)
  \/ \E request \in Requests : WritePwm(request)
  \/ PinTick

\* The pool runs what is due (TasksRun of TaskPool), a request goes on, and so
\* does time.
PinFairness == WF_pinVars(Work) /\ WF_pinVars(Request) /\ WF_pinVars(PinTick)

PinSpec == PinInit /\ [][PinNext]_pinVars /\ PinFairness

-----------------------------------------------------------------------------
TimerValues == Nat \cup {NoTimer}

PinTypeOK ==
  /\ type \in {"output", "pwm", "timed"} /\ invert \in BOOLEAN
  /\ there \in BOOLEAN /\ pinLevel \in BOOLEAN
  /\ duty \in 0 .. MaxDuty
  /\ writing \in {"idle", "on", "posted"} /\ delay \in Nat
  /\ timer \in TimerValues /\ newTimer \in TimerValues
  /\ running \in Nat /\ stale \in Nat /\ running + stale <= Threads
  /\ owed \in Nat /\ overtaken \in BOOLEAN /\ leftOn \in BOOLEAN
  /\ given.unit \in {"pwm", "percent"} /\ given.value \in Int
  /\ writing # "idle" => there

\* A timed pin stays on for the time the last write asked for, though the
\* timer of an earlier write may be due at any moment of it: it is cut short
\* only by a reset that a worker had taken before the write began, or took
\* from the pool before the write replaced the timer.
OwedIsOn == owed > 0 /\ ~ overtaken => On

\* A write that turned a timed pin on is followed by its going off, however
\* writes and timers cross, unless writes go on for ever; but not if it was
\* on when its driver was removed or created, or by a reset of a driver gone.
GoesOff ==
  []<>(writing # "idle") \/ []<>(there /\ type = "timed" => ~ On \/ leftOn)

\* The duty of a PWM output, inverted or not, is the share of the maximum that
\* was asked for, or less by a count for each percent: a hundred percent need
\* not be the maximum, and of a maximum below a hundred every share is zero.
DutyNearShare ==
  there /\ type = "pwm" /\ given.unit = "percent" =>
    LET counts == IF invert THEN MaxDuty - duty ELSE duty
        short  == Clamp(given.value, 100) * MaxDuty - 100 * counts
    IN  0 <= short /\ short <= 100 * Clamp(given.value, 100)
=============================================================================
