------------------------------ MODULE Stepper ------------------------------
(***************************************************************************)
(* A DRV8825Driver (drivers/drv8825_driver.cpp): requests and the schedule *)
(* add steps to a counter of 16 bits, and the driver's own thread takes    *)
(* the whole counter, makes one step and adds the rest back.  A dosing     *)
(* pump (drivers/dosing_pump_driver.cpp) turns millilitres into steps with *)
(* a factor that calibration sets, and writes them to the stepper.         *)
(*                                                                         *)
(* Whoever writes, creates or removes holds the lock of the device table,  *)
(* so only the driver's thread is concurrent.  Moving a driver stops its   *)
(* thread and starts another before anyone can write to it, and a driver   *)
(* is never assigned to one that exists: a device is dropped first.        *)
(***************************************************************************)
EXTENDS Integers

CONSTANTS
  Modulus,      \* 2^16, where mStepsLeft wraps and a pump's numbers end
  Steps,        \* steps written to the stepper directly, or calibrated with
  Amounts,      \* millilitres, of doses and of calibrations
  FactorUnit,   \* 10: the factor counts tenths of a step
  MaxAsked,     \* bound on the steps asked of one driver object
  Unmeasured    \* no calibration that gave a factor

ASSUME StepperAssumption ==
  /\ Modulus \in Nat \ {0}
  /\ Steps \subseteq 0 .. Modulus - 1
  /\ Amounts \subseteq Nat
  /\ FactorUnit \in Nat \ {0}
  /\ MaxAsked \in Nat

VARIABLES
  exists,     \* the driver object exists
  phase,      \* where its thread is
  stopping,   \* the object is being destroyed: its thread is to stop
  stepsLeft,  \* mStepsLeft
  current,    \* currentStepsLeft
  asked,      \* history: the steps asked of this object
  made,       \* history: the steps its thread made
  factor,     \* the pump's unitTimesTenPerMl
  measured    \* history: what the factor was calibrated with

stepper == <<exists, phase, stopping, stepsLeft, current, asked, made>>
pump == <<factor, measured>>
stepperVars == <<stepper, pump>>

StepperInit ==
  /\ exists = FALSE /\ phase = "gone" /\ stopping = FALSE
  /\ stepsLeft = 0 /\ current = 0
  /\ asked = 0 /\ made = 0
  /\ factor = 0 /\ measured = Unmeasured

-----------------------------------------------------------------------------
\* Requests to the stepper.

\* Its thread ends at once if it gets no encoder; the driver stays.
CreateStepper ==
  /\ ~ exists
  /\ exists' = TRUE
  /\ phase' \in {"idle", "gone"}
  /\ stepsLeft' = 0 /\ asked' = 0 /\ made' = 0
  /\ UNCHANGED <<stopping, current, pump>>

\* fetch_add.
Add(n) == stepsLeft' = (stepsLeft + n) % Modulus

WriteSteps(n) ==
  /\ exists /\ ~ stopping
  /\ asked + n <= MaxAsked
  /\ Add(n)
  /\ asked' = asked + n
  /\ UNCHANGED <<exists, phase, stopping, current, made, pump>>

\* The destructor: request_stop, then join.
BeginRemove ==
  /\ exists /\ ~ stopping
  /\ stopping' = TRUE
  /\ UNCHANGED <<exists, phase, stepsLeft, current, asked, made, pump>>

EndRemove ==
  /\ stopping /\ phase = "gone"
  /\ exists' = FALSE /\ stopping' = FALSE
  /\ stepsLeft' = 0 /\ asked' = 0 /\ made' = 0
  /\ UNCHANGED <<phase, current, pump>>

PowerCycle ==
  /\ exists' = FALSE /\ phase' = "gone" /\ stopping' = FALSE
  /\ stepsLeft' = 0 /\ current' = 0 /\ asked' = 0 /\ made' = 0
  /\ UNCHANGED pump

-----------------------------------------------------------------------------
\* Requests to the pump.  What it writes is lost where the stepper is not there
\* or fails; the pump answers ok all the same.

\* convertMilliliterToUnsignedIntegralValue: the product of floats is cut off,
\* and a whole one may have been rounded down to below; a value that does not
\* fit has no defined conversion.
PumpSteps(ml) ==
  LET exact == (ml * factor) \div FactorUnit
      whole == (ml * factor) % FactorUnit = 0 /\ exact > 0
  IN  IF exact >= Modulus THEN 0 .. Modulus - 1
      ELSE {exact} \cup IF whole THEN {exact - 1} ELSE {}

\* write_value, and the action "manual".
Dose(ml) == \E n \in PumpSteps(ml) : WriteSteps(n)

\* Mutant: the quotient the wrong way round.
Reciprocal(n, ml) == (ml * FactorUnit) \div n
\* Tenths of steps per millilitre.
Factor(n, ml) == (n * FactorUnit) \div ml

\* The action "calibrate", with n steps that gave ml; a quotient by zero or one
\* that does not fit leaves any factor.
Calibrate(n, ml) ==
  /\ IF ml > 0 /\ Factor(n, ml) < Modulus
     THEN factor' = Factor(n, ml) /\ measured' = [steps |-> n, ml |-> ml]
     ELSE factor' \in 0 .. Modulus - 1 /\ measured' = Unmeasured
  /\ UNCHANGED stepper

-----------------------------------------------------------------------------
\* updatePumpThread.

\* The loop's condition, looked at before each step only.
StopRequested == stopping

ThreadEnds ==
  /\ phase = "idle" /\ StopRequested
  /\ phase' = "gone"
  /\ UNCHANGED <<exists, stopping, stepsLeft, current, asked, made, pump>>

\* Mutant: the last step is not looked for.
SeveralLeft == stepsLeft > 1
StepsLeft   == stepsLeft > 0

\* exchange(0); the motor is enabled unless nothing is left.
TakeSteps ==
  /\ phase = "idle" /\ ~ StopRequested
  /\ StepsLeft
  /\ current' = stepsLeft /\ stepsLeft' = 0
  /\ phase' = "step"
  /\ UNCHANGED <<exists, stopping, asked, made, pump>>

\* One step, which counts as made even if its transmission fails; then the
\* motor is disabled.
MakeStep ==
  /\ phase = "step"
  /\ made' = made + 1
  /\ phase' = "stepped"
  /\ UNCHANGED <<exists, stopping, stepsLeft, current, asked, pump>>

\* Mutant: the rest is stored, not added.
StoreRest == stepsLeft' = current - 1
\* The rest joins what was asked in the meantime.
AddRest == Add(current - 1)

PutBack ==
  /\ phase = "stepped"
  /\ AddRest
  /\ current' = 0
  /\ phase' = "idle"
  /\ UNCHANGED <<exists, stopping, asked, made, pump>>

Thread == ThreadEnds \/ TakeSteps \/ MakeStep \/ PutBack

StepperNext ==
  \/ CreateStepper \/ BeginRemove \/ EndRemove \/ PowerCycle
  \/ \E n \in Steps : WriteSteps(n)
  \/ \E ml \in Amounts : Dose(ml)
  \/ \E n \in Steps, ml \in Amounts : Calibrate(n, ml)
  \/ Thread

\* The thread is scheduled, and so is the one that joins it.
StepperFairness == WF_stepperVars(Thread) /\ WF_stepperVars(EndRemove)

StepperSpec == StepperInit /\ [][StepperNext]_stepperVars /\ StepperFairness

-----------------------------------------------------------------------------
Measurements == [steps : Steps, ml : Amounts]

StepperTypeOK ==
  /\ exists \in BOOLEAN /\ stopping \in BOOLEAN
  /\ stopping => exists
  /\ phase \in {"gone", "idle", "step", "stepped"}
  /\ phase # "gone" => exists
  /\ stepsLeft \in 0 .. Modulus - 1 /\ current \in 0 .. Modulus - 1
  /\ asked \in 0 .. MaxAsked /\ made \in Nat
  /\ factor \in 0 .. Modulus - 1
  /\ measured \in Measurements \cup {Unmeasured}

\* What the thread has taken and not made.
InHand ==
  CASE phase = "step" -> current
    [] phase = "stepped" -> current - 1
    [] OTHER -> 0

\* Wherever the thread is when steps are added, each step asked of a driver is
\* made, in hand or left, once; only whole wraps of the counter are missing.
\* So a pump never makes more steps than it was asked for.
StepsAccounted ==
  LET known == made + InHand + stepsLeft
  IN  known <= asked /\ (asked - known) % Modulus = 0

\* Whoever removes a stepper, holding the lock of the device table, does not
\* wait for ever, and one that stays makes all that is asked of it if requests
\* cease: either there is none, or none whose thread could start, again and
\* again, or its thread comes to rest with nothing left.
Finishes ==
  []<>(phase = "gone" /\ ~ stopping) \/ <>[](phase = "idle" /\ stepsLeft = 0)

\* A calibrated pump never doses more steps than the calibration has for the
\* amount, and falls short of them by a step and a tenth of a step for each
\* millilitre at most; unless the number of steps does not fit.
CalibrationHolds ==
  measured # Unmeasured =>
    \A ml \in Amounts : (ml * factor) \div FactorUnit < Modulus =>
      \A n \in PumpSteps(ml) :
        LET exact == ml * measured.steps    \* times measured.ml
        IN  /\ n * measured.ml <= exact
            /\ FactorUnit * exact
                 <= (FactorUnit * (n + 1) + ml) * measured.ml
=============================================================================
