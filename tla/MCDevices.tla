----------------------------- MODULE MCDevices -----------------------------
(***************************************************************************)
(* The parts of the device drivers that share no state, checked in one     *)
(* run: a behaviour is one of a single part, and the others stand still.   *)
(***************************************************************************)
EXTENDS SampleContainer, ControlLoop, Stepper, PinDriver

VARIABLE part

vars == <<part, sampleVars, loopVars, stepperVars, pinVars>>

Samples == {-1, 1, 2}
SomePercents == {-1, 0, 1, 50, 100, 101}

ResetSamples ==
  /\ RingInit /\ \A p \in Places : data[p] = 1
  /\ age = 0 /\ change = 0 /\ limit = Unset /\ flat = TRUE

ResetLoop ==
  /\ config = [default |-> "low", onlyOnChange |-> FALSE, probes |-> TRUE]
  /\ answers = "well" /\ accepts = TRUE
  /\ present = FALSE /\ posted = FALSE /\ errors = 0 /\ silent = 0
  /\ reading = 0 /\ target = Odd
  /\ previous = None /\ since = 0 /\ level = "low"

Init ==
  /\ StepperInit /\ PinInit
  /\ \/ part = "ring" /\ RingInit /\ age = 0 /\ change = 0 /\ limit = Unset
                      /\ flat = FALSE /\ ResetLoop
     \/ part = "samples" /\ SampleInit /\ ResetLoop
     \/ part = "loop" /\ ResetSamples /\ LoopInit
     \/ part \in {"stepper", "pin"} /\ ResetSamples /\ ResetLoop

RingStep ==
  /\ part = "ring" /\ RingNext
  /\ UNCHANGED <<part, age, change, limit, flat, loopVars, stepperVars, pinVars>>

SampleStep ==
  /\ part = "samples" /\ SampleNext
  /\ UNCHANGED <<part, loopVars, stepperVars, pinVars>>

LoopStep(A) ==
  part = "loop" /\ A /\ UNCHANGED <<part, sampleVars, stepperVars, pinVars>>

StepperStep(A) ==
  part = "stepper" /\ A /\ UNCHANGED <<part, sampleVars, loopVars, pinVars>>

PinStep(A) ==
  part = "pin" /\ A /\ UNCHANGED <<part, sampleVars, loopVars, stepperVars>>

Next ==
  RingStep \/ SampleStep \/ LoopStep(LoopNext) \/ StepperStep(StepperNext) \/ PinStep(PinNext)

\* Since parts exclude each other, a step of any is one of the part's own.
Fairness ==
  /\ WF_vars(LoopStep(Iterate) \/ StepperStep(Thread) \/ PinStep(Work))
  /\ WF_vars(LoopStep(Reinit) \/ StepperStep(EndRemove) \/ PinStep(Request))
  /\ WF_vars(LoopStep(Tick) \/ PinStep(PinTick))
  /\ WF_vars(LoopStep(Update))

Spec == Init /\ [][Next]_vars /\ Fairness

=============================================================================
