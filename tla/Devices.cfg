\* Each part by itself.
SPECIFICATION Spec
CONSTANTS
  Items <- Samples
  Capacity = 5
  Limits = {2}
  Unset = Unset
  Scale = 2
  FirstGaps = 2
  MaxAge = 4
  Readings = {0, 1, 2}
  Targets = {1}
  Odd = Odd
  Allowed = 1
  Stay = 1
  Defaults = {"low"}
  MaxErrors = 2
  Modulus = 4
  Steps = {1, 3}
  Amounts = {0, 1, 2}
  FactorUnit = 2
  MaxAsked = 6
  Unmeasured = Unmeasured
  Delays = {0, 1, 3}
  Threads = 2
  MaxDuty = 1024
  PwmValues = {0, 500, 1025}
  Percents <- SomePercents
  NoTimer = NoTimer
INVARIANTS Recovers RefusedIfSilent
  StepsAccounted CalibrationHolds OwedIsOn
PROPERTIES IsWindow Follows FailsSafe Noticed Finishes GoesOff
