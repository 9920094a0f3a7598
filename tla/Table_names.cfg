\* Devices added by names that fit and removed; adds fail before the driver was
\* found or after its data, and saves and the load at boot fail.
SPECIFICATION Spec
CONSTANTS
  Size = 2
  Drivers = {d1, d2}
  NoDriver = NoDriver
  Names = {none, a, b}
  Empty = none
  TooLong = {}
  Requests <- Nowhere
  Refusals <- CleanRefusals
  Faults <- AllFaults
SYMMETRY Symmetry
INVARIANTS OneDevicePerName ConfigOfDriver AnsweredIsSaved
