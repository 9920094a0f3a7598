\* An update that its driver rejects.
SPECIFICATION Spec
CONSTANTS
  Size = 2
  Drivers = {d1, d2}
  NoDriver = NoDriver
  Names = {none, a}
  Empty = none
  TooLong = {}
  Requests <- Nowhere
  Refusals <- Rejections
  Faults <- Nowhere
INVARIANTS ConfigOfDriver
