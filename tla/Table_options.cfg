\* Options written to a device.
SPECIFICATION Spec
CONSTANTS
  Size = 2
  Drivers = {d1, d2}
  NoDriver = NoDriver
  Names = {none, a}
  Empty = none
  TooLong = {}
  Requests <- Options
  Refusals <- Nowhere
  Faults <- Nowhere
INVARIANTS OneDevicePerName
