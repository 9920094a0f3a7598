\* Every request, every way an add can fail, saves and loads that fail, boots at any
\* time.
SPECIFICATION Spec
CONSTANTS
  Size = 2
  Drivers = {d1, d2}
  NoDriver = NoDriver
  Names = {none, long}
  Empty = none
  TooLong = {long}
  Requests <- AllRequests
  Refusals <- AllRefusals
  Faults <- CleanFaults
SYMMETRY Symmetry
INVARIANTS TypeOK RuntimeOwned
