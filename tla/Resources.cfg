\* Three worker threads, with fewer buffers than scopes and with enough; two
\* slots of devices that want the same pins; three time points in a day.
SPECIFICATION Spec
CONSTANTS
  Sizes = {3, 6}
  Workers = {w1, w2, w3}
  NoBuffer = NoBuffer
  NumSlots = 2
  Pins = {1, 2, 3, 4}
  NumTimers = 2
  NumChannels = 2
  BadTimers = {3}
  ListSize = 1
  Descriptions <- SomeDevices
  NoDevice = NoDevice
  Nothing = Nothing
  Days = 3
  Slots = 4
  Points = 3
  DayChannels = {"light", "pump"}
  PointData <- SomeData
  NoValue = NoValue
INVARIANTS TypeOK OneHolder NoEmptyUse
  PinsExclusive PwmIndependent AddressesExclusive BootKeeps
  SearchFinds Interpolates
