SPECIFICATION Spec
CONSTANTS
  Days = 3
  Slots = 2
  a = a
  b = b
  Channels = {a, b}
  Schedules <- AllSchedules
  Modes = {"single shot", "hold"}
  MaxTime = 12
  Absent = Absent
INVARIANTS TypeOK OncePerOccurrence NoneSkipped
