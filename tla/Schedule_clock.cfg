SPECIFICATION SpecAnyClock
CONSTANTS
  Days = 3
  Slots = 2
  a = a
  b = b
  Channels = {a, b}
  Schedules <- AllSchedules
  Modes = {"single shot", "hold"}
  MaxTime = 12
  Absent = Absent
INVARIANT OncePerOccurrence
