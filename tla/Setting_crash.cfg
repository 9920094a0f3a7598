\* Power failures and failing calls, a save of any value at any time;
\* uploads of an image while two settings mount the partition; and the threads
\* of the server, of the main task, which does a worker's work too, and of one
\* driver, where a device may use a second one.
SPECIFICATION StorageSpec
CONSTANTS
  Values = {v1, v2, v3}
  Nothing = Nothing
  Torn = Torn
  Short = Short
  Absent = Absent
  Faults <- NoClose
  Users = {u1, u2}
  Server = server
  Main = main
  Workers = {}
  Drivers = {driver}
  MaxDepth = 9
  None = None
INVARIANTS TypeOK WrittenIsDurable ReadsOwnWrites ImageRestored NoDeadlock
PROPERTIES Atomic
