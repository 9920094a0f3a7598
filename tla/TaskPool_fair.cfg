\* One object, with room for its current and its replaced task: what drops a
\* task, and that every task runs.
SPECIFICATION FairSpec
CONSTANTS
  PoolSize = 2
  Workers = {w1}
  Owners = {o1}
  Kinds <- TimedKinds
  MaxId = 3
  Regular = 1
  MaxSleep = 1
  MaxLag = 3
INVARIANTS DropNeedsOrphan
PROPERTIES TasksRun
