\* Ids, slots and handles: two objects, two workers, room for two tasks.
SPECIFICATION Spec
CONSTANTS
  PoolSize = 2
  Workers = {w1, w2}
  Owners = {o1, o2}
  Kinds <- HandleKinds
  MaxId = 3
  Regular = 1
  MaxSleep = 1
  MaxLag = 3
SYMMETRY WorkerSymmetry
INVARIANTS TypeOK Accounted Handles NoOrphans
