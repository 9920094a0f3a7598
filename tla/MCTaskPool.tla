----------------------------- MODULE MCTaskPool -----------------------------
(* Instances of TaskPool for TLC. *)
EXTENDS TaskPool, TLC

WorkerSymmetry == Permutations(Workers)

\* A sensor's update (5 s, first run after one interval), the device updater
\* and heartbeat (10 s, first run at once) and a pin's timer, one tick = 5 s.
Sensor  == [single |-> FALSE, interval |-> 1, fresh |-> FALSE]
Updater == [single |-> FALSE, interval |-> 2, fresh |-> TRUE]
Timer   == [single |-> TRUE,  interval |-> 1, fresh |-> FALSE]
\* A timer of more than one wait.
LongTimer == [single |-> TRUE, interval |-> 3, fresh |-> FALSE]

HandleKinds == {Sensor, Timer}
TimedKinds == {Sensor, Updater, LongTimer}
=============================================================================
