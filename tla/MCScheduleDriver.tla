-------------------------- MODULE MCScheduleDriver --------------------------
\* Schedules of two channels for the runs: both at once, one after the other,
\* one channel alone, and twice a day.
EXTENDS ScheduleDriver

CONSTANTS a, b

Both == [c \in Channels |-> {0}]
Turns == [c \in Channels |-> IF c = a THEN {0} ELSE {1}]
Alone == [c \in Channels |-> IF c = a THEN {1} ELSE {}]
Twice == [c \in Channels |-> {0, 1}]

AllSchedules == {Turns, Alone, Twice}
=============================================================================
