---------------------------- MODULE MCResources ----------------------------
(***************************************************************************)
(* Parts that share no state, checked in one run: the buffers and the      *)
(* devices' resources, which are lent and must come back, and the time     *)
(* points of a day.  A behaviour is one of a single part, and the others   *)
(* stand still.                                                            *)
(***************************************************************************)
EXTENDS BufferPool, DeviceResources, DaySchedule

VARIABLE part

vars == <<part, bufferVars, resources, dayVars>>

Init ==
  /\ part \in {"buffers", "resources", "days"}
  /\ BufferInit /\ ResourceInit /\ DayInit
  /\ part # "buffers" => \A n \in Sizes : total <= n
  /\ part # "days" => moment = Week

BufferStep ==
  part = "buffers" /\ BufferNext /\ UNCHANGED <<part, resources, dayVars>>

ResourceStep ==
  part = "resources" /\ ResourceNext /\ UNCHANGED <<part, bufferVars, dayVars>>

DayStep == part = "days" /\ DayNext /\ UNCHANGED <<part, bufferVars, resources>>

Next == BufferStep \/ ResourceStep \/ DayStep

Spec == Init /\ [][Next]_vars

\* The types of all parts.
TypeOK == BufferTypeOK /\ ResourceTypeOK /\ DayTypeOK

-----------------------------------------------------------------------------
\* A value for the one channel, two values, a value for both.
SomeData ==
  { [c \in DayChannels |-> IF c = "light" THEN 0 ELSE NoValue],
    [c \in DayChannels |-> IF c = "light" THEN 6 ELSE NoValue],
    [c \in DayChannels |-> IF c = "pump" THEN 3 ELSE NoValue],
    [c \in DayChannels |-> IF c = "light" THEN 3 ELSE 6] }

Device(kind, pins, options) ==
  [kind |-> kind, pins |-> pins, options |-> options]

\* Devices that want the same pins, for one purpose or several; three
\* configurations of timers, two places for the port, and two addresses.
SomeDevices ==
  { Device("pin", <<2>>, Nothing),
    Device("pwm", <<2>>, 1), Device("pwm", <<3>>, 1),
    Device("pwm", <<1>>, 2), Device("pwm", <<1>>, 3),
    Device("scale", <<1, 2>>, Nothing), Device("drv8825", <<1, 2>>, Nothing),
    Device("ds18x20", <<3>>, 1),
    Device("ads111x", <<3, 4>>, 1),
    Device("pcf8575", <<3, 4>>, 1),
    Device("pico", <<3, 4>>, 1), Device("pico", <<3, 4>>, 2),
    Device("bme280", <<3, 4>>, 1), Device("bme280", <<2, 3>>, 1) }
=============================================================================
