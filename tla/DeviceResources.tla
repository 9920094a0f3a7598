-------------------------- MODULE DeviceResources --------------------------
(***************************************************************************)
(* What devices reserve when they are created, and give back when they are *)
(* removed: pins, PWM timers and channels and the I2C port of              *)
(* DeviceResource (drivers/device_resource.cpp), and the lists of bus      *)
(* addresses of the sensor drivers.  A request creates one device under    *)
(* the lock of the device table; a boot creates all that are stored, slot  *)
(* by slot.  Power may fail in between.  DeviceTable has the table itself. *)
(*                                                                         *)
(* A bme280 takes its address with a FlagTracker whose move leaves the old *)
(* one armed: the flag is free again when create_driver returns, so here   *)
(* a bme280 has no address.                                                *)
(***************************************************************************)
EXTENDS Integers, FiniteSets, Sequences

CONSTANTS
  NumSlots,     \* slots of the device table
  Pins,         \* the pins in the table of pins
  NumTimers,    \* PWM timers
  NumChannels,  \* PWM channels
  BadTimers,    \* configurations the hardware has no timer for
  ListSize,     \* places in the list of a driver of the I2C bus
  Descriptions, \* configurations of devices
  NoDevice,     \* nothing stored in a slot
  Nothing       \* no purpose, timer configuration, port or request

Listed == {"ds18x20", "ads111x", "pcf8575", "pico"}

\* The pins of a description are in the order in which create_driver takes
\* them, its options are a PWM timer's configuration or a sensor's address.
ASSUME ResourceAssumption ==
  /\ NumSlots \in Nat \ {0}
  /\ NumTimers \in Nat \ {0} /\ NumChannels \in Nat /\ ListSize \in Nat
  /\ \A c \in Descriptions :
       /\ c.kind \in Listed \cup {"pin", "pwm", "scale", "drv8825", "bme280"}
       /\ c.pins \in Seq(Nat) /\ Len(c.pins) \in 1 .. 2 /\ c.pins # Nothing
       /\ c.kind \in {"scale", "drv8825", "bme280"} => Len(c.pins) = 2
       /\ c.kind = "pwm" => c.options # Nothing
  /\ NoDevice \notin Descriptions
  /\ Nothing \notin Nat \cup {"gpio", "bus"}

VARIABLES
  purpose,    \* of each pin that was ever taken
  timers,     \* the configuration of each timer that was ever taken
  channels,   \* how many channels were taken
  port,       \* the pins of the I2C port
  addresses,  \* the list of each driver
  stored,     \* the configuration of each slot in use
  device,     \* what the device of each slot holds
  boot,       \* the slot that a boot comes to next
  request,    \* the creation that a request is at
  flawed,     \* history: a sensor runs, or ran, without its address
  orderly     \* history: all was well before the boot, no fault came after

reserved  == <<purpose, timers, channels, port, addresses>>
resources == <<reserved, stored, device, boot, request, flawed, orderly>>

DeviceSlots == 0 .. NumSlots - 1
Off   == [on |-> FALSE, pins |-> {}, timer |-> 0, channel |-> 0]
Running == {s \in DeviceSlots : device[s].on}
Used(c) == {c.pins[i] : i \in 1 .. Len(c.pins)}

AllFree ==
  /\ purpose = [p \in Pins |-> Nothing]
  /\ timers = [t \in 1 .. NumTimers |-> Nothing]
  /\ channels = 0
  /\ port = Nothing
  /\ addresses = [k \in Listed |-> {}]
  /\ device = [s \in DeviceSlots |-> Off]

ResourceInit ==
  /\ AllFree
  /\ stored = [s \in DeviceSlots |-> NoDevice]
  /\ boot = NumSlots
  /\ request = Nothing
  /\ flawed = FALSE /\ orderly = FALSE

-----------------------------------------------------------------------------
\* Which device is being created, and what becomes of it.

Creating ==
  IF boot < NumSlots THEN stored[boot] # NoDevice ELSE request # Nothing
Slot == IF boot < NumSlots THEN boot ELSE request.slot
Conf == IF boot < NumSlots THEN stored[boot] ELSE request.conf

\* A slot that was in use is so still if the new device could not be created,
\* and has its configuration.
Finish(created) ==
  IF boot < NumSlots
  THEN boot' = boot + 1 /\ UNCHANGED <<stored, request>>
  ELSE /\ stored' = IF created \/ stored[Slot] # NoDevice
                    THEN [stored EXCEPT ![Slot] = Conf] ELSE stored
       /\ request' = Nothing
       /\ UNCHANGED boot

Created(pins, timer, channel) ==
  /\ device' = [device EXCEPT ![Slot] = [on |-> TRUE, pins |-> pins,
                                         timer |-> timer, channel |-> channel]]
  /\ Finish(TRUE)
  /\ UNCHANGED orderly

Refused == Finish(FALSE) /\ UNCHANGED <<device, orderly>>

\* The hardware or a library reports an error.
Fault == Finish(FALSE) /\ orderly' = FALSE /\ UNCHANGED device

\* All that is stored runs, and what the code does not care for is in order: a
\* stepper's enable pin is no other device's; bme280s name the pins the port
\* has; no sensor runs without its address in the list.
AllWell ==
  /\ boot = NumSlots /\ request = Nothing /\ ~ flawed
  /\ \A s \in DeviceSlots : stored[s] # NoDevice => s \in Running
  /\ \A s, t \in Running : s # t /\ stored[s].kind = "drv8825" =>
       stored[s].pins[2] \notin Used(stored[t])
  /\ \A s \in Running : stored[s].kind = "bme280" => port = stored[s].pins

\* Power fails or the program crashes, and boots.
Reset ==
  /\ purpose' = [p \in Pins |-> Nothing]
  /\ timers' = [t \in 1 .. NumTimers |-> Nothing]
  /\ channels' = 0
  /\ port' = Nothing
  /\ addresses' = [k \in Listed |-> {}]
  /\ device' = [s \in DeviceSlots |-> Off]
  /\ boot' = 0
  /\ request' = Nothing
  /\ flawed' = FALSE /\ orderly' = AllWell
  /\ UNCHANGED stored

-----------------------------------------------------------------------------
\* The pins.

\* Mutant: the number of holders is not looked at.
AnyHolder(p) == TRUE
\* use_count.
NoHolder(p) == \A s \in DeviceSlots : p \notin device[s].pins

\* get_gpio_resource: a pin keeps the purpose it was first taken for, and one
\* used by itself has one holder.
Grants(p, use) ==
  /\ p \in Pins
  /\ purpose[p] \in {Nothing, use}
  /\ use = "gpio" => NoHolder(p)

Take(pins, use) ==
  purpose' = [p \in Pins |-> IF p \in pins /\ purpose[p] = Nothing
                             THEN use ELSE purpose[p]]

CreatePin ==
  /\ Conf.kind = "pin"
  /\ LET p == Conf.pins[1]
     IN  \/ ~ Grants(p, "gpio") /\ Refused /\ UNCHANGED purpose
         \/ /\ Grants(p, "gpio") /\ Take({p}, "gpio")
            /\ Created({p}, 0, 0) \/ Fault
  /\ UNCHANGED <<timers, channels, port, addresses, flawed>>

\* Mutant: the clock pin is not kept, as the stepper's enable pin is not.
FirstOf(pins) == {pins[1]}
Both(pins)    == {pins[1], pins[2]}

CreateScale ==
  /\ Conf.kind = "scale"
  /\ LET p == Conf.pins[1]
         q == Conf.pins[2]
     IN  \/ ~ Grants(p, "gpio") /\ Refused /\ UNCHANGED purpose
         \/ /\ Grants(p, "gpio") /\ (q = p \/ ~ Grants(q, "gpio"))
            /\ Take({p}, "gpio") /\ Refused
         \/ /\ Grants(p, "gpio") /\ Grants(q, "gpio") /\ q # p
            /\ Take({p, q}, "gpio")
            /\ Created(Both(Conf.pins), 0, 0) \/ Fault
  /\ UNCHANGED <<timers, channels, port, addresses, flawed>>

\* The driver keeps the pin of its steps only.  The resource of an enable pin
\* that is refused is used without a look: a null pointer.
CreateDrv8825 ==
  /\ Conf.kind = "drv8825"
  /\ LET p == Conf.pins[1]
         q == Conf.pins[2]
     IN  \/ ~ Grants(p, "gpio") /\ Refused /\ UNCHANGED <<reserved, flawed>>
         \/ /\ Grants(p, "gpio") /\ (q = p \/ ~ Grants(q, "gpio"))
            /\ Reset
         \/ /\ Grants(p, "gpio") /\ Grants(q, "gpio") /\ q # p
            /\ Take({p, q}, "gpio")
            /\ Created({p}, 0, 0) \/ Fault
            /\ UNCHANGED <<timers, channels, port, addresses, flawed>>

-----------------------------------------------------------------------------
\* Timers and channels.

\* get_timer_resource: the first that has the configuration or none.
TimerFor(conf) ==
  LET fits == {t \in 1 .. NumTimers : timers[t] \in {conf, Nothing}}
  IN  {t \in fits : \A u \in fits : t <= u}

\* Mutant: a channel that is in use is found again.
SameChannel == UNCHANGED channels
\* get_led_channel: a channel is never given back.
NextChannel == channels' = channels + 1

\* createPwmConfig.  A timer that is not valid stays in its place.
CreatePwm ==
  /\ Conf.kind = "pwm"
  /\ LET p    == Conf.pins[1]
         conf == Conf.options
     IN  \/ /\ ~ Grants(p, "gpio")
            /\ Refused /\ UNCHANGED <<purpose, timers, channels>>
         \/ /\ Grants(p, "gpio") /\ Take({p}, "gpio")
            /\ \/ Fault /\ UNCHANGED <<timers, channels>>
               \/ /\ TimerFor(conf) = {}
                  /\ Refused /\ UNCHANGED <<timers, channels>>
               \/ \E t \in TimerFor(conf) :
                    /\ timers' = [timers EXCEPT ![t] = conf]
                    /\ \/ /\ conf \in BadTimers \/ channels = NumChannels
                          /\ Refused /\ UNCHANGED channels
                       \/ /\ conf \notin BadTimers /\ channels < NumChannels
                          /\ NextChannel
                          /\ Created({p}, t, channels + 1) \/ Fault
  /\ UNCHANGED <<port, addresses, flawed>>

-----------------------------------------------------------------------------
\* Sensors on a bus.

\* Both pins of a bus are asked for before either is looked at.
TakeBus(granted) ==
  /\ granted <=> \A p \in Used(Conf) : Grants(p, "bus")
  /\ Take(Used(Conf), "bus")

Address == Conf.options
List    == addresses[Conf.kind]

\* The list of the ds18x20s has a place for every device.
Full == Conf.kind # "ds18x20" /\ Cardinality(List) >= ListSize

\* addAddress, of an address that is not in the list.
AddAddress == addresses' = [addresses EXCEPT ![Conf.kind] = @ \cup {Address}]

\* Mutant: a sensor whose initialisation fails leaves its address in the list.
Forget == AddAddress
\* removeAddress, of what addAddress has just added.
Release == UNCHANGED addresses

SensorRefused ==
  /\ TakeBus(FALSE) \/ (TakeBus(TRUE) /\ (Address \in List \/ Full))
  /\ Refused /\ UNCHANGED <<addresses, flawed>>

SensorRuns ==
  /\ TakeBus(TRUE) /\ Address \notin List /\ ~ Full
  /\ AddAddress /\ Created({}, 0, 0) /\ UNCHANGED flawed

SensorFails ==
  /\ TakeBus(TRUE) /\ Address \notin List /\ ~ Full
  /\ Release /\ Fault /\ UNCHANGED flawed

\* Without a descriptor, and without its address in the list.
SensorGoesOn ==
  /\ TakeBus(TRUE) /\ Address \notin List /\ ~ Full
  /\ Release /\ Created({}, 0, 0) /\ flawed' = TRUE

\* A request finds the sensor on the bus or fails; a boot does not look for it.
CreateDs18x20 ==
  /\ Conf.kind = "ds18x20"
  /\ SensorRefused \/ SensorRuns \/ (boot = NumSlots /\ SensorFails)
  /\ UNCHANGED <<timers, channels, port>>

\* Where there is no descriptor, the next step, setupDevice, may fail or not.
CreateAds111x ==
  /\ Conf.kind = "ads111x"
  /\ SensorRefused \/ SensorRuns \/ SensorFails \/ SensorGoesOn
  /\ UNCHANGED <<timers, channels, port>>

\* A request fails where there is no descriptor; a boot goes on.
CreatePcf8575 ==
  /\ Conf.kind = "pcf8575"
  /\ \/ SensorRefused \/ SensorRuns
     \/ boot = NumSlots /\ SensorFails
     \/ boot < NumSlots /\ SensorGoesOn
  /\ UNCHANGED <<timers, channels, port>>

\* Its memory is read in both cases, and describes what it has: a pico that
\* does not answer fails.  Only a boot goes on without a mutex.
CreatePico ==
  /\ Conf.kind = "pico"
  /\ \/ SensorRefused \/ SensorRuns \/ SensorFails
     \/ boot < NumSlots /\ SensorGoesOn
  /\ UNCHANGED <<timers, channels, port>>

\* get_i2c_port: a port that exists has the pins it was created with.
CreateBme280 ==
  /\ Conf.kind = "bme280"
  /\ \/ port = Nothing /\ TakeBus(FALSE) /\ Refused /\ UNCHANGED port
     \/ /\ \/ port # Nothing /\ UNCHANGED <<purpose, port>>
           \/ port = Nothing /\ TakeBus(TRUE) /\ port' = Conf.pins
        /\ Created({}, 0, 0) \/ Fault
  /\ UNCHANGED <<timers, channels, addresses, flawed>>

-----------------------------------------------------------------------------
\* Requests and boots.

\* The destructor of the device in slot s, with what its configuration says.
Drop(s) ==
  /\ device' = [device EXCEPT ![s] = Off]
  /\ addresses' =
       IF device[s].on /\ stored[s].kind \in Listed
       THEN [addresses EXCEPT ![stored[s].kind] = @ \ {stored[s].options}]
       ELSE addresses

\* add_device: the device that was there goes first.  A ds18x20, pcf8575 or
\* pico replaces none here: refused, it leaves the old data under a new name.
Ask(s, c) ==
  /\ boot = NumSlots /\ request = Nothing
  /\ c.kind \in {"ds18x20", "pcf8575", "pico"} => stored[s] = NoDevice
  /\ Drop(s)
  /\ request' = [slot |-> s, conf |-> c]
  /\ orderly' = FALSE
  /\ UNCHANGED <<purpose, timers, channels, port, stored, boot, flawed>>

CreateDriver ==
  /\ Creating
  /\ \/ CreatePin \/ CreateScale \/ CreateDrv8825 \/ CreatePwm
     \/ CreateDs18x20 \/ CreateAds111x \/ CreatePcf8575 \/ CreatePico
     \/ CreateBme280

\* initialize passes over the slots that are not in use.
SkipSlot ==
  /\ boot < NumSlots /\ stored[boot] = NoDevice
  /\ boot' = boot + 1
  /\ UNCHANGED <<reserved, stored, device, request, flawed, orderly>>

RemoveFrom(s) ==
  /\ boot = NumSlots /\ request = Nothing
  /\ Drop(s)
  /\ stored' = [stored EXCEPT ![s] = NoDevice]
  /\ UNCHANGED <<purpose, timers, channels, port>>
  /\ UNCHANGED <<boot, request, flawed, orderly>>

ResourceNext ==
  \/ \E s \in DeviceSlots, c \in Descriptions : Ask(s, c)
  \/ \E s \in DeviceSlots : RemoveFrom(s)
  \/ CreateDriver \/ SkipSlot
  \/ Reset

ResourceSpec == ResourceInit /\ [][ResourceNext]_resources

-----------------------------------------------------------------------------
ResourceTypeOK ==
  /\ purpose \in [Pins -> {"gpio", "bus", Nothing}]
  /\ DOMAIN timers = 1 .. NumTimers
  /\ channels \in 0 .. NumChannels
  /\ DOMAIN addresses = Listed
  /\ stored \in [DeviceSlots -> Descriptions \cup {NoDevice}]
  /\ device \in [DeviceSlots -> [on : BOOLEAN, pins : SUBSET Pins,
                           timer : 0 .. NumTimers, channel : 0 .. NumChannels]]
  /\ boot \in 0 .. NumSlots
  /\ request \in [slot : DeviceSlots, conf : Descriptions] \cup {Nothing}
  /\ flawed \in BOOLEAN /\ orderly \in BOOLEAN

\* No two devices hold a pin, and no pin a device holds by itself is one of a
\* bus that a sensor runs on: through refused and failed creations, removals
\* and boots, and although a purpose is never given back.
PinsExclusive ==
  /\ \A s, t \in DeviceSlots : s # t => device[s].pins \cap device[t].pins = {}
  /\ \A s \in Running :
       /\ \A p \in device[s].pins : purpose[p] = "gpio"
       /\ stored[s].kind \in Listed =>
            \A p \in Used(stored[s]) : purpose[p] = "bus"

\* The outputs of two PWM devices are set independently, and one's frequency is
\* never changed by another: they have a channel each, and share a timer if and
\* only if they configure it alike.
PwmIndependent ==
  \A s, t \in Running :
    s # t /\ stored[s].kind = "pwm" /\ stored[t].kind = "pwm" =>
      /\ device[s].channel # device[t].channel
      /\ stored[s].options = stored[t].options
           <=> device[s].timer = device[t].timer

\* A sensor's address is in its driver's list exactly while the sensor runs, so
\* it is never read by two devices, and it or another one can be added after a
\* failure or a removal: no place of a list is lost.  Unless a driver went on
\* without the sensor's descriptor.
AddressesExclusive ==
  ~ flawed => \A k \in Listed :
    LET users == {s \in Running : stored[s].kind = k}
    IN  /\ addresses[k] = {stored[s].options : s \in users}
        /\ \A s, t \in users : stored[s].options = stored[t].options => s = t

\* What was created in the order of the requests can be created in the order
\* of the slots: if all that is stored runs, in good order (AllWell), it runs
\* again after a reset without faults, and no stepper crashes that boot for want
\* of its enable pin.
BootKeeps ==
  orderly =>
    /\ \A s \in DeviceSlots : s < boot /\ stored[s] # NoDevice => device[s].on
    /\ boot < NumSlots /\ stored[boot] # NoDevice /\ stored[boot].kind = "drv8825"
         => \A p \in Used(stored[boot]) : Grants(p, "gpio")
=============================================================================
