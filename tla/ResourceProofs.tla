--------------------------- MODULE ResourceProofs ----------------------------
(* Theorems about BufferPool, for every number of buffers and workers, and *)
(* about DeviceResources, for all devices, pins, timers and lists.         *)
EXTENDS BufferPool, DeviceResources, FiniteSetTheorems, TLAPS

\* A scope holds a buffer only from its start to its end.
Closed ==
  /\ http = "idle" => held["request"] = NoBuffer
  /\ http \notin {"dispatch", "action", "answered"} => held["header"] = NoBuffer
  /\ http # "action" => held["action"] = NoBuffer
  /\ \A w \in Workers \ busy : held[w] = NoBuffer

-----------------------------------------------------------------------------
\* While some scope holds nothing and there are as many buffers as scopes, one
\* is available: else two of the other scopes would share a buffer.
LEMMA OneIsLeft ==
  ASSUME BufferTypeOK, OneHolder, total >= Cardinality(Scopes),
         NEW s \in Scopes, held[s] = NoBuffer
  PROVE  Available # {}
<1> DEFINE f == [b \in Buffers |-> CHOOSE t \in Scopes \ {s} : held[t] = b]
<1>1. SUFFICES ASSUME Available = {} PROVE FALSE
  OBVIOUS
<1>2. \A b \in Buffers : \E t \in Scopes \ {s} : held[t] = b
  BY <1>1, BufferAssumption DEF Available, OneHolder, Buffers, BufferTypeOK
<1>3. f \in [Buffers -> Scopes \ {s}] /\ \A b \in Buffers : held[f[b]] = b
  BY <1>2
<1> HIDE DEF f
<1>4. IsFiniteSet({"request", "header", "action"})
  <2>1. IsFiniteSet({})
    BY FS_EmptySet
  <2>2. IsFiniteSet({} \cup {"request"})
    BY <2>1, FS_AddElement
  <2>3. IsFiniteSet({} \cup {"request"} \cup {"header"})
    BY <2>2, FS_AddElement
  <2>4. IsFiniteSet({} \cup {"request"} \cup {"header"} \cup {"action"})
    BY <2>3, FS_AddElement
  <2>5. {} \cup {"request"} \cup {"header"} \cup {"action"}
          = {"request", "header", "action"}
    OBVIOUS
  <2> QED
    BY <2>4, <2>5
<1>5. IsFiniteSet(Scopes)
  BY <1>4, FS_Union, BufferAssumption DEF Scopes
<1>6. /\ IsFiniteSet(Scopes \ {s})
      /\ Cardinality(Scopes \ {s}) = Cardinality(Scopes) - 1
      /\ Cardinality(Scopes) \in Nat
  BY <1>5, FS_RemoveElement, FS_CardinalityType
<1>7. total \in Nat
  BY BufferAssumption DEF BufferTypeOK
<1>8. IsFiniteSet(Buffers) /\ Cardinality(Buffers) = total
  BY <1>7, FS_Interval DEF Buffers
<1>9. Cardinality(Scopes \ {s}) < Cardinality(Buffers)
  BY <1>7, <1>6, <1>8
<1>10. \E b, c \in Buffers : b # c /\ f[b] = f[c]
  BY <1>3, <1>6, <1>8, <1>9, FS_PigeonHole
<1> QED
  BY <1>3, <1>10

\* What every borrowing does: a free scope gets a buffer nobody has, or none
\* is left.
LEMMA BorrowOne ==
  ASSUME BufferTypeOK, OneHolder, NEW s \in Scopes, held[s] = NoBuffer, Borrow(s),
         UNCHANGED total
  PROVE  /\ borrowed' \subseteq Buffers'
         /\ held' \in [Scopes -> Buffers' \cup {NoBuffer}]
         /\ OneHolder'
         /\ \A t \in Scopes \ {s} : held'[t] = held[t]
         /\ Available # {} => held'[s] # NoBuffer
<1>1. Buffers' = Buffers
  BY DEF Buffers
<1> USE <1>1
<1>2. CASE Available = {} /\ UNCHANGED <<held, borrowed>>
  BY <1>2 DEF BufferTypeOK, OneHolder
<1>3. ASSUME NEW b \in First(Available),
             held' = [held EXCEPT ![s] = b], Mark(b)
      PROVE  /\ borrowed' \subseteq Buffers'
             /\ held' \in [Scopes -> Buffers' \cup {NoBuffer}]
             /\ OneHolder'
             /\ \A t \in Scopes \ {s} : held'[t] = held[t]
             /\ held'[s] # NoBuffer
  <2>1. b \in Buffers /\ b \notin borrowed /\ b # NoBuffer
    BY <1>3, BufferAssumption DEF First, Available, Buffers
  <2>2. held'[s] = b /\ \A t \in Scopes \ {s} : held'[t] = held[t]
    BY <1>3 DEF BufferTypeOK
  <2>3. borrowed' = borrowed \cup {b}
    BY <1>3 DEF Mark
  <2>4. held' \in [Scopes -> Buffers' \cup {NoBuffer}]
    BY <1>3, <2>1 DEF BufferTypeOK
  <2>5. \A t \in Scopes \ {s} : held[t] # b
    BY <2>1 DEF OneHolder
  <2>6. {held'[t] : t \in Scopes} \ {NoBuffer} = ({held[t] : t \in Scopes} \ {NoBuffer}) \cup {b}
    BY <2>1, <2>2
  <2>7. OneHolder'
    BY <2>2, <2>3, <2>5, <2>6 DEF OneHolder
  <2> QED
    BY <2>1, <2>2, <2>3, <2>4, <2>7 DEF BufferTypeOK
<1> QED
  BY <1>2, <1>3 DEF Borrow

\* What the end of a scope does: its buffer, if any, has no holder any more.
LEMMA GiveOneBack ==
  ASSUME BufferTypeOK, OneHolder, NEW s \in Scopes, GiveBack(s), UNCHANGED total
  PROVE  /\ borrowed' \subseteq Buffers'
         /\ held' \in [Scopes -> Buffers' \cup {NoBuffer}]
         /\ OneHolder'
         /\ held'[s] = NoBuffer
         /\ \A t \in Scopes \ {s} : held'[t] = held[t]
<1>1. Buffers' = Buffers
  BY DEF Buffers
<1>2. held'[s] = NoBuffer /\ \A t \in Scopes \ {s} : held'[t] = held[t]
  BY DEF GiveBack, BufferTypeOK
<1>3. borrowed' = borrowed \ {held[s]}
  BY DEF GiveBack, Return
<1>4. held' \in [Scopes -> Buffers' \cup {NoBuffer}]
  BY <1>1 DEF GiveBack, BufferTypeOK
<1>5. {held'[t] : t \in Scopes} \ {NoBuffer}
        = ({held[t] : t \in Scopes} \ {NoBuffer}) \ {held[s]}
  BY <1>2 DEF OneHolder
<1>6. OneHolder'
  BY <1>2, <1>3, <1>5 DEF OneHolder
<1> QED
  BY <1>1, <1>2, <1>3, <1>4, <1>6 DEF BufferTypeOK

\* The variables keep their types, and no buffer is shared or lost, with any
\* number of buffers.
LEMMA HolderInvariant == BufferSpec => [](BufferTypeOK /\ OneHolder /\ Closed)
<1> DEFINE Inv == BufferTypeOK /\ OneHolder /\ Closed
<1>1. BufferInit => Inv
  BY BufferAssumption DEF BufferInit, BufferTypeOK, OneHolder, Closed, Scopes
<1>2. Inv /\ [BufferNext]_bufferVars => Inv'
  <2> SUFFICES ASSUME Inv, [BufferNext]_bufferVars PROVE Inv'
    OBVIOUS
  <2>1. /\ {"request", "header", "action"} \subseteq Scopes
        /\ Workers \subseteq Scopes
        /\ Workers \cap {"request", "header", "action"} = {}
    BY BufferAssumption DEF Scopes
  <2> USE <2>1
  <2>2. CASE ReceiveRequest
    <3>1. Borrow("request") /\ held["request"] = NoBuffer
      BY <2>2 DEF ReceiveRequest, Closed
    <3>2. Available = {} => held' = held
      BY <3>1 DEF Borrow, First
    <3> QED
      BY <2>2, <3>1, <3>2, BorrowOne DEF ReceiveRequest, BufferTypeOK, Closed
  <2>3. CASE ReadHeaders
    <3>1. Borrow("header") /\ held["header"] = NoBuffer
      BY <2>3 DEF ReadHeaders, Closed
    <3> QED
      BY <2>3, <3>1, BorrowOne DEF ReadHeaders, BufferTypeOK, Closed
  <2>4. CASE RunAction \/ CreateSchedule
    <3>1. Borrow("action") /\ held["action"] = NoBuffer
      BY <2>4 DEF RunAction, CreateSchedule, Closed
    <3>2. Available = {} => held' = held
      BY <3>1 DEF Borrow, First
    <3> QED
      BY <2>4, <3>1, <3>2, BorrowOne DEF RunAction, CreateSchedule, BufferTypeOK, Closed
  <2>5. CASE EndAction
    BY <2>5, GiveOneBack DEF EndAction, BufferTypeOK, Closed
  <2>6. CASE RunOther
    BY <2>6 DEF RunOther, BufferTypeOK, OneHolder, Closed, Buffers
  <2>7. CASE DropHeaders
    BY <2>7, GiveOneBack DEF DropHeaders, BufferTypeOK, Closed
  <2>8. CASE DropRequest
    BY <2>8, GiveOneBack DEF DropRequest, BufferTypeOK, Closed
  <2>9. ASSUME NEW w \in Workers, StartHealth(w) PROVE Inv'
    <3>1. Borrow(w) /\ held[w] = NoBuffer
      BY <2>9 DEF StartHealth, Closed
    <3> QED
      BY <2>9, <3>1, BorrowOne DEF StartHealth, BufferTypeOK, Closed
  <2>10. ASSUME NEW w \in Workers, EndHealth(w) PROVE Inv'
    BY <2>10, GiveOneBack DEF EndHealth, BufferTypeOK, Closed
  <2>11. CASE UNCHANGED bufferVars
    BY <2>11 DEF bufferVars, BufferTypeOK, OneHolder, Closed, Buffers
  <2> QED
    BY <2>2, <2>3, <2>4, <2>5, <2>6, <2>7, <2>8, <2>9, <2>10, <2>11 DEF BufferNext
<1> QED
  BY <1>1, <1>2, PTL DEF BufferSpec

\* The variables keep their types.
THEOREM TypeCorrect == BufferSpec => []BufferTypeOK
BY HolderInvariant, PTL

\* No buffer ever has two holders, and none is lost.
THEOREM BuffersAccounted == BufferSpec => []OneHolder
BY HolderInvariant, PTL

\* With as many buffers as scopes, no scope ever uses a buffer it did not get.
THEOREM EnoughBuffers == BufferSpec => []NoEmptyUse
<1>1. BufferInit => NoEmptyUse
  BY DEF BufferInit, NoEmptyUse
<1>2. BufferTypeOK /\ OneHolder /\ Closed /\ NoEmptyUse /\ [BufferNext]_bufferVars => NoEmptyUse'
  <2> SUFFICES ASSUME BufferTypeOK, OneHolder, Closed, NoEmptyUse, [BufferNext]_bufferVars
               PROVE  NoEmptyUse'
    OBVIOUS
  <2>1. /\ {"request", "header", "action"} \subseteq Scopes
        /\ Workers \subseteq Scopes
        /\ Workers \cap {"request", "header", "action"} = {}
    BY BufferAssumption DEF Scopes
  <2> USE <2>1 DEF NoEmptyUse
  <2>2. CASE ReceiveRequest
    <3>1. Borrow("request") /\ held["request"] = NoBuffer
      BY <2>2 DEF ReceiveRequest, Closed
    <3> QED
      BY <2>2, <3>1, BorrowOne DEF ReceiveRequest, BufferTypeOK
  <2>3. CASE ReadHeaders
    <3>1. Borrow("header") /\ held["header"] = NoBuffer
      BY <2>3 DEF ReadHeaders, Closed
    <3> QED
      BY <2>3, <3>1, BorrowOne, OneIsLeft DEF ReadHeaders, BufferTypeOK
  <2>4. CASE RunAction \/ CreateSchedule
    <3>1. Borrow("action") /\ held["action"] = NoBuffer
      BY <2>4 DEF RunAction, CreateSchedule, Closed
    <3> QED
      BY <2>4, <3>1, BorrowOne, OneIsLeft DEF RunAction, CreateSchedule, BufferTypeOK
  <2>5. CASE EndAction
    BY <2>5, GiveOneBack DEF EndAction, BufferTypeOK
  <2>6. CASE RunOther
    BY <2>6 DEF RunOther
  <2>7. CASE DropHeaders
    BY <2>7, GiveOneBack DEF DropHeaders, BufferTypeOK
  <2>8. CASE DropRequest
    BY <2>8, GiveOneBack DEF DropRequest, BufferTypeOK
  <2>9. ASSUME NEW w \in Workers, StartHealth(w) PROVE NoEmptyUse'
    <3>1. Borrow(w) /\ held[w] = NoBuffer
      BY <2>9 DEF StartHealth, Closed
    <3> QED
      BY <2>9, <3>1, BorrowOne, OneIsLeft DEF StartHealth, BufferTypeOK
  <2>10. ASSUME NEW w \in Workers, EndHealth(w) PROVE NoEmptyUse'
    BY <2>10, GiveOneBack DEF EndHealth, BufferTypeOK
  <2>11. CASE UNCHANGED bufferVars
    BY <2>11 DEF bufferVars
  <2> QED
    BY <2>2, <2>3, <2>4, <2>5, <2>6, <2>7, <2>8, <2>9, <2>10, <2>11 DEF BufferNext
<1> QED
  BY <1>1, <1>2, HolderInvariant, PTL DEF BufferSpec

-----------------------------------------------------------------------------
\* A slot whose device is being created, by a request or by a boot that has yet
\* to come to it, holds none; a device that runs is stored.
Placed ==
  /\ boot < NumSlots =>
       request = Nothing /\ \A s \in DeviceSlots : s >= boot => ~ device[s].on
  /\ request # Nothing => ~ device[request.slot].on
  /\ \A s \in DeviceSlots : IF device[s].on THEN stored[s] # NoDevice
                                            ELSE device[s] = Off

\* Where a creation is.
LEMMA AtSlot ==
  ASSUME ResourceTypeOK, Placed, Creating
  PROVE  /\ Slot \in DeviceSlots /\ Conf \in Descriptions
         /\ device[Slot] = Off
         /\ boot < NumSlots => Slot = boot /\ stored[Slot] = Conf
BY ResourceAssumption DEF ResourceTypeOK, Placed, Creating, Slot, Conf, DeviceSlots

\* What the end of a creation leaves of the table.
LEMMA AfterFinish ==
  ASSUME ResourceTypeOK, Placed, Creating, NEW created \in BOOLEAN,
         Finish(created)
  PROVE  /\ stored' \in [DeviceSlots -> Descriptions \cup {NoDevice}]
         /\ boot' \in 0 .. NumSlots /\ request' = Nothing
         /\ \A s \in DeviceSlots : s # Slot => stored'[s] = stored[s]
         /\ created => stored'[Slot] = Conf
         /\ stored'[Slot] \in {Conf, stored[Slot]}
         /\ boot' < NumSlots => boot = Slot /\ boot' = boot + 1
         /\ stored[Slot] # NoDevice => stored'[Slot] # NoDevice
<1> USE AtSlot, ResourceAssumption
<1>1. CASE boot < NumSlots
  BY <1>1 DEF Finish, ResourceTypeOK, Placed, DeviceSlots
<1>2. CASE ~ boot < NumSlots
  BY <1>2 DEF Finish, ResourceTypeOK, DeviceSlots
<1> QED
  BY <1>1, <1>2

\* A pin keeps its purpose, and what is granted gets the purpose asked for.
LEMMA AfterTake ==
  ASSUME ResourceTypeOK, NEW pins, NEW use \in {"gpio", "bus"}, Take(pins, use)
  PROVE  /\ purpose' \in [Pins -> {"gpio", "bus", Nothing}]
         /\ \A p \in Pins : purpose[p] # Nothing => purpose'[p] = purpose[p]
         /\ \A p \in Pins \cap pins : purpose[p] \in {Nothing, use} => purpose'[p] = use
BY DEF ResourceTypeOK, Take

\* A creation that fails or is refused changes no device.
NotCreated == Finish(FALSE) /\ UNCHANGED device

LEMMA NoneCreated ==
  /\ Refused => NotCreated
  /\ Fault => NotCreated
BY DEF Refused, Fault, NotCreated

\* The table after a creation, whether there is a device or not.
LEMMA PlacedAfter ==
  ASSUME ResourceTypeOK, Placed, Creating,
         \/ NotCreated
         \/ \E pins \in SUBSET Pins, t \in 0 .. NumTimers, c \in 0 .. NumChannels :
              Created(pins, t, c)
  PROVE  /\ Placed'
         /\ stored' \in [DeviceSlots -> Descriptions \cup {NoDevice}]
         /\ device' \in [DeviceSlots ->
              [on : BOOLEAN, pins : SUBSET Pins,
               timer : 0 .. NumTimers, channel : 0 .. NumChannels]]
         /\ boot' \in 0 .. NumSlots /\ request' = Nothing
<1>1. CASE NotCreated
  <2>1. /\ request' = Nothing /\ device' = device
        /\ boot' < NumSlots => boot = Slot /\ boot' = boot + 1
        /\ \A s \in DeviceSlots : s # Slot => stored'[s] = stored[s]
    BY <1>1, AfterFinish DEF NotCreated
  <2>2. ~ device[Slot].on
    BY AtSlot DEF Off
  <2>3. boot \in Nat /\ NumSlots \in Nat
    BY ResourceAssumption DEF ResourceTypeOK
  <2>4. boot' < NumSlots =>
          request' = Nothing /\ \A s \in DeviceSlots : s >= boot' => ~ device'[s].on
    BY <2>1, <2>3, AtSlot DEF Placed, DeviceSlots
  <2>5. \A s \in DeviceSlots : IF device'[s].on THEN stored'[s] # NoDevice
                                             ELSE device'[s] = Off
    BY <2>1, <2>2 DEF Placed
  <2>6. Placed'
    BY <2>1, <2>4, <2>5 DEF Placed, Off, DeviceSlots
  <2> QED
    BY <1>1, <2>6, AfterFinish DEF NotCreated, ResourceTypeOK
<1>2. ASSUME NEW pins \in SUBSET Pins, NEW t \in 0 .. NumTimers,
             NEW c \in 0 .. NumChannels, Created(pins, t, c)
      PROVE  /\ Placed'
             /\ stored' \in [DeviceSlots -> Descriptions \cup {NoDevice}]
             /\ device' \in [DeviceSlots ->
                  [on : BOOLEAN, pins : SUBSET Pins,
                   timer : 0 .. NumTimers, channel : 0 .. NumChannels]]
             /\ boot' \in 0 .. NumSlots /\ request' = Nothing
  <2>1. /\ device' = [device EXCEPT ![Slot] = [on |-> TRUE, pins |-> pins,
                                               timer |-> t, channel |-> c]]
        /\ Finish(TRUE)
    BY <1>2 DEF Created
  <2>2. device' \in [DeviceSlots ->
          [on : BOOLEAN, pins : SUBSET Pins,
           timer : 0 .. NumTimers, channel : 0 .. NumChannels]]
    BY <2>1, AtSlot DEF ResourceTypeOK
  <2>3. /\ device'[Slot].on /\ stored'[Slot] = Conf /\ Conf # NoDevice
        /\ \A s \in DeviceSlots : s # Slot => /\ device'[s] = device[s]
                                             /\ stored'[s] = stored[s]
    BY <2>1, AfterFinish, AtSlot, ResourceAssumption DEF ResourceTypeOK
  <2>4. /\ request' = Nothing
        /\ boot' < NumSlots => boot = Slot /\ boot' = boot + 1
    BY <2>1, AfterFinish
  <2>5. boot \in Nat /\ NumSlots \in Nat
    BY ResourceAssumption DEF ResourceTypeOK
  <2>6. boot' < NumSlots =>
          request' = Nothing /\ \A s \in DeviceSlots : s >= boot' => ~ device'[s].on
    BY <2>3, <2>4, <2>5, AtSlot DEF Placed, DeviceSlots
  <2>7. \A s \in DeviceSlots : IF device'[s].on THEN stored'[s] # NoDevice
                                             ELSE device'[s] = Off
    BY <2>3 DEF Placed
  <2>8. Placed'
    BY <2>4, <2>6, <2>7 DEF Placed, Off, DeviceSlots
  <2> QED
    BY <2>1, <2>2, <2>8, AfterFinish
<1> QED
  BY <1>1, <1>2

DeviceType == [on : BOOLEAN, pins : SUBSET Pins,
               timer : 0 .. NumTimers, channel : 0 .. NumChannels]

LEMMA OffIsTyped == Off \in DeviceType /\ ~ Off.on
  BY ResourceAssumption DEF Off, DeviceType

\* A reset forgets all but what is stored.
LEMMA PlacedAfterReset ==
  ASSUME ResourceTypeOK, Reset
  PROVE  ResourceTypeOK' /\ Placed'
<1>1. ResourceTypeOK'
  <2>1. AllWell \in BOOLEAN
    BY DEF AllWell
  <2>2. orderly' \in BOOLEAN
    BY <2>1 DEF Reset
  <2>3. device' \in [DeviceSlots -> DeviceType]
    BY OffIsTyped DEF Reset
  <2>4. /\ purpose' \in [Pins -> {"gpio", "bus", Nothing}]
        /\ channels' \in 0 .. NumChannels /\ boot' \in 0 .. NumSlots
    BY ResourceAssumption DEF Reset
  <2>5. DOMAIN timers' = 1 .. NumTimers /\ DOMAIN addresses' = Listed
    BY DEF Reset
  <2> QED
    BY <2>2, <2>3, <2>4, <2>5 DEF Reset, ResourceTypeOK, DeviceType, DeviceSlots
<1>2. Placed'
  BY DEF Reset, Placed, Off, DeviceSlots
<1> QED
  BY <1>1, <1>2

\* What a creation may do to the rest.
LEMMA CreationKeeps ==
  ASSUME ResourceTypeOK, Placed, Creating,
         \/ Refused \/ Fault
         \/ \E pins \in SUBSET Pins, t \in 0 .. NumTimers, c \in 0 .. NumChannels :
              Created(pins, t, c),
         purpose' \in [Pins -> {"gpio", "bus", Nothing}],
         DOMAIN timers' = 1 .. NumTimers,
         channels' \in 0 .. NumChannels,
         DOMAIN addresses' = Listed,
         flawed' \in BOOLEAN
  PROVE  ResourceTypeOK' /\ Placed'
<1>1. orderly' \in BOOLEAN
  BY DEF Refused, Fault, Created, ResourceTypeOK
<1>2. /\ Placed'
      /\ stored' \in [DeviceSlots -> Descriptions \cup {NoDevice}]
      /\ device' \in [DeviceSlots ->
           [on : BOOLEAN, pins : SUBSET Pins,
            timer : 0 .. NumTimers, channel : 0 .. NumChannels]]
      /\ boot' \in 0 .. NumSlots /\ request' = Nothing
  BY PlacedAfter, NoneCreated
<1> QED
  BY <1>1, <1>2 DEF ResourceTypeOK, DeviceSlots

\* Both pins of a bus are in the table of pins if they are granted, and none of
\* what a sensor's creation leaves alone changes.
LEMMA SensorKeeps ==
  ASSUME ResourceTypeOK, Placed, Creating, Conf.kind \in Listed,
         SensorRefused \/ SensorRuns \/ SensorFails \/ SensorGoesOn,
         UNCHANGED <<timers, channels, port>>
  PROVE  ResourceTypeOK' /\ Placed'
<1>1. PICK granted \in BOOLEAN : TakeBus(granted)
  BY DEF SensorRefused, SensorRuns, SensorFails, SensorGoesOn
<1>2. purpose' \in [Pins -> {"gpio", "bus", Nothing}]
  BY <1>1, AfterTake DEF TakeBus
<1>3. DOMAIN addresses' = Listed
  BY DEF SensorRefused, SensorRuns, SensorFails, SensorGoesOn, AddAddress, Release,
         ResourceTypeOK
<1>4. flawed' \in BOOLEAN
  BY DEF SensorRefused, SensorRuns, SensorFails, SensorGoesOn, ResourceTypeOK
<1>5. 0 \in 0 .. NumTimers /\ 0 \in 0 .. NumChannels /\ {} \in SUBSET Pins
  BY ResourceAssumption
<1>6. \/ Refused \/ Fault
      \/ \E pins \in SUBSET Pins, t \in 0 .. NumTimers, c \in 0 .. NumChannels :
           Created(pins, t, c)
  BY <1>5 DEF SensorRefused, SensorRuns, SensorFails, SensorGoesOn
<1> QED
  BY <1>2, <1>3, <1>4, <1>6, CreationKeeps DEF ResourceTypeOK

LEMMA CreatePlaced ==
  ASSUME ResourceTypeOK, Placed, CreateDriver
  PROVE  ResourceTypeOK' /\ Placed'
<1>1. /\ Creating /\ Slot \in DeviceSlots /\ Conf \in Descriptions
      /\ 0 \in 0 .. NumTimers /\ 0 \in 0 .. NumChannels
  BY AtSlot, ResourceAssumption DEF CreateDriver
<1> DEFINE p == Conf.pins[1]
           q == Conf.pins[2]
<1>2. CASE CreatePin
  <2>1. \/ Refused /\ UNCHANGED purpose
        \/ /\ p \in Pins /\ Take({p}, "gpio")
           /\ Created({p}, 0, 0) \/ Fault
    BY <1>2 DEF CreatePin, Grants
  <2>2. purpose' \in [Pins -> {"gpio", "bus", Nothing}]
    BY <2>1, AfterTake DEF ResourceTypeOK
  <2> QED
    BY <1>1, <1>2, <2>1, <2>2, CreationKeeps DEF CreatePin, ResourceTypeOK
<1>3. CASE CreateScale
  <2>1. \/ Refused /\ UNCHANGED purpose
        \/ Take({p}, "gpio") /\ Refused
        \/ /\ p \in Pins /\ q \in Pins /\ Take({p, q}, "gpio")
           /\ Created({p, q}, 0, 0) \/ Fault
    BY <1>3 DEF CreateScale, Grants, Both
  <2>2. purpose' \in [Pins -> {"gpio", "bus", Nothing}]
    BY <2>1, AfterTake DEF ResourceTypeOK
  <2> QED
    BY <1>1, <1>3, <2>1, <2>2, CreationKeeps DEF CreateScale, ResourceTypeOK
<1>4. CASE CreateDrv8825
  <2>1. \/ Refused /\ UNCHANGED <<reserved, flawed>>
        \/ Reset
        \/ /\ p \in Pins /\ Take({p, q}, "gpio")
           /\ Created({p}, 0, 0) \/ Fault
           /\ UNCHANGED <<timers, channels, port, addresses, flawed>>
    BY <1>4 DEF CreateDrv8825, Grants
  <2>2. CASE Reset
    BY <2>2, PlacedAfterReset
  <2>3. CASE ~ Reset
    <3>1. purpose' \in [Pins -> {"gpio", "bus", Nothing}]
      BY <2>1, <2>3, AfterTake DEF ResourceTypeOK, reserved
    <3> QED
      BY <1>1, <2>1, <2>3, <3>1, CreationKeeps DEF reserved, ResourceTypeOK
  <2> QED
    BY <2>2, <2>3
<1>5. CASE CreatePwm
  <2>1. \/ Refused /\ UNCHANGED <<purpose, timers, channels>>
        \/ /\ p \in Pins /\ Take({p}, "gpio")
           /\ \/ (Fault \/ Refused) /\ UNCHANGED <<timers, channels>>
              \/ \E t \in TimerFor(Conf.options) :
                   /\ timers' = [timers EXCEPT ![t] = Conf.options]
                   /\ \/ Refused /\ UNCHANGED channels
                      \/ /\ channels < NumChannels /\ channels' = channels + 1
                         /\ Created({p}, t, channels + 1) \/ Fault
    BY <1>5 DEF CreatePwm, Grants, NextChannel
  <2>2. purpose' \in [Pins -> {"gpio", "bus", Nothing}]
    BY <2>1, AfterTake DEF ResourceTypeOK
  <2>3. TimerFor(Conf.options) \subseteq 0 .. NumTimers
    BY ResourceAssumption DEF TimerFor
  <2>4. DOMAIN timers' = 1 .. NumTimers /\ channels' \in 0 .. NumChannels
    BY <2>1, ResourceAssumption DEF ResourceTypeOK
  <2>5. channels < NumChannels => channels + 1 \in 0 .. NumChannels
    BY ResourceAssumption DEF ResourceTypeOK
  <2>6. \/ Refused \/ Fault
        \/ \E pins \in SUBSET Pins, t \in 0 .. NumTimers, c \in 0 .. NumChannels :
             Created(pins, t, c)
    BY <2>1, <2>3, <2>5
  <2> QED
    BY <1>1, <1>5, <2>2, <2>4, <2>6, CreationKeeps DEF CreatePwm, ResourceTypeOK
<1>6. CASE CreateDs18x20
  BY <1>1, <1>6, SensorKeeps DEF CreateDs18x20, Listed
<1>7. CASE CreateAds111x
  BY <1>1, <1>7, SensorKeeps DEF CreateAds111x, Listed
<1>8. CASE CreatePcf8575
  BY <1>1, <1>8, SensorKeeps DEF CreatePcf8575, Listed
<1>9. CASE CreatePico
  BY <1>1, <1>9, SensorKeeps DEF CreatePico, Listed
<1>10. CASE CreateBme280
  <2>1. \/ \E granted \in BOOLEAN : TakeBus(granted)
        \/ UNCHANGED purpose
    BY <1>10 DEF CreateBme280
  <2>2. purpose' \in [Pins -> {"gpio", "bus", Nothing}]
    BY <2>1, AfterTake DEF TakeBus, ResourceTypeOK
  <2>3. Refused \/ Fault \/ Created({}, 0, 0)
    BY <1>10 DEF CreateBme280
  <2> QED
    BY <1>1, <1>10, <2>2, <2>3, CreationKeeps DEF CreateBme280, ResourceTypeOK
<1> QED
  BY <1>2, <1>3, <1>4, <1>5, <1>6, <1>7, <1>8, <1>9, <1>10 DEF CreateDriver

LEMMA TypesInvariant == ResourceSpec => [](ResourceTypeOK /\ Placed)
<1>1. ResourceInit => ResourceTypeOK /\ Placed
  <2> SUFFICES ASSUME ResourceInit PROVE ResourceTypeOK /\ Placed
    OBVIOUS
  <2>1. device \in [DeviceSlots -> DeviceType]
    BY OffIsTyped DEF ResourceInit, AllFree
  <2>2. /\ purpose \in [Pins -> {"gpio", "bus", Nothing}]
        /\ channels \in 0 .. NumChannels /\ boot \in 0 .. NumSlots
    BY ResourceAssumption DEF ResourceInit, AllFree
  <2>3. DOMAIN timers = 1 .. NumTimers /\ DOMAIN addresses = Listed
    BY DEF ResourceInit, AllFree
  <2>4. Placed
    BY OffIsTyped, ResourceAssumption DEF ResourceInit, AllFree, Placed
  <2> QED
    BY <2>1, <2>2, <2>3, <2>4 DEF ResourceInit, ResourceTypeOK, DeviceType, DeviceSlots
<1>2. ResourceTypeOK /\ Placed /\ [ResourceNext]_resources
        => ResourceTypeOK' /\ Placed'
  <2> SUFFICES ASSUME ResourceTypeOK, Placed, [ResourceNext]_resources
               PROVE  ResourceTypeOK' /\ Placed'
    OBVIOUS
  <2>1. ASSUME NEW s \in DeviceSlots, NEW c \in Descriptions, Ask(s, c)
        PROVE  ResourceTypeOK' /\ Placed'
    <3>1. device' \in [DeviceSlots -> DeviceType] /\ DOMAIN addresses' = Listed
      BY <2>1, OffIsTyped DEF Ask, Drop, ResourceTypeOK, DeviceType
    <3>2. ResourceTypeOK'
      BY <2>1, <3>1 DEF Ask, ResourceTypeOK, DeviceType, DeviceSlots
    <3>3. /\ boot' = NumSlots /\ request' = [slot |-> s, conf |-> c]
          /\ stored' = stored /\ device' = [device EXCEPT ![s] = Off]
      BY <2>1 DEF Ask, Drop
    <3>4. ~ boot' < NumSlots
      BY <3>3, ResourceAssumption
    <3>5. /\ device'[s] = Off
          /\ \A t \in DeviceSlots : t # s => /\ device'[t] = device[t]
                                           /\ stored'[t] = stored[t]
      BY <3>3 DEF ResourceTypeOK
    <3>6. request' # Nothing => ~ device'[request'.slot].on
      BY <3>3, <3>5, OffIsTyped
    <3>7. \A t \in DeviceSlots : IF device'[t].on THEN stored'[t] # NoDevice
                                               ELSE device'[t] = Off
      BY <3>5, OffIsTyped DEF Placed
    <3>8. Placed'
      BY <3>4, <3>6, <3>7 DEF Placed, Off, DeviceSlots
    <3> QED
      BY <3>2, <3>8
  <2>2. ASSUME NEW s \in DeviceSlots, RemoveFrom(s)
        PROVE  ResourceTypeOK' /\ Placed'
    <3>1. device' \in [DeviceSlots -> DeviceType] /\ DOMAIN addresses' = Listed
      BY <2>2, OffIsTyped DEF RemoveFrom, Drop, ResourceTypeOK, DeviceType
    <3>2. ResourceTypeOK'
      BY <2>2, <3>1 DEF RemoveFrom, ResourceTypeOK, DeviceType, DeviceSlots
    <3>3. /\ boot' = NumSlots /\ request' = Nothing
          /\ stored' = [stored EXCEPT ![s] = NoDevice]
          /\ device' = [device EXCEPT ![s] = Off]
      BY <2>2 DEF RemoveFrom, Drop
    <3>4. ~ boot' < NumSlots
      BY <3>3, ResourceAssumption
    <3>5. /\ device'[s] = Off
          /\ \A t \in DeviceSlots : t # s => /\ device'[t] = device[t]
                                           /\ stored'[t] = stored[t]
      BY <3>3 DEF ResourceTypeOK
    <3>6. request' # Nothing => ~ device'[request'.slot].on
      BY <3>3, <3>5, OffIsTyped
    <3>7. \A t \in DeviceSlots : IF device'[t].on THEN stored'[t] # NoDevice
                                               ELSE device'[t] = Off
      BY <3>5, OffIsTyped DEF Placed
    <3>8. Placed'
      BY <3>4, <3>6, <3>7 DEF Placed, Off, DeviceSlots
    <3> QED
      BY <3>2, <3>8
  <2>3. CASE CreateDriver
    BY <2>3, CreatePlaced
  <2>4. CASE SkipSlot
    BY <2>4, ResourceAssumption
       DEF SkipSlot, reserved, ResourceTypeOK, Placed, DeviceSlots
  <2>5. CASE Reset
    BY <2>5, PlacedAfterReset
  <2>6. CASE UNCHANGED resources
    BY <2>6 DEF resources, reserved, ResourceTypeOK, Placed, DeviceSlots, Off
  <2> QED
    BY <2>1, <2>2, <2>3, <2>4, <2>5, <2>6 DEF ResourceNext
<1> QED
  BY <1>1, <1>2, PTL DEF ResourceSpec

\* What is reserved and what devices hold keeps its types, for any number of
\* slots, pins, timers, channels and kinds of devices.
THEOREM ResourceTypesCorrect == ResourceSpec => []ResourceTypeOK
  BY TypesInvariant, PTL

-----------------------------------------------------------------------------
\* With PinsExclusive, the pins of a sensor's bus are in the table of pins.
PinInv ==
  /\ PinsExclusive
  /\ \A s \in Running : stored[s].kind \in Listed => Used(stored[s]) \subseteq Pins

\* A creation keeps the pins apart if a device gets pins that nobody holds.
LEMMA PinsAfter ==
  ASSUME ResourceTypeOK, Placed, Creating, PinInv,
         \A p \in Pins : purpose[p] # Nothing => purpose'[p] = purpose[p],
         \/ NotCreated
         \/ \E pins \in SUBSET Pins : \E t, c :
              /\ Created(pins, t, c)
              /\ \A p \in pins : NoHolder(p) /\ purpose'[p] = "gpio"
              /\ Conf.kind \in Listed =>
                   /\ Used(Conf) \subseteq Pins
                   /\ \A p \in Used(Conf) : purpose'[p] = "bus"
  PROVE  PinInv'
<1> USE DEF PinInv, PinsExclusive, Running
<1>1. /\ Slot \in DeviceSlots /\ ~ device[Slot].on
      /\ \A s \in DeviceSlots : device[s].pins \subseteq Pins
      /\ Nothing \notin {"gpio", "bus"}
  BY AtSlot, OffIsTyped, ResourceAssumption DEF ResourceTypeOK
<1>2. CASE NotCreated
  <2>1. device' = device /\ \A s \in DeviceSlots : s # Slot => stored'[s] = stored[s]
    BY <1>2, AfterFinish DEF NotCreated
  <2> QED
    BY <1>1, <2>1
<1>3. ASSUME NEW pins \in SUBSET Pins, NEW t, NEW c, Created(pins, t, c),
             \A p \in pins : NoHolder(p) /\ purpose'[p] = "gpio",
             Conf.kind \in Listed =>
                   /\ Used(Conf) \subseteq Pins
                   /\ \A p \in Used(Conf) : purpose'[p] = "bus"
      PROVE  PinInv'
  <2>1. /\ device'[Slot].pins = pins /\ stored'[Slot] = Conf
        /\ \A s \in DeviceSlots : s # Slot => /\ device'[s] = device[s]
                                             /\ stored'[s] = stored[s]
    BY <1>1, <1>3, AfterFinish DEF Created, ResourceTypeOK
  <2>2. \A s, u \in DeviceSlots : s # u => device'[s].pins \cap device'[u].pins = {}
    BY <1>1, <1>3, <2>1 DEF NoHolder
  <2>3. \A s \in DeviceSlots : device'[s].on =>
          /\ \A p \in device'[s].pins : purpose'[p] = "gpio"
          /\ stored'[s].kind \in Listed => /\ Used(stored'[s]) \subseteq Pins
                                           /\ \A p \in Used(stored'[s]) : purpose'[p] = "bus"
    BY <1>1, <1>3, <2>1
  <2> QED
    BY <2>2, <2>3 DEF Used
<1> QED
  BY <1>2, <1>3

LEMMA NonePinned ==
  ASSUME ResourceTypeOK, Reset PROVE PinInv'
BY DEF Reset, PinInv, PinsExclusive, Running, Off

\* What a bus grants.
LEMMA BusTaken ==
  ASSUME ResourceTypeOK, NEW granted \in BOOLEAN, TakeBus(granted)
  PROVE  /\ \A p \in Pins : purpose[p] # Nothing => purpose'[p] = purpose[p]
         /\ granted => /\ Used(Conf) \subseteq Pins
                       /\ \A p \in Used(Conf) : purpose'[p] = "bus"
BY AfterTake DEF TakeBus, Grants

LEMMA SensorPins ==
  ASSUME ResourceTypeOK, Placed, Creating, PinInv, Conf.kind \in Listed,
         SensorRefused \/ SensorRuns \/ SensorFails \/ SensorGoesOn
  PROVE  PinInv'
<1>1. {} \in SUBSET Pins
  OBVIOUS
<1>2. CASE SensorRefused \/ SensorFails
  BY <1>2, BusTaken, PinsAfter, NoneCreated DEF SensorRefused, SensorFails
<1>3. CASE SensorRuns \/ SensorGoesOn
  <2>1. TakeBus(TRUE) /\ Created({}, 0, 0)
    BY <1>3 DEF SensorRuns, SensorGoesOn
  <2> QED
    BY <1>1, <2>1, BusTaken, PinsAfter
<1> QED
  BY <1>2, <1>3

LEMMA CreatePins ==
  ASSUME ResourceTypeOK, Placed, CreateDriver, PinInv
  PROVE  PinInv'
<1>1. Creating
  BY DEF CreateDriver
<1> DEFINE p == Conf.pins[1]
           q == Conf.pins[2]
<1>2. CASE CreatePin
  <2>1. CASE Refused /\ UNCHANGED purpose
    BY <1>1, <2>1, PinsAfter, NoneCreated
  <2>2. CASE Grants(p, "gpio") /\ Take({p}, "gpio") /\ (Created({p}, 0, 0) \/ Fault)
    <3>1. /\ {p} \in SUBSET Pins /\ NoHolder(p) /\ purpose'[p] = "gpio"
          /\ \A r \in Pins : purpose[r] # Nothing => purpose'[r] = purpose[r]
      BY <2>2, AfterTake DEF Grants
    <3> QED
      BY <1>1, <1>2, <2>2, <3>1, PinsAfter, NoneCreated DEF CreatePin, Listed
  <2> QED
    BY <1>2, <2>1, <2>2 DEF CreatePin
<1>3. CASE CreateScale
  <2>1. CASE Refused /\ (UNCHANGED purpose \/ Take({p}, "gpio"))
    BY <1>1, <2>1, AfterTake, PinsAfter, NoneCreated
  <2>2. CASE /\ Grants(p, "gpio") /\ Grants(q, "gpio") /\ Take({p, q}, "gpio")
             /\ Created({p, q}, 0, 0) \/ Fault
    <3>1. /\ {p, q} \in SUBSET Pins /\ NoHolder(p) /\ NoHolder(q)
          /\ purpose'[p] = "gpio" /\ purpose'[q] = "gpio"
          /\ \A r \in Pins : purpose[r] # Nothing => purpose'[r] = purpose[r]
      BY <2>2, AfterTake DEF Grants
    <3> QED
      BY <1>1, <1>3, <2>2, <3>1, PinsAfter, NoneCreated DEF CreateScale, Listed
  <2> QED
    BY <1>3, <2>1, <2>2 DEF CreateScale, Both
<1>4. CASE CreateDrv8825
  <2>1. CASE Refused /\ UNCHANGED purpose
    BY <1>1, <2>1, PinsAfter, NoneCreated
  <2>2. CASE Reset
    BY <2>2, NonePinned
  <2>3. CASE Grants(p, "gpio") /\ Take({p, q}, "gpio") /\ (Created({p}, 0, 0) \/ Fault)
    <3>1. /\ {p} \in SUBSET Pins /\ NoHolder(p) /\ purpose'[p] = "gpio"
          /\ \A r \in Pins : purpose[r] # Nothing => purpose'[r] = purpose[r]
      BY <2>3, AfterTake DEF Grants
    <3> QED
      BY <1>1, <1>4, <2>3, <3>1, PinsAfter, NoneCreated DEF CreateDrv8825, Listed
  <2> QED
    BY <1>4, <2>1, <2>2, <2>3 DEF CreateDrv8825, reserved
<1>5. CASE CreatePwm
  <2>1. CASE Refused /\ UNCHANGED purpose
    BY <1>1, <2>1, PinsAfter, NoneCreated
  <2>2. CASE /\ Grants(p, "gpio") /\ Take({p}, "gpio")
             /\ Refused \/ Fault \/ \E t, c : Created({p}, t, c)
    <3>1. /\ {p} \in SUBSET Pins /\ NoHolder(p) /\ purpose'[p] = "gpio"
          /\ \A r \in Pins : purpose[r] # Nothing => purpose'[r] = purpose[r]
      BY <2>2, AfterTake DEF Grants
    <3> QED
      BY <1>1, <1>5, <2>2, <3>1, PinsAfter, NoneCreated DEF CreatePwm, Listed
  <2> QED
    BY <1>5, <2>1, <2>2 DEF CreatePwm
<1>6. CASE CreateDs18x20
  BY <1>1, <1>6, SensorPins DEF CreateDs18x20, Listed
<1>7. CASE CreateAds111x
  BY <1>1, <1>7, SensorPins DEF CreateAds111x, Listed
<1>8. CASE CreatePcf8575
  BY <1>1, <1>8, SensorPins DEF CreatePcf8575, Listed
<1>9. CASE CreatePico
  BY <1>1, <1>9, SensorPins DEF CreatePico, Listed
<1>10. CASE CreateBme280
  <2>1. Refused \/ Fault \/ Created({}, 0, 0)
    BY <1>10 DEF CreateBme280
  <2>2. \A r \in Pins : purpose[r] # Nothing => purpose'[r] = purpose[r]
    BY <1>10, BusTaken DEF CreateBme280
  <2>3. {} \in SUBSET Pins /\ Conf.kind \notin Listed
    BY <1>10 DEF CreateBme280, Listed
  <2> QED
    BY <1>1, <2>1, <2>2, <2>3, PinsAfter, NoneCreated
<1> QED
  BY <1>2, <1>3, <1>4, <1>5, <1>6, <1>7, <1>8, <1>9, <1>10 DEF CreateDriver

LEMMA PinsInvariant == ResourceSpec => []PinInv
<1>1. ResourceInit => PinInv
  BY DEF ResourceInit, AllFree, PinInv, PinsExclusive, Running, Off
<1>2. ResourceTypeOK /\ Placed /\ PinInv /\ [ResourceNext]_resources => PinInv'
  <2> SUFFICES ASSUME ResourceTypeOK, Placed, PinInv, [ResourceNext]_resources
               PROVE  PinInv'
    OBVIOUS
  <2>1. ASSUME NEW s \in DeviceSlots, Drop(s), UNCHANGED purpose,
               \A u \in DeviceSlots : u # s => stored'[u] = stored[u]
        PROVE  PinInv'
    <3>1. /\ device'[s] = Off
          /\ \A u \in DeviceSlots : u # s => device'[u] = device[u]
      BY <2>1 DEF Drop, ResourceTypeOK
    <3> QED
      BY <2>1, <3>1 DEF PinInv, PinsExclusive, Running, Off
  <2>2. ASSUME NEW s \in DeviceSlots, NEW c \in Descriptions, Ask(s, c) PROVE PinInv'
    BY <2>1, <2>2 DEF Ask
  <2>3. ASSUME NEW s \in DeviceSlots, RemoveFrom(s) PROVE PinInv'
    BY <2>1, <2>3 DEF RemoveFrom, ResourceTypeOK
  <2>4. CASE CreateDriver
    BY <2>4, CreatePins
  <2>5. CASE Reset
    BY <2>5, NonePinned
  <2>6. CASE SkipSlot \/ UNCHANGED resources
    BY <2>6 DEF SkipSlot, resources, reserved, PinInv, PinsExclusive, Running
  <2> QED
    BY <2>2, <2>3, <2>4, <2>5, <2>6 DEF ResourceNext
<1> QED
  BY <1>1, <1>2, TypesInvariant, PTL DEF ResourceSpec

\* No two devices hold a pin, and none that is held is one of a bus: for any
\* number of slots and pins and any configurations.
THEOREM PinsApart == ResourceSpec => []PinsExclusive
<1>1. PinInv => PinsExclusive
  BY DEF PinInv
<1> QED
  BY <1>1, PinsInvariant, PTL

-----------------------------------------------------------------------------
Timers == 1 .. NumTimers
IsPwm(s) == device[s].on /\ stored[s].kind = "pwm"

\* The timers are taken in their order, one for a configuration; a running PWM
\* output has the timer of its configuration, and a channel of its own.
PwmInv ==
  /\ \A t, u \in Timers : t < u /\ timers[u] # Nothing => timers[t] # Nothing
  /\ \A t, u \in Timers : timers[t] = timers[u] /\ timers[t] # Nothing => t = u
  /\ \A s \in DeviceSlots : IsPwm(s) =>
       /\ device[s].timer \in Timers
       /\ timers[device[s].timer] = stored[s].options
       /\ stored[s].options # Nothing
       /\ device[s].channel \in 1 .. channels
  /\ \A s, u \in DeviceSlots : s # u /\ IsPwm(s) /\ IsPwm(u) =>
       device[s].channel # device[u].channel

\* What does not create a PWM output.
LEMMA PwmUntouched ==
  ASSUME ResourceTypeOK, Placed, Creating, PwmInv, UNCHANGED <<timers, channels>>,
         \/ NotCreated
         \/ Conf.kind # "pwm" /\ \E pins, t, c : Created(pins, t, c)
  PROVE  PwmInv'
<1>1. Slot \in DeviceSlots /\ ~ device[Slot].on
  BY AtSlot, OffIsTyped
<1>2. /\ \A s \in DeviceSlots : s # Slot => /\ device'[s] = device[s]
                                           /\ stored'[s] = stored[s]
      /\ ~ (device'[Slot].on /\ stored'[Slot].kind = "pwm")
  <2>1. CASE NotCreated
    BY <1>1, <2>1, AfterFinish DEF NotCreated, IsPwm
  <2>2. ASSUME NEW pins, NEW t, NEW c, Created(pins, t, c), Conf.kind # "pwm"
        PROVE  /\ \A s \in DeviceSlots : s # Slot => /\ device'[s] = device[s]
                                                    /\ stored'[s] = stored[s]
               /\ ~ (device'[Slot].on /\ stored'[Slot].kind = "pwm")
    BY <1>1, <2>2, AfterFinish DEF Created, IsPwm, ResourceTypeOK
  <2> QED
    BY <2>1, <2>2
<1>3. \A s \in DeviceSlots : IsPwm(s)' => IsPwm(s) /\ s # Slot
  BY <1>2 DEF IsPwm
<1> QED
  BY <1>2, <1>3 DEF PwmInv, Timers, DeviceSlots

\* The first timer that has the configuration or none, with it.
LEMMA TimerSet ==
  ASSUME ResourceTypeOK, PwmInv, NEW conf, conf # Nothing,
         NEW t \in TimerFor(conf), timers' = [timers EXCEPT ![t] = conf]
  PROVE  /\ t \in Timers /\ timers'[t] = conf
         /\ \A u, v \in Timers : u < v /\ timers'[v] # Nothing => timers'[u] # Nothing
         /\ \A u, v \in Timers : timers'[u] = timers'[v] /\ timers'[u] # Nothing => u = v
         /\ \A u \in Timers : timers[u] # Nothing => timers'[u] = timers[u]
<1>1. /\ t \in Timers /\ timers[t] \in {conf, Nothing}
      /\ \A u \in Timers : timers[u] \in {conf, Nothing} => t <= u
  BY DEF TimerFor, Timers
<1>2. timers'[t] = conf /\ \A u \in Timers : u # t => timers'[u] = timers[u]
  BY <1>1 DEF ResourceTypeOK, Timers
<1>3. Timers \subseteq Int
  BY ResourceAssumption DEF Timers
<1>4. \A u \in Timers : timers[u] = conf => u = t
  BY <1>1, <1>3 DEF PwmInv
<1>5. \A u \in Timers : u < t => timers[u] # Nothing
  BY <1>1, <1>3
<1> QED
  BY <1>1, <1>2, <1>3, <1>4, <1>5 DEF PwmInv

LEMMA PwmCreated ==
  ASSUME ResourceTypeOK, Placed, Creating, PwmInv, CreatePwm
  PROVE  PwmInv'
<1> DEFINE p    == Conf.pins[1]
           conf == Conf.options
<1>1. Slot \in DeviceSlots /\ ~ device[Slot].on /\ conf # Nothing /\ channels \in Nat
  BY AtSlot, OffIsTyped, ResourceAssumption DEF CreatePwm, ResourceTypeOK
<1>2. CASE (Refused \/ Fault) /\ UNCHANGED <<timers, channels>>
  BY <1>2, PwmUntouched, NoneCreated
<1>3. ASSUME NEW t \in TimerFor(conf), timers' = [timers EXCEPT ![t] = conf],
             channels' \in {channels, channels + 1}, Refused \/ Fault
      PROVE  PwmInv'
  <2>1. /\ device' = device
        /\ \A s \in DeviceSlots : s # Slot => stored'[s] = stored[s]
    BY <1>3, AfterFinish, NoneCreated DEF NotCreated
  <2>2. \A s \in DeviceSlots : IsPwm(s)' => IsPwm(s) /\ stored'[s] = stored[s]
    BY <1>1, <2>1 DEF IsPwm
  <2>3. /\ t \in Timers /\ timers'[t] = conf
        /\ \A u, v \in Timers : u < v /\ timers'[v] # Nothing => timers'[u] # Nothing
        /\ \A u, v \in Timers : timers'[u] = timers'[v] /\ timers'[u] # Nothing => u = v
        /\ \A u \in Timers : timers[u] # Nothing => timers'[u] = timers[u]
    BY <1>1, <1>3, TimerSet
  <2>4. \A s \in DeviceSlots : IsPwm(s)' =>
          /\ device'[s].timer \in Timers
          /\ timers'[device'[s].timer] = stored'[s].options
          /\ stored'[s].options # Nothing
          /\ device'[s].channel \in 1 .. channels'
    BY <1>1, <1>3, <2>1, <2>2, <2>3 DEF PwmInv
  <2>5. \A s, u \in DeviceSlots : s # u /\ IsPwm(s)' /\ IsPwm(u)' =>
          device'[s].channel # device'[u].channel
    BY <2>1, <2>2 DEF PwmInv
  <2> QED
    BY <2>3, <2>4, <2>5 DEF PwmInv, Timers, DeviceSlots
<1>4. ASSUME NEW t \in TimerFor(conf), timers' = [timers EXCEPT ![t] = conf],
             channels' = channels + 1, Created({p}, t, channels + 1)
      PROVE  PwmInv'
  <2>1. /\ device'[Slot].timer = t /\ device'[Slot].channel = channels + 1
        /\ stored'[Slot] = Conf
        /\ \A s \in DeviceSlots : s # Slot => /\ device'[s] = device[s]
                                             /\ stored'[s] = stored[s]
    BY <1>1, <1>4, AfterFinish DEF Created, ResourceTypeOK
  <2>2. \A s \in DeviceSlots : s # Slot /\ IsPwm(s)' => IsPwm(s)
    BY <2>1 DEF IsPwm
  <2>3. /\ t \in Timers /\ timers'[t] = conf
        /\ \A u, v \in Timers : u < v /\ timers'[v] # Nothing => timers'[u] # Nothing
        /\ \A u, v \in Timers : timers'[u] = timers'[v] /\ timers'[u] # Nothing => u = v
        /\ \A u \in Timers : timers[u] # Nothing => timers'[u] = timers[u]
    BY <1>1, <1>4, TimerSet
  <2>4. \A s \in DeviceSlots : IsPwm(s)' =>
          /\ device'[s].timer \in Timers
          /\ timers'[device'[s].timer] = stored'[s].options
          /\ stored'[s].options # Nothing
          /\ device'[s].channel \in 1 .. channels'
    BY <1>1, <1>4, <2>1, <2>2, <2>3 DEF PwmInv
  <2>5. \A s \in DeviceSlots : s # Slot /\ IsPwm(s)' => device'[s].channel \in 1 .. channels
    BY <2>1, <2>2 DEF PwmInv
  <2>6. \A s, u \in DeviceSlots : s # u /\ IsPwm(s)' /\ IsPwm(u)' =>
          device'[s].channel # device'[u].channel
    BY <1>1, <2>1, <2>2, <2>5 DEF PwmInv
  <2> QED
    BY <2>4, <2>6, <2>3 DEF PwmInv, Timers, DeviceSlots
<1> QED
  BY <1>2, <1>3, <1>4 DEF CreatePwm, NextChannel

LEMMA NonePwm ==
  ASSUME Reset PROVE PwmInv'
BY DEF Reset, PwmInv, IsPwm, Off, Timers

LEMMA PwmsInvariant == ResourceSpec => []PwmInv
<1>1. ResourceInit => PwmInv
  BY DEF ResourceInit, AllFree, PwmInv, IsPwm, Off, Timers
<1>2. ResourceTypeOK /\ Placed /\ PwmInv /\ [ResourceNext]_resources => PwmInv'
  <2> SUFFICES ASSUME ResourceTypeOK, Placed, PwmInv, [ResourceNext]_resources
               PROVE  PwmInv'
    OBVIOUS
  <2>1. ASSUME NEW s \in DeviceSlots, Drop(s), UNCHANGED <<timers, channels>>,
               \A u \in DeviceSlots : u # s => stored'[u] = stored[u]
        PROVE  PwmInv'
    <3>1. /\ device'[s] = Off
          /\ \A u \in DeviceSlots : u # s => device'[u] = device[u]
      BY <2>1 DEF Drop, ResourceTypeOK
    <3>2. \A u \in DeviceSlots : IsPwm(u)' => IsPwm(u) /\ u # s
      BY <2>1, <3>1, OffIsTyped DEF IsPwm
    <3> QED
      BY <2>1, <3>1, <3>2 DEF PwmInv, Timers, DeviceSlots
  <2>2. ASSUME NEW s \in DeviceSlots, NEW c \in Descriptions, Ask(s, c) PROVE PwmInv'
    BY <2>1, <2>2 DEF Ask
  <2>3. ASSUME NEW s \in DeviceSlots, RemoveFrom(s) PROVE PwmInv'
    BY <2>1, <2>3 DEF RemoveFrom, ResourceTypeOK
  <2>4. CASE CreateDriver
    <3>1. Creating
      BY <2>4 DEF CreateDriver
    <3>2. CASE CreatePin
      BY <3>1, <3>2, PwmUntouched, NoneCreated DEF CreatePin
    <3>3. CASE CreateScale
      BY <3>1, <3>3, PwmUntouched, NoneCreated DEF CreateScale
    <3>4. CASE CreateDrv8825
      BY <3>1, <3>4, PwmUntouched, NoneCreated, NonePwm DEF CreateDrv8825, reserved
    <3>5. CASE CreatePwm
      BY <3>1, <3>5, PwmCreated
    <3>6. CASE CreateDs18x20
      BY <3>1, <3>6, PwmUntouched, NoneCreated
         DEF CreateDs18x20, SensorRefused, SensorRuns, SensorFails
    <3>7. CASE CreateAds111x
      BY <3>1, <3>7, PwmUntouched, NoneCreated
         DEF CreateAds111x, SensorRefused, SensorRuns, SensorFails, SensorGoesOn
    <3>8. CASE CreatePcf8575
      BY <3>1, <3>8, PwmUntouched, NoneCreated
         DEF CreatePcf8575, SensorRefused, SensorRuns, SensorFails, SensorGoesOn
    <3>9. CASE CreatePico
      BY <3>1, <3>9, PwmUntouched, NoneCreated
         DEF CreatePico, SensorRefused, SensorRuns, SensorFails, SensorGoesOn
    <3>10. CASE CreateBme280
      BY <3>1, <3>10, PwmUntouched, NoneCreated DEF CreateBme280
    <3> QED
      BY <2>4, <3>2, <3>3, <3>4, <3>5, <3>6, <3>7, <3>8, <3>9, <3>10 DEF CreateDriver
  <2>5. CASE Reset
    BY <2>5, NonePwm
  <2>6. CASE SkipSlot \/ UNCHANGED resources
    BY <2>6 DEF SkipSlot, resources, reserved, PwmInv, IsPwm
  <2> QED
    BY <2>2, <2>3, <2>4, <2>5, <2>6 DEF ResourceNext
<1> QED
  BY <1>1, <1>2, TypesInvariant, PTL DEF ResourceSpec

\* No two PWM outputs get at each other's channel or timer: for any number of
\* slots, timers and channels and any configurations.
THEOREM PwmApart == ResourceSpec => []PwmIndependent
<1>1. PwmInv => PwmIndependent
  BY DEF PwmInv, PwmIndependent, Running, IsPwm
<1> QED
  BY <1>1, PwmsInvariant, PTL

-----------------------------------------------------------------------------
\* The devices of a driver with a list.
UsersOf(k) == {s \in DeviceSlots : device[s].on /\ stored[s].kind = k}

\* AddressesExclusive for the list of one driver.
ListRight(k) ==
  /\ addresses[k] = {stored[s].options : s \in UsersOf(k)}
  /\ \A s, t \in UsersOf(k) : stored[s].options = stored[t].options => s = t

LEMMA ListsRight ==
  AddressesExclusive <=> (~ flawed => \A k \in Listed : ListRight(k))
BY DEF AddressesExclusive, ListRight, UsersOf, Running

\* A list is right as long as its users are the same.
LEMMA SameUsers ==
  ASSUME NEW k, ListRight(k), addresses'[k] = addresses[k],
         UsersOf(k)' = UsersOf(k),
         \A s \in UsersOf(k) : stored'[s] = stored[s]
  PROVE  ListRight(k)'
BY DEF ListRight

\* What leaves the lists alone and creates no device of theirs.
LEMMA AddressesUntouched ==
  ASSUME ResourceTypeOK, Placed, Creating, AddressesExclusive,
         UNCHANGED <<addresses, flawed>>,
         \/ NotCreated
         \/ Conf.kind \notin Listed /\ \E pins, t, c : Created(pins, t, c)
  PROVE  AddressesExclusive'
<1>1. Slot \in DeviceSlots /\ ~ device[Slot].on
  BY AtSlot, OffIsTyped
<1>2. /\ \A s \in DeviceSlots : s # Slot => /\ device'[s] = device[s]
                                           /\ stored'[s] = stored[s]
      /\ ~ (device'[Slot].on /\ stored'[Slot].kind \in Listed)
  <2>1. CASE NotCreated
    BY <1>1, <2>1, AfterFinish DEF NotCreated
  <2>2. ASSUME NEW pins, NEW t, NEW c, Created(pins, t, c), Conf.kind \notin Listed
        PROVE  /\ \A s \in DeviceSlots : s # Slot => /\ device'[s] = device[s]
                                                    /\ stored'[s] = stored[s]
               /\ ~ (device'[Slot].on /\ stored'[Slot].kind \in Listed)
    BY <1>1, <2>2, AfterFinish DEF Created, ResourceTypeOK
  <2> QED
    BY <2>1, <2>2
<1>3. ASSUME NEW k \in Listed, ListRight(k) PROVE ListRight(k)'
  <2>1. UsersOf(k)' = UsersOf(k) /\ Slot \notin UsersOf(k)
    BY <1>1, <1>2 DEF UsersOf, DeviceSlots
  <2> QED
    BY <1>2, <1>3, <2>1, SameUsers DEF UsersOf
<1>4. flawed' = flawed /\ (~ flawed => \A k \in Listed : ListRight(k))
  BY ListsRight
<1>5. ~ flawed' => \A k \in Listed : ListRight(k)'
  BY <1>3, <1>4
<1> QED
  BY <1>5 DEF AddressesExclusive, ListRight, UsersOf, Running

\* A sensor gets the address that is added for it.
LEMMA AddressTaken ==
  ASSUME ResourceTypeOK, Placed, Creating, AddressesExclusive,
         Conf.kind \in Listed, SensorRuns
  PROVE  AddressesExclusive'
<1> DEFINE kind == Conf.kind
<1>1. Slot \in DeviceSlots /\ ~ device[Slot].on
  BY AtSlot, OffIsTyped
<1>2. /\ Created({}, 0, 0) /\ Conf.options \notin addresses[kind]
      /\ addresses' = [addresses EXCEPT ![kind] = @ \cup {Conf.options}]
      /\ flawed' = flawed
  BY DEF SensorRuns, AddAddress, List, Address
<1>3. /\ device'[Slot].on /\ stored'[Slot] = Conf
      /\ \A s \in DeviceSlots : s # Slot => /\ device'[s] = device[s]
                                           /\ stored'[s] = stored[s]
  BY <1>1, <1>2, AfterFinish DEF Created, ResourceTypeOK
<1>4. ASSUME NEW k \in Listed, k # kind, ListRight(k) PROVE ListRight(k)'
  <2>1. UsersOf(k)' = UsersOf(k) /\ Slot \notin UsersOf(k)
    BY <1>1, <1>3, <1>4 DEF UsersOf, DeviceSlots
  <2>2. addresses'[k] = addresses[k]
    BY <1>2, <1>4 DEF ResourceTypeOK
  <2> QED
    BY <1>3, <1>4, <2>1, <2>2, SameUsers DEF UsersOf
<1>5. ASSUME ListRight(kind)
      PROVE  /\ addresses'[kind] = {stored'[s].options : s \in UsersOf(kind) \cup {Slot}}
             /\ \A s, t \in UsersOf(kind) \cup {Slot} :
                  stored'[s].options = stored'[t].options => s = t
  <2>1. addresses'[kind] = addresses[kind] \cup {Conf.options}
    BY <1>2 DEF ResourceTypeOK
  <2>2. \A s \in UsersOf(kind) : s # Slot /\ stored'[s] = stored[s]
    BY <1>1, <1>3 DEF UsersOf
  <2>3. \A s \in UsersOf(kind) : stored[s].options # Conf.options
    BY <1>2, <1>5 DEF ListRight
  <2> QED
    BY <1>3, <1>5, <2>1, <2>2, <2>3 DEF ListRight
<1>6. {s \in DeviceSlots : device'[s].on /\ stored'[s].kind = kind} = UsersOf(kind) \cup {Slot}
  BY <1>1, <1>3 DEF UsersOf
<1>7. ~ flawed => \A k \in Listed : ListRight(k)
  BY ListsRight
<1>8. ASSUME ~ flawed', NEW k \in Listed PROVE ListRight(k)'
  <2>1. ListRight(k)
    BY <1>2, <1>7, <1>8
  <2>2. CASE k # kind
    BY <1>4, <2>1, <2>2
  <2>3. CASE k = kind
    <3>1. {s \in DeviceSlots : device'[s].on /\ stored'[s].kind = k}
            = UsersOf(kind) \cup {Slot}
      BY <1>6, <2>3
    <3> QED
      BY <1>5, <2>1, <2>3, <3>1 DEF ListRight, UsersOf, DeviceSlots
  <2> QED
    BY <2>2, <2>3
<1> QED
  BY <1>8 DEF AddressesExclusive, ListRight, UsersOf, Running

LEMMA SensorAddresses ==
  ASSUME ResourceTypeOK, Placed, Creating, AddressesExclusive, Conf.kind \in Listed,
         SensorRefused \/ SensorRuns \/ SensorFails \/ SensorGoesOn
  PROVE  AddressesExclusive'
<1>1. CASE SensorRefused \/ SensorFails
  BY <1>1, AddressesUntouched, NoneCreated DEF SensorRefused, SensorFails, Release
<1>2. CASE SensorRuns
  BY <1>2, AddressTaken
<1>3. CASE SensorGoesOn
  BY <1>3 DEF SensorGoesOn, AddressesExclusive
<1> QED
  BY <1>1, <1>2, <1>3

\* A destructor gives back the address of its device.
LEMMA AddressDropped ==
  ASSUME ResourceTypeOK, Placed, AddressesExclusive, NEW d \in DeviceSlots, Drop(d),
         flawed' = flawed,
         \A s \in DeviceSlots : s # d => stored'[s] = stored[s]
  PROVE  AddressesExclusive'
<1>1. /\ device'[d] = Off /\ ~ Off.on
      /\ \A s \in DeviceSlots : s # d => device'[s] = device[s]
  BY OffIsTyped DEF Drop, ResourceTypeOK
<1>2. ASSUME NEW k \in Listed, ListRight(k) PROVE ListRight(k)'
  <2>1. {s \in DeviceSlots : device'[s].on /\ stored'[s].kind = k} = UsersOf(k) \ {d}
    BY <1>1 DEF UsersOf
  <2>2. CASE d \in UsersOf(k)
    <3>1. addresses'[k] = addresses[k] \ {stored[d].options}
      BY <2>2 DEF Drop, UsersOf, ResourceTypeOK
    <3>2. \A s \in UsersOf(k) : s # d => stored[s].options # stored[d].options
      BY <1>2, <2>2 DEF ListRight
    <3>3. /\ addresses'[k] = {stored'[s].options : s \in UsersOf(k) \ {d}}
          /\ \A s, t \in UsersOf(k) \ {d} :
               stored'[s].options = stored'[t].options => s = t
      BY <1>2, <3>1, <3>2 DEF ListRight, UsersOf
    <3> QED
      BY <2>1, <3>3 DEF ListRight, UsersOf, DeviceSlots
  <2>3. CASE d \notin UsersOf(k)
    <3>1. addresses'[k] = addresses[k]
      BY <2>3 DEF Drop, UsersOf, ResourceTypeOK
    <3>2. /\ addresses'[k] = {stored'[s].options : s \in UsersOf(k) \ {d}}
          /\ \A s, t \in UsersOf(k) \ {d} :
               stored'[s].options = stored'[t].options => s = t
      BY <1>2, <2>3, <3>1 DEF ListRight, UsersOf
    <3> QED
      BY <2>1, <3>2 DEF ListRight, UsersOf, DeviceSlots
  <2> QED
    BY <2>2, <2>3
<1>3. ~ flawed => \A k \in Listed : ListRight(k)
  BY ListsRight
<1>4. ~ flawed' => \A k \in Listed : ListRight(k)'
  BY <1>2, <1>3
<1> QED
  BY <1>4 DEF AddressesExclusive, ListRight, UsersOf, Running

LEMMA NoAddress ==
  ASSUME Reset PROVE AddressesExclusive'
BY DEF Reset, AddressesExclusive, Running, Off

\* Every sensor's address is in its list once and no other is, unless a driver
\* went on without its sensor: for any number of slots, addresses and places.
THEOREM AddressesApart == ResourceSpec => []AddressesExclusive
<1>1. ResourceInit => AddressesExclusive
  BY DEF ResourceInit, AllFree, AddressesExclusive, Running, Off
<1>2. ResourceTypeOK /\ Placed /\ AddressesExclusive /\ [ResourceNext]_resources
        => AddressesExclusive'
  <2> SUFFICES ASSUME ResourceTypeOK, Placed, AddressesExclusive,
                      [ResourceNext]_resources
               PROVE  AddressesExclusive'
    OBVIOUS
  <2>1. ASSUME NEW s \in DeviceSlots, NEW c \in Descriptions, Ask(s, c)
        PROVE  AddressesExclusive'
    BY <2>1, AddressDropped DEF Ask
  <2>2. ASSUME NEW s \in DeviceSlots, RemoveFrom(s) PROVE AddressesExclusive'
    BY <2>2, AddressDropped DEF RemoveFrom, ResourceTypeOK
  <2>3. CASE CreateDriver
    <3>1. Creating
      BY <2>3 DEF CreateDriver
    <3>2. CASE CreatePin
      BY <3>1, <3>2, AddressesUntouched, NoneCreated DEF CreatePin, Listed
    <3>3. CASE CreateScale
      BY <3>1, <3>3, AddressesUntouched, NoneCreated DEF CreateScale, Listed
    <3>4. CASE CreateDrv8825
      BY <3>1, <3>4, AddressesUntouched, NoneCreated, NoAddress
         DEF CreateDrv8825, reserved, Listed
    <3>5. CASE CreatePwm
      BY <3>1, <3>5, AddressesUntouched, NoneCreated DEF CreatePwm, Listed
    <3>6. CASE CreateDs18x20
      BY <3>1, <3>6, SensorAddresses DEF CreateDs18x20, Listed
    <3>7. CASE CreateAds111x
      BY <3>1, <3>7, SensorAddresses DEF CreateAds111x, Listed
    <3>8. CASE CreatePcf8575
      BY <3>1, <3>8, SensorAddresses DEF CreatePcf8575, Listed
    <3>9. CASE CreatePico
      BY <3>1, <3>9, SensorAddresses DEF CreatePico, Listed
    <3>10. CASE CreateBme280
      BY <3>1, <3>10, AddressesUntouched, NoneCreated DEF CreateBme280, Listed
    <3> QED
      BY <2>3, <3>2, <3>3, <3>4, <3>5, <3>6, <3>7, <3>8, <3>9, <3>10 DEF CreateDriver
  <2>4. CASE Reset
    BY <2>4, NoAddress
  <2>5. CASE SkipSlot \/ UNCHANGED resources
    BY <2>5 DEF SkipSlot, resources, reserved, AddressesExclusive, Running
  <2> QED
    BY <2>1, <2>2, <2>3, <2>4, <2>5 DEF ResourceNext
<1> QED
  BY <1>1, <1>2, TypesInvariant, PTL DEF ResourceSpec

-----------------------------------------------------------------------------
\* The pins a driver takes for itself, those it keeps, and those of its bus.
GpioPins(c) ==
  IF c.kind \in {"pin", "pwm"} THEN {c.pins[1]}
  ELSE IF c.kind \in {"scale", "drv8825"} THEN {c.pins[1], c.pins[2]} ELSE {}
KeptPins(c) ==
  IF c.kind \in {"pin", "pwm", "drv8825"} THEN {c.pins[1]}
  ELSE IF c.kind = "scale" THEN {c.pins[1], c.pins[2]} ELSE {}
BusPins(c) == IF c.kind \in Listed \cup {"bme280"} THEN Used(c) ELSE {}

\* What a device that runs has got, whatever became of others since.
DeviceHas ==
  \A s \in DeviceSlots : device[s].on =>
    LET c == stored[s]
    IN  /\ device[s].pins = KeptPins(c)
        /\ GpioPins(c) \subseteq Pins
        /\ \A p \in GpioPins(c) : purpose[p] = "gpio"
        /\ c.kind \in {"scale", "drv8825"} => c.pins[1] # c.pins[2]
        /\ c.kind = "pwm" => c.options \notin BadTimers
        /\ c.kind = "bme280" => port # Nothing

PortHas ==
  port # Nothing =>
    \E c \in Descriptions :
      port = c.pins /\ Used(c) \subseteq Pins /\ \A p \in Used(c) : purpose[p] = "bus"

ListFits ==
  \A k \in Listed : /\ IsFiniteSet(addresses[k])
                    /\ k # "ds18x20" => Cardinality(addresses[k]) <= ListSize

PurposesKept == \A p \in Pins : purpose[p] # Nothing => purpose'[p] = purpose[p]

LEMMA HasAfter ==
  ASSUME ResourceTypeOK, Placed, Creating, DeviceHas, PurposesKept,
         port # Nothing => port' = port,
         \/ NotCreated
         \/ \E t, c :
              /\ Created(KeptPins(Conf), t, c)
              /\ GpioPins(Conf) \subseteq Pins
              /\ \A p \in GpioPins(Conf) : purpose'[p] = "gpio"
              /\ Conf.kind \in {"scale", "drv8825"} => Conf.pins[1] # Conf.pins[2]
              /\ Conf.kind = "pwm" => Conf.options \notin BadTimers
              /\ Conf.kind = "bme280" => port' # Nothing
  PROVE  DeviceHas'
<1>1. Slot \in DeviceSlots /\ ~ device[Slot].on /\ Nothing \notin {"gpio", "bus"}
  BY AtSlot, OffIsTyped, ResourceAssumption
<1>2. ASSUME NEW s \in DeviceSlots, device[s].on, device'[s] = device[s],
             stored'[s] = stored[s]
      PROVE  /\ device'[s].pins = KeptPins(stored'[s])
             /\ GpioPins(stored'[s]) \subseteq Pins
             /\ \A p \in GpioPins(stored'[s]) : purpose'[p] = "gpio"
             /\ stored'[s].kind \in {"scale", "drv8825"} =>
                  stored'[s].pins[1] # stored'[s].pins[2]
             /\ stored'[s].kind = "pwm" => stored'[s].options \notin BadTimers
             /\ stored'[s].kind = "bme280" => port' # Nothing
  BY <1>1, <1>2 DEF DeviceHas, PurposesKept
<1>3. CASE NotCreated
  <2>1. /\ \A s \in DeviceSlots : device'[s] = device[s]
        /\ \A s \in DeviceSlots : device[s].on => s # Slot /\ stored'[s] = stored[s]
    BY <1>1, <1>3, AfterFinish DEF NotCreated
  <2> QED
    BY <1>2, <2>1 DEF DeviceHas, KeptPins, GpioPins, DeviceSlots
<1>4. ASSUME NEW t, NEW c, Created(KeptPins(Conf), t, c),
             GpioPins(Conf) \subseteq Pins,
             \A p \in GpioPins(Conf) : purpose'[p] = "gpio",
             Conf.kind \in {"scale", "drv8825"} => Conf.pins[1] # Conf.pins[2],
             Conf.kind = "pwm" => Conf.options \notin BadTimers,
             Conf.kind = "bme280" => port' # Nothing
      PROVE  DeviceHas'
  <2>1. /\ device'[Slot].pins = KeptPins(Conf) /\ stored'[Slot] = Conf
        /\ \A s \in DeviceSlots : s # Slot => /\ device'[s] = device[s]
                                             /\ stored'[s] = stored[s]
    BY <1>1, <1>4, AfterFinish DEF Created, ResourceTypeOK
  <2>2. \A s \in DeviceSlots : device'[s].on =>
             /\ device'[s].pins = KeptPins(stored'[s])
             /\ GpioPins(stored'[s]) \subseteq Pins
             /\ \A p \in GpioPins(stored'[s]) : purpose'[p] = "gpio"
             /\ stored'[s].kind \in {"scale", "drv8825"} =>
                  stored'[s].pins[1] # stored'[s].pins[2]
             /\ stored'[s].kind = "pwm" => stored'[s].options \notin BadTimers
             /\ stored'[s].kind = "bme280" => port' # Nothing
    BY <1>2, <1>4, <2>1
  <2> QED
    BY <2>2 DEF DeviceHas, KeptPins, GpioPins, DeviceSlots
<1> QED
  BY <1>3, <1>4

\* What an I2C port has, and the lists, stays as long as pins keep their
\* purposes and nothing is added.
LEMMA PortAfter ==
  ASSUME ResourceTypeOK, PortHas, PurposesKept, port' = port PROVE PortHas'
<1>1. Nothing \notin {"gpio", "bus"}
  BY ResourceAssumption
<1>2. ASSUME port # Nothing PROVE PortHas'
  <2>1. PICK c \in Descriptions : /\ port = c.pins /\ Used(c) \subseteq Pins
                                  /\ \A p \in Used(c) : purpose[p] = "bus"
    BY <1>2 DEF PortHas
  <2>2. \A p \in Used(c) : purpose'[p] = "bus"
    BY <1>1, <2>1 DEF PurposesKept
  <2> QED
    BY <2>1, <2>2 DEF PortHas, Used
<1> QED
  BY <1>2 DEF PortHas

Has == DeviceHas /\ PortHas /\ ListFits

LEMMA HasNothing ==
  ASSUME Reset PROVE Has'
<1>1. \A k \in Listed : addresses'[k] = {}
  BY DEF Reset
<1>2. IsFiniteSet({}) /\ Cardinality({}) = 0
  BY FS_EmptySet
<1>3. ListSize >= 0
  BY ResourceAssumption
<1>4. ASSUME NEW k \in Listed
      PROVE  /\ IsFiniteSet(addresses'[k])
             /\ k # "ds18x20" => Cardinality(addresses'[k]) <= ListSize
  BY <1>1, <1>2, <1>3
<1>5. ListFits'
  BY <1>4 DEF ListFits
<1> QED
  BY <1>5 DEF Reset, Has, DeviceHas, PortHas, Off

LEMMA SensorHas ==
  ASSUME ResourceTypeOK, Placed, Creating, Conf.kind \in Listed, Has,
         SensorRefused \/ SensorRuns \/ SensorFails \/ SensorGoesOn, port' = port
  PROVE  Has'
<1>1. PurposesKept
  BY BusTaken DEF PurposesKept, SensorRefused, SensorRuns, SensorFails, SensorGoesOn
<1>2. KeptPins(Conf) = {} /\ GpioPins(Conf) = {}
      /\ Conf.kind \notin {"scale", "drv8825", "pwm", "bme280"}
  BY DEF KeptPins, GpioPins, Listed
<1>3. NotCreated \/ Created(KeptPins(Conf), 0, 0)
  BY <1>2, NoneCreated DEF SensorRefused, SensorRuns, SensorFails, SensorGoesOn
<1>4. DeviceHas'
  BY <1>1, <1>2, <1>3, HasAfter DEF Has
<1>5. PortHas'
  BY <1>1, PortAfter DEF Has
<1>6. CASE addresses' = addresses
  BY <1>4, <1>5, <1>6 DEF Has, ListFits
<1>7. CASE SensorRuns
  <2>1. /\ addresses' = [addresses EXCEPT ![Conf.kind] = @ \cup {Conf.options}]
        /\ Conf.options \notin addresses[Conf.kind]
        /\ Conf.kind # "ds18x20" => ~ Cardinality(addresses[Conf.kind]) >= ListSize
    BY <1>7 DEF SensorRuns, AddAddress, List, Address, Full
  <2>2. /\ IsFiniteSet(addresses[Conf.kind] \cup {Conf.options})
        /\ Cardinality(addresses[Conf.kind] \cup {Conf.options})
             = Cardinality(addresses[Conf.kind]) + 1
        /\ Cardinality(addresses[Conf.kind]) \in Nat
    BY <2>1, FS_AddElement, FS_CardinalityType DEF Has, ListFits
  <2>3. ASSUME NEW k \in Listed
        PROVE  /\ IsFiniteSet(addresses'[k])
               /\ k # "ds18x20" => Cardinality(addresses'[k]) <= ListSize
    <3>1. CASE k = Conf.kind
      <4>1. addresses'[k] = addresses[Conf.kind] \cup {Conf.options}
        BY <2>1, <3>1 DEF ResourceTypeOK
      <4>2. ListSize \in Nat
        BY ResourceAssumption
      <4>3. k # "ds18x20" =>
              Cardinality(addresses[Conf.kind] \cup {Conf.options}) <= ListSize
        <5> DEFINE n == Cardinality(addresses[Conf.kind])
        <5>1. k # "ds18x20" => ~ n >= ListSize
          BY <2>1, <3>1
        <5>2. k # "ds18x20" => n + 1 <= ListSize
          <6> HIDE DEF n
          <6>1. n \in Nat
            BY <2>2 DEF n
          <6> QED
            BY <4>2, <5>1, <6>1
        <5> QED
          BY <2>2, <5>2
      <4> QED
        BY <2>2, <4>1, <4>3
    <3>2. CASE k # Conf.kind
      <4>1. addresses'[k] = addresses[k]
        BY <2>1, <3>2 DEF ResourceTypeOK
      <4> QED
        BY <4>1 DEF Has, ListFits
    <3> QED
      BY <3>1, <3>2
  <2> QED
    BY <1>4, <1>5, <2>3 DEF Has, ListFits
<1> QED
  BY <1>6, <1>7 DEF SensorRefused, SensorFails, SensorGoesOn, Release

LEMMA CreateHas ==
  ASSUME ResourceTypeOK, Placed, CreateDriver, Has
  PROVE  Has'
<1>1. Creating
  BY DEF CreateDriver
<1> DEFINE p == Conf.pins[1]
           q == Conf.pins[2]
<1>2. ASSUME UNCHANGED addresses, PurposesKept, UNCHANGED port, DeviceHas' PROVE Has'
  BY <1>2, PortAfter DEF Has, ListFits
<1>3. CASE CreatePin
  <2>1. PurposesKept
    BY <1>3, AfterTake DEF CreatePin, PurposesKept
  <2>2. \/ NotCreated
        \/ /\ Created(KeptPins(Conf), 0, 0)
           /\ GpioPins(Conf) \subseteq Pins
           /\ \A r \in GpioPins(Conf) : purpose'[r] = "gpio"
    BY <1>3, AfterTake, NoneCreated DEF CreatePin, KeptPins, GpioPins, Grants
  <2>3. DeviceHas'
    BY <1>1, <1>3, <2>1, <2>2, HasAfter DEF Has, CreatePin
  <2> QED
    BY <1>2, <1>3, <2>1, <2>3 DEF CreatePin
<1>4. CASE CreateScale
  <2>1. PurposesKept
    BY <1>4, AfterTake DEF CreateScale, PurposesKept
  <2>2. \/ NotCreated
        \/ /\ Created(KeptPins(Conf), 0, 0)
           /\ GpioPins(Conf) \subseteq Pins /\ p # q
           /\ \A r \in GpioPins(Conf) : purpose'[r] = "gpio"
    BY <1>4, AfterTake, NoneCreated DEF CreateScale, KeptPins, GpioPins, Grants, Both
  <2>3. DeviceHas'
    BY <1>1, <1>4, <2>1, <2>2, HasAfter DEF Has, CreateScale
  <2> QED
    BY <1>2, <1>4, <2>1, <2>3 DEF CreateScale
<1>5. CASE CreateDrv8825 /\ ~ Reset
  <2>1. PurposesKept /\ UNCHANGED <<port, addresses>>
    BY <1>5, AfterTake DEF CreateDrv8825, PurposesKept, reserved
  <2>2. \/ NotCreated
        \/ /\ Created(KeptPins(Conf), 0, 0)
           /\ GpioPins(Conf) \subseteq Pins /\ p # q
           /\ \A r \in GpioPins(Conf) : purpose'[r] = "gpio"
    BY <1>5, AfterTake, NoneCreated DEF CreateDrv8825, KeptPins, GpioPins, Grants
  <2>3. DeviceHas'
    BY <1>1, <1>5, <2>1, <2>2, HasAfter DEF Has, CreateDrv8825
  <2> QED
    BY <1>2, <2>1, <2>3
<1>6. CASE CreatePwm
  <2>1. PurposesKept
    BY <1>6, AfterTake DEF CreatePwm, PurposesKept
  <2>2. \/ NotCreated
        \/ \E t, c : /\ Created(KeptPins(Conf), t, c)
                     /\ GpioPins(Conf) \subseteq Pins
                     /\ \A r \in GpioPins(Conf) : purpose'[r] = "gpio"
                     /\ Conf.options \notin BadTimers
    BY <1>6, AfterTake, NoneCreated DEF CreatePwm, KeptPins, GpioPins, Grants
  <2>3. DeviceHas'
    BY <1>1, <1>6, <2>1, <2>2, HasAfter DEF Has, CreatePwm
  <2> QED
    BY <1>2, <1>6, <2>1, <2>3 DEF CreatePwm
<1>7. CASE CreateDs18x20
  BY <1>1, <1>7, SensorHas DEF CreateDs18x20, Listed
<1>8. CASE CreateAds111x
  BY <1>1, <1>8, SensorHas DEF CreateAds111x, Listed
<1>9. CASE CreatePcf8575
  BY <1>1, <1>9, SensorHas DEF CreatePcf8575, Listed
<1>10. CASE CreatePico
  BY <1>1, <1>10, SensorHas DEF CreatePico, Listed
<1>11. CASE CreateBme280
  <2>1. PurposesKept
    BY <1>11, BusTaken DEF CreateBme280, PurposesKept
  <2>2. KeptPins(Conf) = {} /\ GpioPins(Conf) = {}
    BY <1>11 DEF CreateBme280, KeptPins, GpioPins
  <2>3. Conf \in Descriptions /\ Conf.pins # Nothing
    BY <1>1, AtSlot, ResourceAssumption
  <2>4. /\ port # Nothing => port' = port
        /\ NotCreated \/ (Created({}, 0, 0) /\ port' # Nothing)
    BY <1>11, <2>3, NoneCreated DEF CreateBme280
  <2>5. DeviceHas'
    BY <1>1, <1>11, <2>1, <2>2, <2>4, HasAfter DEF Has, CreateBme280
  <2>6. PortHas'
    <3>1. CASE port' = port
      BY <2>1, <3>1, PortAfter DEF Has
    <3>2. CASE port' = Conf.pins /\ TakeBus(TRUE)
      BY <2>3, <3>2, BusTaken DEF PortHas, Used
    <3> QED
      BY <1>11, <3>1, <3>2 DEF CreateBme280
  <2> QED
    BY <1>11, <2>5, <2>6 DEF CreateBme280, Has, ListFits
<1>12. CASE Reset
  BY <1>12, HasNothing
<1> QED
  BY <1>3, <1>4, <1>5, <1>6, <1>7, <1>8, <1>9, <1>10, <1>11, <1>12 DEF CreateDriver

\* A destructor takes nothing from the devices that stay.
LEMMA DropHas ==
  ASSUME ResourceTypeOK, Placed, Has, NEW d \in DeviceSlots, Drop(d),
         UNCHANGED <<purpose, port>>,
         \A s \in DeviceSlots : s # d => stored'[s] = stored[s]
  PROVE  Has'
<1>1. /\ device'[d] = Off /\ ~ Off.on
      /\ \A s \in DeviceSlots : s # d => device'[s] = device[s]
  BY OffIsTyped DEF Drop, ResourceTypeOK
<1>2. DeviceHas'
  <2>1. ASSUME NEW s \in DeviceSlots, device'[s].on
        PROVE  device[s].on /\ device'[s] = device[s] /\ stored'[s] = stored[s]
    BY <1>1, <2>1
  <2>2. \A s \in DeviceSlots : device'[s].on =>
             /\ device'[s].pins = KeptPins(stored'[s])
             /\ GpioPins(stored'[s]) \subseteq Pins
             /\ \A p \in GpioPins(stored'[s]) : purpose'[p] = "gpio"
             /\ stored'[s].kind \in {"scale", "drv8825"} =>
                  stored'[s].pins[1] # stored'[s].pins[2]
             /\ stored'[s].kind = "pwm" => stored'[s].options \notin BadTimers
             /\ stored'[s].kind = "bme280" => port' # Nothing
    BY <2>1 DEF Has, DeviceHas
  <2> QED
    BY <2>2 DEF DeviceHas, KeptPins, GpioPins, DeviceSlots
<1>3. PortHas'
  BY DEF Has, PortHas, Used
<1>4. ASSUME NEW k \in Listed
      PROVE  /\ IsFiniteSet(addresses'[k])
             /\ k # "ds18x20" => Cardinality(addresses'[k]) <= ListSize
  <2>1. addresses'[k] \in SUBSET addresses[k]
    BY DEF Drop, ResourceTypeOK
  <2>2. /\ IsFiniteSet(addresses[k])
        /\ k # "ds18x20" => Cardinality(addresses[k]) <= ListSize
    BY DEF Has, ListFits
  <2>3. /\ IsFiniteSet(addresses'[k])
        /\ Cardinality(addresses'[k]) <= Cardinality(addresses[k])
        /\ Cardinality(addresses'[k]) \in Int /\ Cardinality(addresses[k]) \in Int
    BY <2>1, <2>2, FS_Subset, FS_CardinalityType
  <2>4. ListSize \in Int
    BY ResourceAssumption
  <2> QED
    BY <2>2, <2>3, <2>4
<1> QED
  BY <1>2, <1>3, <1>4 DEF Has, ListFits

-----------------------------------------------------------------------------
\* What is stored fits: no two devices want the same, and there is enough.
InUse(s) == stored[s] # NoDevice
Pwms(n) == {s \in DeviceSlots : s < n /\ InUse(s) /\ stored[s].kind = "pwm"}
Of(k, n) == {s \in DeviceSlots : s < n /\ InUse(s) /\ stored[s].kind = k}
Wanted(k, n) == {stored[s].options : s \in Of(k, n)}

PinsFit ==
  /\ \A s \in DeviceSlots : InUse(s) =>
       /\ GpioPins(stored[s]) \subseteq Pins /\ BusPins(stored[s]) \subseteq Pins
       /\ stored[s].kind \in {"scale", "drv8825"} => stored[s].pins[1] # stored[s].pins[2]
       /\ stored[s].kind = "pwm" => stored[s].options \notin BadTimers
  /\ \A s, t \in DeviceSlots : InUse(s) /\ InUse(t) =>
       /\ s # t => GpioPins(stored[s]) \cap GpioPins(stored[t]) = {}
       /\ GpioPins(stored[s]) \cap BusPins(stored[t]) = {}
       /\ stored[s].kind = "bme280" /\ stored[t].kind = "bme280" =>
            stored[s].pins = stored[t].pins

PwmsFit ==
  /\ \E f \in [Pwms(NumSlots) -> 1 .. NumChannels] :
       \A s, t \in Pwms(NumSlots) : f[s] = f[t] => s = t
  /\ \E f \in [Pwms(NumSlots) -> Timers] :
       \A s, t \in Pwms(NumSlots) : f[s] = f[t] => stored[s].options = stored[t].options

ListsFit ==
  \A k \in Listed :
    /\ \A s, t \in Of(k, NumSlots) : stored[s].options = stored[t].options => s = t
    /\ IsFiniteSet(Wanted(k, NumSlots))
    /\ k # "ds18x20" => Cardinality(Wanted(k, NumSlots)) <= ListSize

Bootable == PinsFit /\ PwmsFit /\ ListsFit

\* A boot has taken nothing but for the slots that it has been at.
BootTook ==
  /\ \A p \in Pins :
       /\ purpose[p] = "gpio" =>
            \E s \in DeviceSlots : s < boot /\ InUse(s) /\ p \in GpioPins(stored[s])
       /\ purpose[p] = "bus" =>
            \E s \in DeviceSlots : s < boot /\ InUse(s) /\ p \in BusPins(stored[s])
  /\ channels <= Cardinality(Pwms(boot))
  /\ \A t \in Timers : timers[t] # Nothing =>
       \E s \in Pwms(boot) : timers[t] = stored[s].options
  /\ port # Nothing =>
       \E s \in DeviceSlots : /\ s < boot /\ InUse(s) /\ stored[s].kind = "bme280"
                              /\ port = stored[s].pins
  /\ \A k \in Listed : addresses[k] \subseteq Wanted(k, boot)

BootInv ==
  orderly =>
    /\ request = Nothing
    /\ \A s \in DeviceSlots : s < boot /\ InUse(s) => device[s].on
    /\ boot < NumSlots => Bootable /\ BootTook

\* What runs, all of it and in good order, fits.
LEMMA RunningFits ==
  ASSUME ResourceTypeOK, Placed, PinInv, PwmInv, AddressesExclusive, Has, AllWell
  PROVE  Bootable
<1>1. \A s \in DeviceSlots : InUse(s) => device[s].on /\ s < NumSlots
  BY ResourceAssumption DEF AllWell, Running, InUse, DeviceSlots
<1>2. PinsFit
  <2>1. ASSUME NEW s \in DeviceSlots, InUse(s), stored[s].kind = "bme280"
        PROVE  /\ port = stored[s].pins /\ BusPins(stored[s]) \subseteq Pins
               /\ \A p \in BusPins(stored[s]) : purpose[p] = "bus"
    <3>1. port # Nothing /\ port = stored[s].pins
      BY <1>1, <2>1 DEF Has, DeviceHas, AllWell, Running
    <3>2. PICK c \in Descriptions : /\ port = c.pins /\ Used(c) \subseteq Pins
                                    /\ \A p \in Used(c) : purpose[p] = "bus"
      BY <3>1 DEF Has, PortHas
    <3>3. Used(stored[s]) = Used(c)
      BY <3>1, <3>2 DEF Used
    <3> QED
      BY <2>1, <3>1, <3>2, <3>3 DEF BusPins
  <2>2. ASSUME NEW s \in DeviceSlots, InUse(s)
        PROVE  /\ BusPins(stored[s]) \subseteq Pins
               /\ \A p \in BusPins(stored[s]) : purpose[p] = "bus"
    <3>1. CASE stored[s].kind \in Listed
      BY <1>1, <2>2, <3>1 DEF PinInv, PinsExclusive, Running, BusPins
    <3> QED
      BY <2>1, <2>2, <3>1 DEF BusPins
  <2>3. ASSUME NEW s \in DeviceSlots, InUse(s)
        PROVE  /\ device[s].pins = KeptPins(stored[s])
               /\ GpioPins(stored[s]) \subseteq Pins
               /\ \A p \in GpioPins(stored[s]) : purpose[p] = "gpio"
               /\ stored[s].kind \in {"scale", "drv8825"} =>
                    stored[s].pins[1] # stored[s].pins[2]
               /\ stored[s].kind = "pwm" => stored[s].options \notin BadTimers
    BY <1>1, <2>3 DEF Has, DeviceHas
  <2>4. ASSUME NEW s \in DeviceSlots, InUse(s)
        PROVE  /\ GpioPins(stored[s]) \subseteq Used(stored[s])
               /\ KeptPins(stored[s]) \subseteq GpioPins(stored[s])
               /\ \A p \in GpioPins(stored[s]) :
                    p \in KeptPins(stored[s]) \/ (/\ stored[s].kind = "drv8825"
                                                  /\ p = stored[s].pins[2])
    <3>1. stored[s] \in Descriptions
      BY <2>4 DEF ResourceTypeOK, InUse
    <3>2. /\ Len(stored[s].pins) \in 1 .. 2
          /\ stored[s].kind \in {"scale", "drv8825"} => Len(stored[s].pins) = 2
      BY <3>1, ResourceAssumption
    <3>3. /\ stored[s].pins[1] \in Used(stored[s])
          /\ stored[s].kind \in {"scale", "drv8825"} => stored[s].pins[2] \in Used(stored[s])
      BY <3>2 DEF Used
    <3> QED
      BY <3>3 DEF GpioPins, KeptPins
  <2>5. ASSUME NEW s \in DeviceSlots, NEW t \in DeviceSlots, InUse(s), InUse(t), s # t,
               NEW p \in GpioPins(stored[s]), p \in GpioPins(stored[t])
        PROVE  FALSE
    <3>1. CASE stored[s].kind = "drv8825" /\ p = stored[s].pins[2]
      BY <1>1, <2>4, <2>5, <3>1 DEF AllWell, Running
    <3>2. CASE stored[t].kind = "drv8825" /\ p = stored[t].pins[2]
      BY <1>1, <2>4, <2>5, <3>2 DEF AllWell, Running
    <3>3. CASE p \in KeptPins(stored[s]) /\ p \in KeptPins(stored[t])
      BY <2>3, <2>5, <3>3 DEF PinInv, PinsExclusive
    <3> QED
      BY <2>4, <2>5, <3>1, <3>2, <3>3
  <2>6. ASSUME NEW s \in DeviceSlots, NEW t \in DeviceSlots, InUse(s), InUse(t)
        PROVE  GpioPins(stored[s]) \cap BusPins(stored[t]) = {}
    BY <2>2, <2>3, <2>6
  <2> QED
    BY <2>1, <2>2, <2>3, <2>5, <2>6 DEF PinsFit
<1>3. PwmsFit
  <2>1. \A s \in Pwms(NumSlots) : s \in DeviceSlots /\ IsPwm(s)
    BY <1>1 DEF Pwms, IsPwm
  <2>2. channels \in 0 .. NumChannels /\ NumChannels \in Nat
    BY ResourceAssumption DEF ResourceTypeOK
  <2> DEFINE ch == [s \in Pwms(NumSlots) |-> device[s].channel]
             tm == [s \in Pwms(NumSlots) |-> device[s].timer]
  <2>3. /\ ch \in [Pwms(NumSlots) -> 1 .. NumChannels]
        /\ \A s, t \in Pwms(NumSlots) : ch[s] = ch[t] => s = t
    BY <2>1, <2>2 DEF PwmInv
  <2>4. /\ tm \in [Pwms(NumSlots) -> Timers]
        /\ \A s, t \in Pwms(NumSlots) : tm[s] = tm[t] => stored[s].options = stored[t].options
    BY <2>1 DEF PwmInv
  <2> QED
    BY <2>3, <2>4 DEF PwmsFit
<1>4. ListsFit
  <2>1. ASSUME NEW k \in Listed
        PROVE  /\ \A s, t \in Of(k, NumSlots) : stored[s].options = stored[t].options => s = t
               /\ IsFiniteSet(Wanted(k, NumSlots))
               /\ k # "ds18x20" => Cardinality(Wanted(k, NumSlots)) <= ListSize
    <3>1. ListRight(k)
      BY ListsRight DEF AllWell
    <3>2. Of(k, NumSlots) \subseteq UsersOf(k)
      BY <1>1 DEF Of, UsersOf
    <3>3. Wanted(k, NumSlots) \in SUBSET addresses[k]
      BY <3>1, <3>2 DEF ListRight, Wanted
    <3>4. /\ IsFiniteSet(addresses[k])
          /\ k # "ds18x20" => Cardinality(addresses[k]) <= ListSize
      BY DEF Has, ListFits
    <3>5. /\ IsFiniteSet(Wanted(k, NumSlots))
          /\ Cardinality(Wanted(k, NumSlots)) <= Cardinality(addresses[k])
          /\ Cardinality(Wanted(k, NumSlots)) \in Int
          /\ Cardinality(addresses[k]) \in Int
      BY <3>3, <3>4, FS_Subset, FS_CardinalityType
    <3>6. ListSize \in Int
      BY ResourceAssumption
    <3> QED
      BY <3>1, <3>2, <3>4, <3>5, <3>6 DEF ListRight
  <2> QED
    BY <2>1 DEF ListsFit
<1> QED
  BY <1>2, <1>3, <1>4 DEF Bootable

-----------------------------------------------------------------------------
\* Such a boot grants each device what it asks for.
LEMMA GpioGranted ==
  ASSUME ResourceTypeOK, Placed, Has, BootInv, orderly, boot < NumSlots, InUse(boot),
         NEW p \in GpioPins(stored[boot])
  PROVE  Grants(p, "gpio")
<1>1. /\ boot \in DeviceSlots /\ PinsFit /\ BootTook /\ boot \in Int
      /\ Nothing \notin {"gpio", "bus"}
  BY ResourceAssumption DEF ResourceTypeOK, DeviceSlots, BootInv, Bootable
<1>2. p \in Pins
  BY <1>1 DEF PinsFit
<1>3. purpose[p] # "bus"
  BY <1>1, <1>2 DEF PinsFit, BootTook
<1>4. ASSUME NEW t \in DeviceSlots, p \in device[t].pins PROVE FALSE
  <2>1. device[t].on
    BY <1>4 DEF Placed, Off
  <2>2. t # boot /\ InUse(t)
    BY <1>1, <2>1 DEF Placed, InUse, DeviceSlots
  <2>3. p \in GpioPins(stored[t])
    <3>1. p \in KeptPins(stored[t])
      BY <1>4, <2>1 DEF Has, DeviceHas
    <3> QED
      BY <3>1 DEF KeptPins, GpioPins
  <2> QED
    BY <1>1, <2>2, <2>3 DEF PinsFit
<1> QED
  BY <1>2, <1>3, <1>4 DEF Grants, NoHolder, ResourceTypeOK

LEMMA BusGranted ==
  ASSUME ResourceTypeOK, BootInv, orderly, boot < NumSlots, InUse(boot),
         NEW p \in BusPins(stored[boot])
  PROVE  Grants(p, "bus")
<1>1. boot \in DeviceSlots /\ PinsFit /\ BootTook
  BY ResourceAssumption DEF ResourceTypeOK, DeviceSlots, BootInv, Bootable
<1>2. p \in Pins
  BY <1>1 DEF PinsFit
<1>3. purpose[p] # "gpio"
  BY <1>1, <1>2 DEF PinsFit, BootTook
<1> QED
  BY <1>2, <1>3 DEF Grants, ResourceTypeOK

\* There is a timer for each configuration: else each of the timers, and one
\* more, would be the timer that a stored configuration had.
LEMMA TimerLeft ==
  ASSUME ResourceTypeOK, PwmInv, BootInv, orderly, boot < NumSlots, InUse(boot),
         stored[boot].kind = "pwm"
  PROVE  TimerFor(stored[boot].options) # {}
<1> DEFINE conf == stored[boot].options
           Fits == {t \in Timers : timers[t] \in {conf, Nothing}}
<1>1. /\ boot \in DeviceSlots /\ PwmsFit /\ BootTook /\ boot \in Int
      /\ NumSlots \in Nat /\ NumTimers \in Nat
  BY ResourceAssumption DEF ResourceTypeOK, DeviceSlots, BootInv, Bootable
<1>2. CASE Fits = {}
  <2>1. PICK f \in [Pwms(NumSlots) -> Timers] :
          \A s, t \in Pwms(NumSlots) : f[s] = f[t] => stored[s].options = stored[t].options
    BY <1>1 DEF PwmsFit
  <2> DEFINE slot == [t \in Timers |-> CHOOSE s \in Pwms(boot) : timers[t] = stored[s].options]
             g == [t \in Timers \cup {0} |-> IF t = 0 THEN f[boot] ELSE f[slot[t]]]
  <2>2. \A t \in Timers : timers[t] # Nothing /\ timers[t] # conf
    BY <1>2
  <2>3. \A t \in Timers : slot[t] \in Pwms(boot) /\ timers[t] = stored[slot[t]].options
    BY <1>1, <2>2 DEF BootTook
  <2>4. Pwms(boot) \subseteq Pwms(NumSlots) /\ boot \in Pwms(NumSlots)
    BY <1>1 DEF Pwms, DeviceSlots
  <2> HIDE DEF slot, conf, Fits
  <2>5. \A t \in Timers \cup {0} : t = 0 \/ t \in Timers
    OBVIOUS
  <2>6. g \in [Timers \cup {0} -> Timers]
    BY <2>1, <2>3, <2>4, <2>5
  <2>7. /\ IsFiniteSet(Timers \cup {0}) /\ Cardinality(Timers \cup {0}) = NumTimers + 1
        /\ IsFiniteSet(Timers) /\ Cardinality(Timers) = NumTimers
    <3>1. IsFiniteSet(Timers) /\ Cardinality(Timers) = NumTimers
      <4>1. NumTimers \in Nat
        BY <1>1
      <4> QED
        BY <4>1, FS_Interval DEF Timers
    <3>2. 0 \notin Timers
      BY DEF Timers
    <3> QED
      BY <1>1, <3>1, <3>2, FS_AddElement
  <2>8. Cardinality(Timers) < Cardinality(Timers \cup {0})
    BY <1>1, <2>7
  <2> HIDE DEF g
  <2>9. \E t, u \in Timers \cup {0} : t # u /\ g[t] = g[u]
    BY <2>6, <2>7, <2>8, FS_PigeonHole
  <2>10. PICK t, u \in Timers \cup {0} : t # u /\ g[t] = g[u]
    BY <2>9
  <2>11. CASE t \in Timers /\ u \in Timers
    <3>1. 0 \notin Timers
      BY DEF Timers
    <3>2. stored[slot[t]].options = stored[slot[u]].options
      BY <2>1, <2>3, <2>4, <2>10, <2>11, <3>1 DEF g
    <3> QED
      BY <2>2, <2>3, <2>10, <2>11, <3>2 DEF PwmInv
  <2>12. ASSUME NEW v \in Timers, g[v] = g[0] PROVE FALSE
    <3>1. 0 \notin Timers
      BY DEF Timers
    <3>2. stored[slot[v]].options = stored[boot].options
      BY <2>1, <2>3, <2>4, <2>12, <3>1 DEF g
    <3> QED
      BY <2>2, <2>3, <3>2 DEF conf
  <2> QED
    BY <2>5, <2>10, <2>11, <2>12
<1>3. CASE Fits # {}
  <2>1. Fits \subseteq Nat /\ Fits # {}
    BY <1>3 DEF Timers
  <2>2. PICK t \in Fits : \A u \in Fits : ~ (<<u, t>> \in OpToRel(<, Nat))
    BY <2>1, NatLessThanWellFounded, WFMin
  <2> HIDE DEF Fits
  <2>3. \A u \in Fits : ~ (u < t)
    BY <2>1, <2>2 DEF OpToRel
  <2>4. \A u \in Fits : t <= u
    BY <2>1, <2>3
  <2> QED
    BY <2>4 DEF TimerFor, Timers, Fits
<1> QED
  BY <1>2, <1>3

\* There is a channel for each output, since each had one.
LEMMA ChannelLeft ==
  ASSUME ResourceTypeOK, BootInv, orderly, boot < NumSlots, InUse(boot),
         stored[boot].kind = "pwm"
  PROVE  /\ channels < NumChannels
         /\ IsFiniteSet(Pwms(boot))
<1>1. /\ boot \in DeviceSlots /\ PwmsFit /\ BootTook /\ boot \in Int
      /\ NumSlots \in Nat /\ NumChannels \in Nat
      /\ channels \in 0 .. NumChannels
  BY ResourceAssumption DEF ResourceTypeOK, DeviceSlots, BootInv, Bootable
<1>2. PICK f \in [Pwms(NumSlots) -> 1 .. NumChannels] :
        \A s, t \in Pwms(NumSlots) : f[s] = f[t] => s = t
  BY <1>1 DEF PwmsFit
<1>3. IsFiniteSet(1 .. NumChannels) /\ Cardinality(1 .. NumChannels) = NumChannels
  <2>1. NumChannels \in Nat
    BY <1>1
  <2> QED
    BY <2>1, FS_Interval
<1>4. f \in Injection(Pwms(NumSlots), 1 .. NumChannels)
  BY <1>2 DEF Injection, IsInjective
<1>5. IsFiniteSet(Pwms(NumSlots)) /\ Cardinality(Pwms(NumSlots)) <= NumChannels
  BY <1>3, <1>4, FS_Injection
<1>6. /\ Pwms(boot) \in SUBSET Pwms(NumSlots) /\ boot \notin Pwms(boot)
      /\ Pwms(boot) \cup {boot} \in SUBSET Pwms(NumSlots)
  BY <1>1 DEF Pwms, DeviceSlots
<1>7. IsFiniteSet(Pwms(boot)) /\ Cardinality(Pwms(boot)) \in Nat
  BY <1>5, <1>6, FS_Subset, FS_CardinalityType
<1>8. /\ Cardinality(Pwms(boot) \cup {boot}) <= Cardinality(Pwms(NumSlots))
      /\ Cardinality(Pwms(NumSlots)) \in Nat
  BY <1>5, <1>6, FS_Subset, FS_CardinalityType
<1>9. Cardinality(Pwms(boot) \cup {boot}) = Cardinality(Pwms(boot)) + 1
  BY <1>6, <1>7, FS_AddElement
<1> QED
  BY <1>1, <1>5, <1>7, <1>8, <1>9 DEF BootTook

\* There is a place in the list for each sensor.
LEMMA PlaceLeft ==
  ASSUME ResourceTypeOK, Has, BootInv, orderly, boot < NumSlots, InUse(boot),
         NEW k \in Listed, stored[boot].kind = k
  PROVE  /\ stored[boot].options \notin addresses[k]
         /\ k # "ds18x20" => ~ Cardinality(addresses[k]) >= ListSize
<1> DEFINE address == stored[boot].options
<1>1. /\ boot \in DeviceSlots /\ ListsFit /\ BootTook /\ boot \in Int /\ ListSize \in Int
      /\ NumSlots \in Nat
  BY ResourceAssumption DEF ResourceTypeOK, DeviceSlots, BootInv, Bootable
<1>2. Of(k, boot) \subseteq Of(k, NumSlots) /\ boot \in Of(k, NumSlots) \ Of(k, boot)
  BY <1>1 DEF Of, DeviceSlots
<1>3. address \notin Wanted(k, boot)
  BY <1>1, <1>2 DEF ListsFit, Wanted
<1>4. address \notin addresses[k]
  BY <1>1, <1>3 DEF BootTook
<1>5. addresses[k] \cup {address} \in SUBSET Wanted(k, NumSlots)
  BY <1>1, <1>2 DEF BootTook, Wanted
<1>6. IsFiniteSet(addresses[k]) /\ Cardinality(addresses[k]) \in Nat
  BY FS_CardinalityType DEF Has, ListFits
<1>7. Cardinality(addresses[k] \cup {address}) = Cardinality(addresses[k]) + 1
  BY <1>4, <1>6, FS_AddElement
<1>8. IsFiniteSet(Wanted(k, NumSlots))
  BY <1>1 DEF ListsFit
<1>9. /\ Cardinality(addresses[k] \cup {address}) <= Cardinality(Wanted(k, NumSlots))
      /\ Cardinality(Wanted(k, NumSlots)) \in Int
  BY <1>5, <1>8, FS_Subset, FS_CardinalityType
<1>10. k # "ds18x20" => Cardinality(Wanted(k, NumSlots)) <= ListSize
  BY <1>1 DEF ListsFit
<1> QED
  BY <1>1, <1>4, <1>6, <1>7, <1>9, <1>10

LEMMA SameFits ==
  ASSUME UNCHANGED stored, Bootable PROVE Bootable'
<1>1. /\ \A n : Pwms(n)' = Pwms(n)
      /\ \A k, n : Of(k, n)' = Of(k, n) /\ Wanted(k, n)' = Wanted(k, n)
  BY DEF Pwms, Of, Wanted, InUse
<1>2. PinsFit'
  <2>1. \A s \in DeviceSlots : /\ InUse(s)' = InUse(s)
                               /\ GpioPins(stored[s])' = GpioPins(stored[s])
                               /\ BusPins(stored[s])' = BusPins(stored[s])
    BY DEF InUse, GpioPins, BusPins, Used
  <2> QED
    BY <2>1 DEF Bootable, PinsFit, DeviceSlots
<1>3. PwmsFit'
  BY <1>1 DEF Bootable, PwmsFit
<1>4. ListsFit'
  BY <1>1 DEF Bootable, ListsFit
<1> QED
  BY <1>2, <1>3, <1>4 DEF Bootable

\* A reset begins such a boot, or one of which nothing is said.
LEMMA ResetBoots ==
  ASSUME ResourceTypeOK, Placed, PinInv, PwmInv, AddressesExclusive, Has, Reset
  PROVE  BootInv'
<1>1. /\ orderly' = AllWell /\ boot' = 0 /\ request' = Nothing /\ stored' = stored
      /\ purpose' = [p \in Pins |-> Nothing]
      /\ timers' = [t \in 1 .. NumTimers |-> Nothing]
      /\ channels' = 0 /\ port' = Nothing
      /\ addresses' = [k \in Listed |-> {}]
  BY DEF Reset
<1>2. AllWell => Bootable'
  BY <1>1, RunningFits, SameFits
<1>3. BootTook'
  <2>1. Pwms(0)' = {} /\ \A s \in DeviceSlots : ~ s < 0
    BY DEF Pwms, DeviceSlots
  <2>2. Cardinality(Pwms(0)') = 0
    BY <2>1, FS_EmptySet
  <2>3. Nothing \notin {"gpio", "bus"}
    BY ResourceAssumption
  <2>4. channels' <= Cardinality(Pwms(0)')
    BY <1>1, <2>2
  <2> QED
    BY <1>1, <2>3, <2>4 DEF BootTook, Timers, Pwms
<1> QED
  BY <1>1, <1>2, <1>3 DEF BootInv, DeviceSlots

-----------------------------------------------------------------------------
\* A boot goes on to the next slot, with what a device of this one took.
LEMMA BootStep ==
  ASSUME ResourceTypeOK, BootInv, orderly, boot < NumSlots, UNCHANGED stored,
         boot' = boot + 1, request' = Nothing,
         InUse(boot) => device'[boot].on,
         \A s \in DeviceSlots : s # boot => device'[s] = device[s],
         \A p \in Pins :
           \/ purpose'[p] = purpose[p]
           \/ InUse(boot) /\ purpose'[p] = "gpio" /\ p \in GpioPins(stored[boot])
           \/ InUse(boot) /\ purpose'[p] = "bus" /\ p \in BusPins(stored[boot]),
         \/ channels' = channels
         \/ InUse(boot) /\ stored[boot].kind = "pwm" /\ channels' = channels + 1,
         \A t \in Timers :
           \/ timers'[t] = timers[t]
           \/ InUse(boot) /\ stored[boot].kind = "pwm" /\ timers'[t] = stored[boot].options,
         \/ port' = port
         \/ InUse(boot) /\ stored[boot].kind = "bme280" /\ port' = stored[boot].pins,
         \A k \in Listed :
           \/ addresses'[k] \subseteq addresses[k]
           \/ /\ InUse(boot) /\ stored[boot].kind = k
              /\ addresses'[k] = addresses[k] \cup {stored[boot].options}
  PROVE  BootInv'
<1>1. /\ boot \in DeviceSlots /\ BootTook /\ Bootable /\ boot \in Int /\ NumSlots \in Nat
      /\ \A s \in DeviceSlots : s < boot + 1 => s < boot \/ s = boot
      /\ \A s \in DeviceSlots : s < boot => s < boot + 1
      /\ boot < boot + 1
  <2>1. boot \in Int /\ NumSlots \in Nat /\ boot \in DeviceSlots
    BY ResourceAssumption DEF ResourceTypeOK, DeviceSlots
  <2>2. BootTook /\ Bootable
    BY DEF BootInv
  <2>3. \A s \in DeviceSlots : s \in Int
    BY DEF DeviceSlots
  <2> QED
    BY <2>1, <2>2, <2>3
<1>2. \A s \in DeviceSlots : s < boot + 1 /\ InUse(s) => device'[s].on
  BY <1>1 DEF BootInv
<1>3. Bootable'
  BY <1>1, SameFits
<1>4. BootTook'
  <2>1. ASSUME NEW p \in Pins
        PROVE  /\ purpose'[p] = "gpio" =>
                    \E s \in DeviceSlots : s < boot + 1 /\ InUse(s) /\ p \in GpioPins(stored[s])
               /\ purpose'[p] = "bus" =>
                    \E s \in DeviceSlots : s < boot + 1 /\ InUse(s) /\ p \in BusPins(stored[s])
    BY <1>1, <2>1 DEF BootTook
  <2>2. /\ Pwms(boot) \subseteq Pwms(boot + 1)
        /\ InUse(boot) /\ stored[boot].kind = "pwm" =>
             boot \notin Pwms(boot) /\ Pwms(boot + 1) = Pwms(boot) \cup {boot}
        /\ ~ (InUse(boot) /\ stored[boot].kind = "pwm") => Pwms(boot + 1) = Pwms(boot)
    BY <1>1 DEF Pwms
  <2>3. channels' <= Cardinality(Pwms(boot + 1))
    <3>1. CASE InUse(boot) /\ stored[boot].kind = "pwm"
      <4>1. IsFiniteSet(Pwms(boot))
        BY <3>1, ChannelLeft
      <4>2. /\ Cardinality(Pwms(boot + 1)) = Cardinality(Pwms(boot)) + 1
            /\ Cardinality(Pwms(boot)) \in Int
        BY <2>2, <3>1, <4>1, FS_AddElement, FS_CardinalityType
      <4>3. channels <= Cardinality(Pwms(boot)) /\ channels \in Int
        BY <1>1 DEF BootTook, ResourceTypeOK
      <4> QED
        BY <4>2, <4>3
    <3>2. CASE ~ (InUse(boot) /\ stored[boot].kind = "pwm")
      BY <1>1, <2>2, <3>2 DEF BootTook
    <3> QED
      BY <3>1, <3>2
  <2>4. ASSUME NEW t \in Timers, timers'[t] # Nothing
        PROVE  \E s \in Pwms(boot + 1) : timers'[t] = stored[s].options
    BY <1>1, <2>2, <2>4 DEF BootTook
  <2>5. port' # Nothing =>
          \E s \in DeviceSlots : /\ s < boot + 1 /\ InUse(s) /\ stored[s].kind = "bme280"
                                 /\ port' = stored[s].pins
    BY <1>1 DEF BootTook
  <2>6. ASSUME NEW k \in Listed PROVE addresses'[k] \subseteq Wanted(k, boot + 1)
    <3>1. /\ Wanted(k, boot) \subseteq Wanted(k, boot + 1)
          /\ InUse(boot) /\ stored[boot].kind = k => stored[boot].options \in Wanted(k, boot + 1)
      BY <1>1 DEF Wanted, Of
    <3> QED
      BY <1>1, <3>1 DEF BootTook
  <2>7. /\ \A n : Pwms(n)' = Pwms(n)
        /\ \A k, n : Wanted(k, n)' = Wanted(k, n)
        /\ \A s \in DeviceSlots : /\ InUse(s)' = InUse(s)
                                  /\ GpioPins(stored[s])' = GpioPins(stored[s])
                                  /\ BusPins(stored[s])' = BusPins(stored[s])
    BY DEF Pwms, Of, Wanted, InUse, GpioPins, BusPins, Used
  <2>8. /\ Pwms(boot)' = Pwms(boot + 1)
        /\ \A k : Wanted(k, boot)' = Wanted(k, boot + 1)
    BY DEF Pwms, Of, Wanted, InUse
  <2> QED
    BY <2>1, <2>3, <2>4, <2>5, <2>6, <2>7, <2>8 DEF BootTook, DeviceSlots, Timers
<1> QED
  BY <1>2, <1>3, <1>4 DEF BootInv, InUse, DeviceSlots

\* Where a creation ends.
LEMMA CreationEnds ==
  ASSUME CreateDriver
  PROVE  Reset \/ Refused \/ Fault \/ \E pins, t, c : Created(pins, t, c)
BY DEF CreateDriver, CreatePin, CreateScale, CreateDrv8825, CreatePwm, CreateDs18x20,
       CreateAds111x, CreatePcf8575, CreatePico, CreateBme280,
       SensorRefused, SensorRuns, SensorFails, SensorGoesOn

\* A boot that goes well goes on so with a device that gets its pins.
LEMMA CreatedBoots ==
  ASSUME ResourceTypeOK, Placed, BootInv, orderly, boot < NumSlots, Creating,
         NEW pins, NEW t, NEW c, Created(pins, t, c)
  PROVE  /\ UNCHANGED stored /\ boot' = boot + 1 /\ request' = Nothing
         /\ InUse(boot) /\ device'[boot].on /\ Conf = stored[boot]
         /\ \A s \in DeviceSlots : s # boot => device'[s] = device[s]
<1>1. boot \in DeviceSlots
  BY ResourceAssumption DEF ResourceTypeOK, DeviceSlots
<1> QED
  BY <1>1 DEF Created, Finish, Slot, Conf, Creating, InUse, BootInv, ResourceTypeOK

LEMMA TakeOf ==
  ASSUME ResourceTypeOK, NEW pins, NEW use, Take(pins, use), NEW p \in Pins
  PROVE  purpose'[p] = purpose[p] \/ (p \in pins /\ purpose'[p] = use)
BY DEF Take, ResourceTypeOK

\* Of a bus whose pins are granted, both are; a sensor is not refused its
\* place.
LEMMA SensorBoots ==
  ASSUME ResourceTypeOK, Placed, Has, BootInv, orderly, boot < NumSlots, Creating,
         Conf.kind \in Listed, UNCHANGED <<timers, channels, port>>,
         SensorRefused \/ SensorRuns \/ SensorFails \/ SensorGoesOn
  PROVE  BootInv'
<1>1. Conf = stored[boot] /\ InUse(boot) /\ BusPins(Conf) = Used(Conf)
  BY DEF Creating, Conf, InUse, BusPins
<1>2. ~ TakeBus(FALSE)
  BY <1>1, BusGranted DEF TakeBus
<1>3. ~ (Address \in List \/ Full)
  BY <1>1, PlaceLeft DEF Address, List, Full
<1>4. CASE SensorFails
  BY <1>4 DEF SensorFails, Fault, BootInv
<1>5. CASE SensorRuns \/ SensorGoesOn
  <2>1. Take(Used(Conf), "bus") /\ Created({}, 0, 0)
    BY <1>5 DEF SensorRuns, SensorGoesOn, TakeBus
  <2>2. /\ UNCHANGED stored /\ boot' = boot + 1 /\ request' = Nothing
        /\ InUse(boot) /\ device'[boot].on
        /\ \A s \in DeviceSlots : s # boot => device'[s] = device[s]
    BY <2>1, CreatedBoots
  <2>3. \A p \in Pins :
           \/ purpose'[p] = purpose[p]
           \/ purpose'[p] = "bus" /\ p \in BusPins(stored[boot])
    BY <1>1, <2>1, TakeOf
  <2>4. \A k \in Listed :
           \/ addresses'[k] \subseteq addresses[k]
           \/ /\ stored[boot].kind = k
              /\ addresses'[k] = addresses[k] \cup {stored[boot].options}
    BY <1>1, <1>5 DEF SensorRuns, SensorGoesOn, AddAddress, Release, Address, ResourceTypeOK
  <2> QED
    BY <2>2, <2>3, <2>4, BootStep
<1> QED
  BY <1>2, <1>3, <1>4, <1>5 DEF SensorRefused

LEMMA CreateBoots ==
  ASSUME ResourceTypeOK, Placed, PinInv, PwmInv, AddressesExclusive, Has, BootInv,
         CreateDriver
  PROVE  BootInv'
<1> DEFINE p == Conf.pins[1]
           q == Conf.pins[2]
<1>1. CASE Reset
  BY <1>1, ResetBoots
<1>2. CASE Fault
  BY <1>2 DEF Fault, BootInv
<1>3. CASE ~ orderly /\ ~ Reset
  BY <1>3, CreationEnds DEF Refused, Fault, Created, BootInv
<1>4. SUFFICES ASSUME orderly, ~ Reset, ~ Fault PROVE BootInv'
  BY <1>1, <1>2, <1>3
<1>5. Creating /\ boot < NumSlots
  BY <1>4 DEF CreateDriver, Creating, BootInv
<1>6. Conf = stored[boot] /\ InUse(boot)
  BY <1>5 DEF Creating, Conf, InUse
<1>7. PinsFit /\ boot \in DeviceSlots
  BY <1>4, <1>5, ResourceAssumption
     DEF BootInv, Bootable, ResourceTypeOK, DeviceSlots
<1>8. ASSUME NEW pins, NEW t, NEW c, Created(pins, t, c)
      PROVE  /\ UNCHANGED stored /\ boot' = boot + 1 /\ request' = Nothing
             /\ InUse(boot) /\ device'[boot].on
             /\ \A s \in DeviceSlots : s # boot => device'[s] = device[s]
  BY <1>4, <1>5, <1>8, CreatedBoots
<1>9. \A r \in GpioPins(Conf) : Grants(r, "gpio")
  BY <1>4, <1>5, <1>6, GpioGranted
<1>10. \A r \in BusPins(Conf) : Grants(r, "bus")
  BY <1>4, <1>5, <1>6, BusGranted
<1>11. ASSUME NEW r1, NEW r2, Take({r1, r2}, "gpio"), {r1, r2} \subseteq GpioPins(Conf)
       PROVE  \A r \in Pins : \/ purpose'[r] = purpose[r]
                              \/ purpose'[r] = "gpio" /\ r \in GpioPins(stored[boot])
  BY <1>6, <1>11, TakeOf
<1>12. {p} = {p, p}
  OBVIOUS
<1>13. CASE CreatePin
  <2>1. GpioPins(Conf) = {p}
    BY <1>13 DEF CreatePin, GpioPins
  <2>2. Take({p}, "gpio") /\ Created({p}, 0, 0)
    BY <1>4, <1>9, <1>13, <2>1 DEF CreatePin
  <2>3. UNCHANGED <<timers, channels, port, addresses>>
    BY <1>13 DEF CreatePin
  <2> QED
    BY <1>4, <1>5, <1>8, <1>11, <1>12, <2>1, <2>2, <2>3, BootStep
<1>14. CASE CreateScale
  <2>1. GpioPins(Conf) = {p, q} /\ p # q
    BY <1>6, <1>7, <1>14 DEF CreateScale, GpioPins, PinsFit
  <2>2. Take({p, q}, "gpio") /\ Created({p, q}, 0, 0)
    BY <1>4, <1>9, <1>14, <2>1 DEF CreateScale, Both
  <2>3. UNCHANGED <<timers, channels, port, addresses>>
    BY <1>14 DEF CreateScale
  <2> QED
    BY <1>4, <1>5, <1>8, <1>11, <2>1, <2>2, <2>3, BootStep
<1>15. CASE CreateDrv8825
  <2>1. GpioPins(Conf) = {p, q} /\ p # q
    BY <1>6, <1>7, <1>15 DEF CreateDrv8825, GpioPins, PinsFit
  <2>2. /\ Take({p, q}, "gpio") /\ Created({p}, 0, 0)
        /\ UNCHANGED <<timers, channels, port, addresses>>
    BY <1>4, <1>9, <1>15, <2>1 DEF CreateDrv8825
  <2> QED
    BY <1>4, <1>5, <1>8, <1>11, <2>1, <2>2, BootStep
<1>16. CASE CreatePwm
  <2>1. GpioPins(Conf) = {p} /\ Conf.kind = "pwm"
    BY <1>16 DEF CreatePwm, GpioPins
  <2>2. TimerFor(Conf.options) # {} /\ channels < NumChannels /\ channels # NumChannels
    BY <1>4, <1>5, <1>6, <2>1, TimerLeft, ChannelLeft, ResourceAssumption
       DEF ResourceTypeOK
  <2>3. Conf.options \notin BadTimers
    BY <1>6, <1>7, <2>1 DEF PinsFit
  <2>4. PICK t \in TimerFor(Conf.options) :
          /\ Take({p}, "gpio")
          /\ timers' = [timers EXCEPT ![t] = Conf.options]
          /\ channels' = channels + 1
          /\ Created({p}, t, channels + 1)
    BY <1>4, <1>9, <1>16, <2>1, <2>2, <2>3 DEF CreatePwm, NextChannel
  <2>5. \A u \in Timers : \/ timers'[u] = timers[u]
                          \/ timers'[u] = stored[boot].options
    BY <1>6, <2>4 DEF ResourceTypeOK, Timers
  <2>6. UNCHANGED <<port, addresses>>
    BY <1>16 DEF CreatePwm
  <2>7. /\ UNCHANGED stored /\ boot' = boot + 1 /\ request' = Nothing
        /\ InUse(boot) /\ device'[boot].on
        /\ \A s \in DeviceSlots : s # boot => device'[s] = device[s]
    BY <1>8, <2>4
  <2>8. \A r \in Pins : \/ purpose'[r] = purpose[r]
                        \/ purpose'[r] = "gpio" /\ r \in GpioPins(stored[boot])
    BY <1>11, <1>12, <2>1, <2>4
  <2> QED
    BY <1>4, <1>5, <1>6, <2>1, <2>4, <2>5, <2>6, <2>7, <2>8, BootStep
<1>17. CASE CreateDs18x20
  BY <1>4, <1>5, <1>17, SensorBoots DEF CreateDs18x20, Listed
<1>18. CASE CreateAds111x
  BY <1>4, <1>5, <1>18, SensorBoots DEF CreateAds111x, Listed
<1>19. CASE CreatePcf8575
  BY <1>4, <1>5, <1>19, SensorBoots DEF CreatePcf8575, Listed
<1>20. CASE CreatePico
  BY <1>4, <1>5, <1>20, SensorBoots DEF CreatePico, Listed
<1>21. CASE CreateBme280
  <2>1. BusPins(Conf) = Used(Conf) /\ Conf.kind = "bme280"
    BY <1>21 DEF CreateBme280, BusPins
  <2>2. ~ TakeBus(FALSE)
    BY <1>10, <2>1 DEF TakeBus
  <2>3. /\ \/ purpose' = purpose /\ port' = port
           \/ Take(Used(Conf), "bus") /\ port' = Conf.pins
        /\ Created({}, 0, 0)
        /\ UNCHANGED <<timers, channels, addresses>>
    BY <1>4, <1>21, <2>2 DEF CreateBme280, TakeBus
  <2>4. \A r \in Pins : \/ purpose'[r] = purpose[r]
                        \/ purpose'[r] = "bus" /\ r \in BusPins(stored[boot])
    BY <1>6, <2>1, <2>3, TakeOf
  <2>5. /\ UNCHANGED stored /\ boot' = boot + 1 /\ request' = Nothing
        /\ InUse(boot) /\ device'[boot].on
        /\ \A s \in DeviceSlots : s # boot => device'[s] = device[s]
    BY <1>8, <2>3
  <2> QED
    BY <1>4, <1>5, <1>6, <2>1, <2>3, <2>4, <2>5, BootStep
<1> QED
  BY <1>13, <1>14, <1>15, <1>16, <1>17, <1>18, <1>19, <1>20, <1>21 DEF CreateDriver

\* What was created in the order of the requests can be created in the order of
\* the slots, for any number of slots, pins, timers, channels and places, and
\* any configurations.
THEOREM OrderOfSlots == ResourceSpec => []BootKeeps
<1> DEFINE Inv == PinInv /\ PwmInv /\ AddressesExclusive
<1>1. ResourceInit => Has /\ BootInv
  <2>1. ResourceInit => ListFits
    <3> SUFFICES ASSUME ResourceInit PROVE ListFits
      OBVIOUS
    <3>1. ListSize >= 0 /\ \A k \in Listed : addresses[k] = {}
      BY ResourceAssumption DEF ResourceInit, AllFree
    <3> QED
      BY <3>1, FS_EmptySet DEF ListFits
  <2> QED
    BY <2>1 DEF ResourceInit, AllFree, Has, DeviceHas, PortHas, Off, BootInv
<1>2. ResourceTypeOK /\ Placed /\ Inv /\ Has /\ BootInv /\ [ResourceNext]_resources
        => Has' /\ BootInv'
  <2> SUFFICES ASSUME ResourceTypeOK, Placed, Inv, Has, BootInv, [ResourceNext]_resources
               PROVE  Has' /\ BootInv'
    OBVIOUS
  <2>1. ASSUME NEW s \in DeviceSlots, NEW c \in Descriptions, Ask(s, c)
        PROVE  Has' /\ BootInv'
    BY <2>1, DropHas DEF Ask, BootInv
  <2>2. ASSUME NEW s \in DeviceSlots, RemoveFrom(s) PROVE Has' /\ BootInv'
    <3>1. Has'
      BY <2>2, DropHas DEF RemoveFrom, ResourceTypeOK
    <3>2. /\ device' = [device EXCEPT ![s] = Off]
          /\ stored' = [stored EXCEPT ![s] = NoDevice]
          /\ orderly' = orderly /\ request' = request /\ boot' = boot /\ boot = NumSlots
      BY <2>2 DEF RemoveFrom, Drop
    <3>3. \A u \in DeviceSlots : InUse(u)' => InUse(u) /\ device'[u] = device[u]
      BY <3>2 DEF InUse, ResourceTypeOK
    <3>4. ~ NumSlots < NumSlots
      BY ResourceAssumption
    <3> QED
      BY <3>1, <3>2, <3>3, <3>4 DEF BootInv, DeviceSlots
  <2>3. CASE CreateDriver
    BY <2>3, CreateHas, CreateBoots
  <2>4. CASE Reset
    BY <2>4, HasNothing, ResetBoots
  <2>5. CASE SkipSlot
    <3>1. Has'
      BY <2>5 DEF SkipSlot, reserved, Has, DeviceHas, PortHas, ListFits, KeptPins,
                  GpioPins, Used
    <3>2. CASE orderly
      <4>1. /\ boot < NumSlots /\ boot' = boot + 1 /\ ~ InUse(boot)
            /\ UNCHANGED <<purpose, timers, channels, port, addresses, stored, device, request>>
        BY <2>5 DEF SkipSlot, reserved, InUse
      <4>2. request' = Nothing
        BY <3>2, <4>1 DEF BootInv
      <4>3. /\ \A s \in DeviceSlots : device'[s] = device[s]
            /\ \A p \in Pins : purpose'[p] = purpose[p]
            /\ \A t \in Timers : timers'[t] = timers[t]
            /\ \A k \in Listed : addresses'[k] \subseteq addresses[k]
        BY <4>1
      <4> QED
        BY <3>1, <3>2, <4>1, <4>2, <4>3, BootStep
    <3>3. CASE ~ orderly
      <4>1. ~ orderly'
        BY Zenon, <2>5, <3>3 DEF SkipSlot
      <4> QED
        BY <3>1, <4>1 DEF BootInv
    <3> QED
      BY <3>2, <3>3
  <2>6. CASE UNCHANGED resources
    <3>1. UNCHANGED <<purpose, timers, channels, port, addresses, stored, device, boot,
                      request, orderly>>
      BY <2>6 DEF resources, reserved
    <3>2. Has'
      BY <3>1 DEF Has, DeviceHas, PortHas, ListFits, KeptPins, GpioPins, Used
    <3>3. Bootable => Bootable'
      BY <3>1, SameFits
    <3>4. BootTook => BootTook'
      BY <3>1 DEF BootTook, Pwms, Of, Wanted, InUse, GpioPins, BusPins, Used
    <3> QED
      BY <3>1, <3>2, <3>3, <3>4 DEF BootInv, InUse
  <2> QED
    BY <2>1, <2>2, <2>3, <2>4, <2>5, <2>6 DEF ResourceNext
<1>3. ResourceTypeOK /\ Placed /\ Has /\ BootInv => BootKeeps
  <2> SUFFICES ASSUME ResourceTypeOK, Placed, Has, BootInv, orderly
               PROVE  /\ \A s \in DeviceSlots : s < boot /\ stored[s] # NoDevice => device[s].on
                      /\ boot < NumSlots /\ stored[boot] # NoDevice
                         /\ stored[boot].kind = "drv8825"
                           => \A p \in Used(stored[boot]) : Grants(p, "gpio")
    BY DEF BootKeeps
  <2>1. \A s \in DeviceSlots : s < boot /\ stored[s] # NoDevice => device[s].on
    BY DEF BootInv, InUse
  <2>2. ASSUME boot < NumSlots, stored[boot] # NoDevice, stored[boot].kind = "drv8825",
               NEW p \in Used(stored[boot])
        PROVE  Grants(p, "gpio")
    <3>1. stored[boot] \in Descriptions
      BY <2>2, ResourceAssumption DEF ResourceTypeOK, DeviceSlots
    <3>2. Len(stored[boot].pins) = 2
      BY <2>2, <3>1, ResourceAssumption
    <3>3. p \in GpioPins(stored[boot])
      BY <2>2, <3>2 DEF Used, GpioPins
    <3> QED
      BY <2>2, <3>3, GpioGranted DEF InUse
  <2> QED
    BY <2>1, <2>2
<1> QED
  BY <1>1, <1>2, <1>3, TypesInvariant, PinsInvariant, PwmsInvariant, AddressesApart, PTL
     DEF ResourceSpec
=============================================================================
