---------------------------- MODULE DeviceProofs -----------------------------
(***************************************************************************)
(* Theorems about the devices, for all values of their constants: first    *)
(* the ring buffer, for every capacity, and the sample container built on  *)
(* it, for all samples and limits; then the sensor and the switch, for any *)
(* readings, targets, periods and error limits; then the pins, for any     *)
(* duties; then the stepper and the pump, for any width of the counter and *)
(* any numbers of steps and millilitres.                                   *)
(***************************************************************************)
EXTENDS SampleContainer, ControlLoop, PinDriver, Stepper,
        Sequences, SequenceTheorems, TLAPS

-----------------------------------------------------------------------------
\* The ring buffer.

\* An index is taken around the array at most once.
LEMMA Wrap ==
  \A first \in Places, n \in 0 .. Capacity :
    /\ (first + n) % Capacity \in Places
    /\ (first + n) % Capacity = IF first + n < Capacity THEN first + n
                                                       ELSE first + n - Capacity
BY RingAssumption DEF Places

\* Two items lie in different places, ...
LEMMA WrapInjective ==
  ASSUME NEW first \in Places, NEW m \in 0 .. Capacity - 1, NEW n \in 0 .. Capacity - 1,
         m # n
  PROVE  (first + m) % Capacity # (first + n) % Capacity
<1>1. first \in 0 .. Capacity - 1 /\ m \in 0 .. Capacity /\ n \in 0 .. Capacity
  BY RingAssumption DEF Places
<1>2. /\ (first + m) % Capacity = IF first + m < Capacity THEN first + m
                                                         ELSE first + m - Capacity
      /\ (first + n) % Capacity = IF first + n < Capacity THEN first + n
                                                         ELSE first + n - Capacity
  BY <1>1, Wrap
<1> QED BY <1>1, <1>2, RingAssumption

\* ... and where the first item moves on, all do.
LEMMA WrapShift ==
  ASSUME NEW first \in Places, NEW n \in 0 .. Capacity - 1
  PROVE  (((first + 1) % Capacity) + n) % Capacity = (first + (n + 1)) % Capacity
<1> DEFINE next == (first + 1) % Capacity
<1>1. first \in 0 .. Capacity - 1 /\ 1 \in 0 .. Capacity
      /\ n \in 0 .. Capacity /\ n + 1 \in 0 .. Capacity
  BY RingAssumption DEF Places
<1>2. next \in Places /\ next = IF first + 1 < Capacity THEN first + 1
                                                        ELSE first + 1 - Capacity
  BY <1>1, Wrap
<1>3. (next + n) % Capacity = IF next + n < Capacity THEN next + n
                                                     ELSE next + n - Capacity
  BY <1>1, <1>2, Wrap
<1>4. (first + (n + 1)) % Capacity = IF first + (n + 1) < Capacity THEN first + (n + 1)
                                                 ELSE first + (n + 1) - Capacity
  BY <1>1, Wrap
<1> HIDE DEF next
<1>5. (next + n) % Capacity = (first + (n + 1)) % Capacity
  BY <1>1, <1>2, <1>3, <1>4, RingAssumption
<1> QED BY <1>5 DEF next

LEMMA WrapAround ==
  ASSUME NEW first \in Places
  PROVE  (first + 0) % Capacity = first /\ (first + Capacity) % Capacity = first
<1>1. first \in 0 .. Capacity - 1 /\ 0 \in 0 .. Capacity /\ Capacity \in 0 .. Capacity
  BY RingAssumption DEF Places
<1> QED BY <1>1, Wrap, RingAssumption

LEMMA RealIndices ==
  RingTypeOK =>
    \A n \in 0 .. Capacity :
      /\ RealIndex(n) \in Places
      /\ RealIndex(n) = IF offset + n < Capacity THEN offset + n
                                                ELSE offset + n - Capacity
BY Wrap DEF RingTypeOK, RealIndex

LEMMA RingInitType == RingInit => RingTypeOK
BY RingAssumption DEF RingInit, RingTypeOK, Places

LEMMA AppendType ==
  ASSUME RingTypeOK, NEW item \in Items, AppendItem(item)
  PROVE  RingTypeOK'
<1>1. RealIndex(1) \in Places
  BY RealIndices, RingAssumption
<1> QED
  BY <1>1, RingAssumption DEF RingTypeOK, AppendItem, Full, NextOffset, Places

LEMMA RingStepType == RingTypeOK /\ [RingNext]_ring => RingTypeOK'
<1> SUFFICES ASSUME RingTypeOK, [RingNext]_ring
             PROVE  RingTypeOK'
    OBVIOUS
<1>1. RealIndex(1) \in Places
  BY RealIndices, RingAssumption
<1>2. CASE \E item \in Items : AppendItem(item)
  BY <1>2, AppendType
<1>3. CASE RemoveFront
  BY <1>1, <1>3, RingAssumption DEF RingTypeOK, RemoveFront, NextOffset
<1>4. CASE RemoveBack
  BY <1>4, RingAssumption DEF RingTypeOK, RemoveBack
<1>5. CASE UNCHANGED ring
  BY <1>5 DEF RingTypeOK, ring
<1> QED BY <1>2, <1>3, <1>4, <1>5 DEF RingNext

\* The contents are a sequence of as many items as the buffer counts.
Shape ==
  /\ Contents \in Seq(Items)
  /\ Len(Contents) = size
  /\ \A i \in 1 .. size : Contents[i] = data[(offset + (i - 1)) % Capacity]

LEMMA ContentsShape == RingTypeOK => Shape
<1> SUFFICES ASSUME RingTypeOK
             PROVE  Shape
    OBVIOUS
<1>1. \A i \in 1 .. size : At(i - 1) \in Items
  BY RealIndices, RingAssumption DEF RingTypeOK, At
<1> QED BY <1>1 DEF Contents, RingTypeOK, At, RealIndex, Shape

\* It holds after a step as it does before it.
LEMMA ShapeAfter == RingTypeOK' => Shape'
BY ContentsShape, PTL

\* What an operation leaves in the buffer, item by item.
LEMMA AppendContents ==
  ASSUME RingTypeOK, NEW item \in Items, AppendItem(item)
  PROVE  Window!Push(item)
<1> DEFINE new == Append(IF Full THEN Tail(Contents) ELSE Contents, item)
<1>1. RingTypeOK'
  BY AppendType
<1>2. Shape /\ Shape'
  BY <1>1, ContentsShape, ShapeAfter
<1>3. CASE Full
  <2>1. /\ new \in Seq(Items) /\ Len(new) = Capacity
        /\ \A i \in 1 .. Capacity - 1 : new[i] = Contents[i + 1]
        /\ new[Capacity] = item
    BY <1>2, <1>3, RingAssumption DEF Shape, Full
  <2>2. /\ size' = Capacity
        /\ offset' = RealIndex(1) /\ data' = [data EXCEPT ![RealIndex(0)] = item]
    BY <1>3 DEF AppendItem, NextOffset, Full
  <2>3. \A i \in 1 .. Capacity - 1 : Contents'[i] = Contents[i + 1]
    <3> SUFFICES ASSUME NEW i \in 1 .. Capacity - 1
                 PROVE  Contents'[i] = Contents[i + 1]
        OBVIOUS
    <3>1. (offset' + (i - 1)) % Capacity = RealIndex(i) /\ RealIndex(i) # RealIndex(0)
      BY <2>2, WrapShift, WrapInjective, RingAssumption DEF RingTypeOK, RealIndex
    <3>2. Contents'[i] = data'[RealIndex(i)]
      BY <1>2, <2>2, <3>1, RingAssumption DEF Shape
    <3>3. Contents[i + 1] = data[RealIndex(i)]
      BY <1>2, <1>3, RingAssumption DEF Shape, Full, RealIndex
    <3> QED
      BY <2>2, <3>1, <3>2, <3>3, RealIndices, RingAssumption DEF RingTypeOK
  <2>4. Contents'[Capacity] = item
    <3>1. (offset' + (Capacity - 1)) % Capacity = RealIndex(0) /\ RealIndex(0) \in Places
      BY <2>2, WrapShift, WrapAround, RealIndices, RingAssumption DEF RingTypeOK, RealIndex
    <3> QED BY <1>2, <2>2, <3>1, RingAssumption DEF Shape, RingTypeOK
  <2>5. Contents' = new
    BY <1>2, <2>1, <2>2, <2>3, <2>4, RingAssumption, SeqEqual DEF Shape
  <2> QED BY <1>2, <1>3, <2>5 DEF Window!Push, Shape, Full
<1>4. CASE ~ Full
  <2>1. /\ new \in Seq(Items) /\ Len(new) = size + 1
        /\ \A i \in 1 .. size : new[i] = Contents[i]
        /\ new[size + 1] = item
    BY <1>2, <1>4 DEF Shape, Full, RingTypeOK
  <2>2. /\ size' = size + 1 /\ size < Capacity
        /\ offset' = offset /\ data' = [data EXCEPT ![RealIndex(size)] = item]
    BY <1>4, RingAssumption DEF AppendItem, Full, RingTypeOK
  <2>3. \A i \in 1 .. size : Contents'[i] = Contents[i]
    <3> SUFFICES ASSUME NEW i \in 1 .. size
                 PROVE  Contents'[i] = Contents[i]
        OBVIOUS
    <3>1. (offset' + (i - 1)) % Capacity = RealIndex(i - 1) /\ RealIndex(i - 1) # RealIndex(size)
      BY <2>2, WrapInjective, RingAssumption DEF RingTypeOK, RealIndex
    <3>2. Contents'[i] = data'[RealIndex(i - 1)] /\ Contents[i] = data[RealIndex(i - 1)]
      BY <1>2, <2>2, <3>1, RingAssumption DEF Shape, RingTypeOK, RealIndex
    <3> QED
      BY <2>2, <3>1, <3>2, RealIndices, RingAssumption DEF RingTypeOK
  <2>4. Contents'[size + 1] = item
    <3>1. (offset' + size) % Capacity = RealIndex(size) /\ RealIndex(size) \in Places
      BY <2>2, RealIndices, RingAssumption DEF RingTypeOK, RealIndex
    <3> QED BY <1>2, <2>2, <3>1, RingAssumption DEF Shape, RingTypeOK
  <2>5. Contents' = new
    BY <1>2, <2>1, <2>2, <2>3, <2>4, RingAssumption, SeqEqual DEF Shape, RingTypeOK
  <2> QED BY <1>2, <1>4, <2>5 DEF Window!Push, Shape, Full
<1> QED BY <1>3, <1>4

LEMMA RemoveFrontContents ==
  ASSUME RingTypeOK, RemoveFront
  PROVE  Window!DropFirst
<1>1. RingTypeOK'
  BY RingStepType DEF RingNext
<1>2. Shape /\ Shape'
  BY <1>1, ContentsShape, ShapeAfter
<1>3. /\ size' = size - 1 /\ size > 0 /\ size <= Capacity
      /\ offset' = RealIndex(1) /\ data' = data
  BY RingAssumption DEF RemoveFront, NextOffset, RingTypeOK
<1>4. /\ Contents # <<>> /\ Tail(Contents) \in Seq(Items) /\ Len(Tail(Contents)) = size - 1
      /\ \A i \in 1 .. size - 1 : Tail(Contents)[i] = Contents[i + 1]
  BY <1>2, <1>3 DEF Shape, RingTypeOK
<1>5. \A i \in 1 .. size - 1 : Contents'[i] = Contents[i + 1]
  <2> SUFFICES ASSUME NEW i \in 1 .. size - 1
               PROVE  Contents'[i] = Contents[i + 1]
      OBVIOUS
  <2>1. (offset' + (i - 1)) % Capacity = (offset + ((i - 1) + 1)) % Capacity
    BY <1>3, WrapShift, RingAssumption DEF RingTypeOK, RealIndex
  <2>2. Contents'[i] = data[(offset' + (i - 1)) % Capacity]
    BY <1>2, <1>3 DEF Shape, RingTypeOK
  <2>3. Contents[i + 1] = data[(offset + ((i + 1) - 1)) % Capacity]
    BY <1>2, <1>3 DEF Shape, RingTypeOK
  <2>4. (i + 1) - 1 = (i - 1) + 1
    OBVIOUS
  <2> QED BY <2>1, <2>2, <2>3, <2>4
<1>6. Contents' = Tail(Contents)
  BY <1>2, <1>3, <1>4, <1>5, SeqEqual DEF Shape, RingTypeOK
<1> QED BY <1>4, <1>6 DEF Window!DropFirst

LEMMA RemoveBackContents ==
  ASSUME RingTypeOK, RemoveBack
  PROVE  Window!DropLast
<1> DEFINE new == SubSeq(Contents, 1, Len(Contents) - 1)
<1>1. RingTypeOK'
  BY RingStepType DEF RingNext
<1>2. Shape /\ Shape'
  BY <1>1, ContentsShape, ShapeAfter
<1>3. size' = size - 1 /\ size > 0 /\ offset' = offset /\ data' = data
  BY DEF RemoveBack
<1>4. /\ Contents # <<>> /\ new \in Seq(Items) /\ Len(new) = size - 1
      /\ \A i \in 1 .. size - 1 : new[i] = Contents[i]
  BY <1>2, <1>3 DEF Shape, RingTypeOK
<1>5. \A i \in 1 .. size - 1 : Contents'[i] = Contents[i]
  BY <1>2, <1>3 DEF Shape, RingTypeOK
<1>6. Contents' = new
  BY <1>2, <1>3, <1>4, <1>5, SeqEqual DEF Shape, RingTypeOK
<1> QED BY <1>4, <1>6 DEF Window!DropLast

LEMMA WindowInit == RingInit => Window!Init
<1> SUFFICES ASSUME RingInit
             PROVE  Contents = <<>>
    BY DEF Window!Init
<1>1. Shape
  BY RingInitType, ContentsShape
<1> QED BY <1>1, EmptySeq DEF Shape, RingInit

LEMMA WindowStep == RingTypeOK /\ [RingNext]_ring => [Window!Next]_Contents
<1> SUFFICES ASSUME RingTypeOK, [RingNext]_ring
             PROVE  [Window!Next]_Contents
    OBVIOUS
<1>1. CASE \E item \in Items : AppendItem(item)
  BY <1>1, AppendContents DEF Window!Next
<1>2. CASE RemoveFront
  BY <1>2, RemoveFrontContents DEF Window!Next
<1>3. CASE RemoveBack
  BY <1>3, RemoveBackContents DEF Window!Next
<1>4. CASE UNCHANGED ring
  BY <1>4 DEF ring, Contents, At, RealIndex
<1> QED BY <1>1, <1>2, <1>3, <1>4 DEF RingNext

\* The ring buffer's array, its first place and its count stay in their ranges,
\* whatever is appended and removed.
THEOREM RingTypeCorrect == RingSpec => []RingTypeOK
BY RingInitType, RingStepType, PTL DEF RingSpec

\* A ring buffer of any capacity holds the last items appended and not removed,
\* in their order: every append and removal, wrapped or not, is the window's.
THEOREM RingIsWindow == RingSpec => IsWindow
<1>1. RingSpec => []RingTypeOK
  BY RingTypeCorrect
<1> QED
  BY <1>1, WindowInit, WindowStep, PTL DEF RingSpec, IsWindow, Window!Spec

-----------------------------------------------------------------------------
\* The sample container.

LEMMA EarlyBelowCapacity == Early \in Nat /\ 2 <= Early /\ Early < Capacity
BY SampleAssumption, RingAssumption DEF Early

LEMMA SampleNumbers ==
  ASSUME SampleTypeOK
  PROVE  /\ Unit \in Nat
         /\ Gap \in Nat /\ Scale \div Gap \in Nat
         /\ size > 0 => Back \in Int
<1>1. Unit \in Nat
  <2>1. Early - 1 \in Nat
    BY EarlyBelowCapacity
  <2> QED BY <2>1, SampleAssumption DEF Unit
<1>2. Gap \in Nat \ {0}
  BY SampleAssumption DEF SampleTypeOK, Gap
<1>3. Scale \div Gap \in Nat
  BY <1>2, SampleAssumption
<1>4. size > 0 => Back \in Int
  <2>1. size > 0 => size - 1 \in 0 .. Capacity
    BY RingAssumption DEF SampleTypeOK, RingTypeOK
  <2> QED BY <2>1, RealIndices, SampleAssumption DEF SampleTypeOK, RingTypeOK, Back, At
<1> QED BY <1>1, <1>2, <1>3, <1>4

\* A difference of sizes counts for nothing where there is none.
LEMMA ChangeNatural ==
  ASSUME SampleTypeOK, NEW value \in Items
  PROVE  /\ Change(value) \in Nat
         /\ (size > 0 => Abs(value) = Abs(Back)) => Change(value) = 0
<1> DEFINE difference == Abs(Abs(value) - Abs(Back))
           weight == Scale \div Gap
<1>1. weight \in Nat /\ (size > 0 => Back \in Int)
  BY SampleNumbers
<1>2. /\ size > 0 => difference \in Nat
      /\ size > 0 /\ Abs(value) = Abs(Back) => difference = 0
  BY <1>1, SampleAssumption DEF Abs
<1>3. Change(value) = IF size = 0 \/ size >= Early THEN 0 ELSE difference * weight
  BY DEF Change
<1> HIDE DEF difference, weight
<1>4. CASE size = 0 \/ size >= Early
  BY <1>3, <1>4
<1>5. CASE ~ (size = 0 \/ size >= Early)
  <2>1. size > 0 /\ difference \in Nat
    BY <1>2, <1>5 DEF SampleTypeOK, RingTypeOK
  <2> QED BY <1>1, <1>2, <1>3, <1>5, <2>1
<1> QED BY <1>4, <1>5

LEMMA SampleInitType == SampleInit => SampleTypeOK
BY RingInitType, SampleAssumption DEF SampleInit, SampleTypeOK

LEMMA SampleStepType == SampleTypeOK /\ [SampleNext]_sampleVars => SampleTypeOK'
<1> SUFFICES ASSUME SampleTypeOK, [SampleNext]_sampleVars
             PROVE  SampleTypeOK'
    OBVIOUS
<1>1. ASSUME NEW value \in Items, PutSample(value)
      PROVE  SampleTypeOK'
  <2>1. LimitNow \in Nat \cup {Unset}
    BY DEF SampleTypeOK, LimitNow
  <2>2. CASE /\ AppendItem(value) /\ age' = 0
             /\ change' = change + Change(value)
             /\ flat' = (flat /\ (size > 0 => Abs(value) = Abs(Back)))
    <3>1. RingTypeOK'
      BY <2>2, AppendType DEF SampleTypeOK
    <3>2. change' \in Nat
      BY <2>2, ChangeNatural DEF SampleTypeOK
    <3>3. flat' \in BOOLEAN
      BY Zenon, <2>2
    <3>4. age' \in 0 .. FirstGaps + MaxAge
      BY <2>2, SampleAssumption
    <3>5. limit' \in Nat \cup {Unset}
      BY <1>1, <2>1 DEF PutSample
    <3> QED BY Zenon, <3>1, <3>2, <3>3, <3>4, <3>5 DEF SampleTypeOK
  <2>3. CASE UNCHANGED <<ring, age, change, flat>>
    BY <1>1, <2>1, <2>3 DEF PutSample, SampleTypeOK, RingTypeOK, ring
  <2> QED BY <1>1, <2>2, <2>3 DEF PutSample
<1>2. CASE Wait
  BY <1>2, SampleAssumption DEF Wait, SampleTypeOK, RingTypeOK, ring
<1>3. CASE UNCHANGED sampleVars
  BY <1>3 DEF sampleVars, SampleTypeOK, RingTypeOK, ring
<1> QED BY <1>1, <1>2, <1>3 DEF SampleNext

\* While all samples had the same absolute value, no rate of change was summed
\* up, and a limit that was taken from the samples is zero.
Still == flat => change = 0 /\ limit \in {0, Unset} /\ size <= Early

LEMMA InitStill == SampleInit => Still
<1> SUFFICES ASSUME SampleInit, flat
             PROVE  change = 0 /\ limit \in {0, Unset} /\ size <= Early
    BY DEF Still
<1>1. limit = Unset
  BY Zenon DEF SampleInit
<1> QED BY <1>1, EarlyBelowCapacity DEF SampleInit, RingInit

LEMMA ZeroIsNeverClose ==
  ASSUME SampleTypeOK, NEW value \in Items, LimitNow = 0, size >= Early
  PROVE  ~ Viable(value)
<1> DEFINE distance == Abs(value - Back)
<1>1. distance \in Nat
  <2>1. size > 0
    BY EarlyBelowCapacity DEF SampleTypeOK, RingTypeOK
  <2>2. value \in Int /\ Back \in Int
    BY <2>1, SampleNumbers, SampleAssumption
  <2> QED BY <2>2 DEF Abs
<1>2. Unit \in Nat /\ Gap \in Nat
  BY SampleNumbers
<1>3. Viable(value) => distance * Unit < 0 * Gap
  BY DEF Viable, Close
<1> HIDE DEF distance
<1>4. distance * Unit >= 0 /\ 0 * Gap = 0
  BY <1>1, <1>2
<1>5. distance * Unit \in Nat
  BY <1>1, <1>2
<1> QED BY <1>3, <1>4, <1>5

LEMMA StepStill == SampleTypeOK /\ Still /\ [SampleNext]_sampleVars => Still'
<1> SUFFICES ASSUME SampleTypeOK, Still, [SampleNext]_sampleVars, flat'
             PROVE  change' = 0 /\ limit' \in {0, Unset} /\ size' <= Early
    BY DEF Still
<1>1. ASSUME NEW value \in Items, PutSample(value)
      PROVE  change' = 0 /\ limit' \in {0, Unset} /\ size' <= Early
  <2>1. flat
    BY <1>1 DEF PutSample
  <2>2. change = 0 /\ limit \in {0, Unset} /\ size <= Early
    BY <2>1 DEF Still
  <2>3. LimitNow \in {0, Unset} /\ (size >= Early => LimitNow = 0)
    BY <2>2, SampleAssumption DEF LimitNow
  <2>4. limit' \in {0, Unset}
    BY <1>1, <2>3 DEF PutSample
  <2>5. CASE Viable(value) /\ AppendItem(value) /\ change' = change + Change(value)
             /\ flat' = (flat /\ (size > 0 => Abs(value) = Abs(Back)))
    <3>1. ~ (size >= Early)
      BY <2>3, <2>5, ZeroIsNeverClose
    <3>2. size' = size + 1
      BY <2>5, <3>1, EarlyBelowCapacity DEF AppendItem, Full, SampleTypeOK, RingTypeOK
    <3>3. change' = 0
      <4>1. size > 0 => Abs(value) = Abs(Back)
        BY Zenon, <2>5
      <4>2. Change(value) = 0
        BY <4>1, ChangeNatural
      <4> QED BY <2>2, <2>5, <4>2
    <3> QED BY <2>2, <2>4, <3>1, <3>2, <3>3, EarlyBelowCapacity
               DEF SampleTypeOK, RingTypeOK
  <2>6. CASE UNCHANGED <<ring, age, change, flat>>
    BY <2>2, <2>4, <2>6 DEF ring
  <2> QED BY <1>1, <2>5, <2>6 DEF PutSample
<1>2. CASE Wait \/ UNCHANGED sampleVars
  BY <1>2 DEF Wait, sampleVars, ring, Still
<1> QED BY <1>1, <1>2 DEF SampleNext

\* Whatever the samples, limits and times, a container without a configured
\* limit whose first samples are equal up to their sign never takes another.
THEOREM FlatStartFreezesForGood == SampleSpec => []FlatStartFreezes
<1>1. SampleSpec => [](SampleTypeOK /\ Still)
  BY SampleInitType, SampleStepType, InitStill, StepStill, PTL DEF SampleSpec
<1>2. Still => FlatStartFreezes
  BY DEF Still, FlatStartFreezes
<1> QED BY <1>1, <1>2, PTL

\* A limit that is not configured is twice a sum of rates, so it is zero or two
\* at least.
LimitKnown == limit \in Limits \cup {Unset} \/ \E n \in Nat : limit = 2 * n

LEMMA StepLimit ==
  SampleTypeOK /\ LimitKnown /\ [SampleNext]_sampleVars => LimitKnown'
<1> SUFFICES ASSUME SampleTypeOK, LimitKnown, [SampleNext]_sampleVars PROVE LimitKnown'
  OBVIOUS
<1>1. ASSUME NEW value \in Items, PutSample(value) PROVE LimitKnown'
  BY <1>1 DEF PutSample, LimitNow, LimitKnown, SampleTypeOK
<1>2. CASE Wait \/ UNCHANGED sampleVars
  BY <1>2 DEF Wait, sampleVars, LimitKnown
<1> QED BY <1>1, <1>2 DEF SampleNext

\* A bound on how far off a sample may be that a container with a limit of two
\* or a configured one takes after MaxAge ticks.
Waited == \A v, w \in Items : \A l \in (Limits \cup {2}) \ {0} :
            Abs(v - w) * Unit < l * MaxAge

\* However far a sensor's value has moved, whatever samples were taken and with
\* whatever limit other than zero, it is accepted after a wait that is long
\* enough for the smallest limit.
THEOREM RecoversAfterWait == ASSUME Waited PROVE SampleSpec => []Recovers
<1>1. SampleTypeOK /\ LimitKnown => Recovers
  <2> SUFFICES ASSUME SampleTypeOK, LimitKnown, limit \notin {0, Unset}, size >= Early,
                      age = MaxAge, NEW value \in Items
               PROVE  Viable(value)
    BY DEF Recovers
  <2> DEFINE distance == Abs(value - Back)
  <2>1. Back \in Items
    <3>1. size > 0
      BY EarlyBelowCapacity DEF SampleTypeOK, RingTypeOK
    <3>2. size - 1 \in 0 .. Capacity
      BY <3>1, RingAssumption DEF SampleTypeOK, RingTypeOK
    <3> QED BY <3>2, RealIndices DEF SampleTypeOK, RingTypeOK, Back, At
  <2>2. distance \in Nat
    <3>1. value \in Int /\ Back \in Int
      BY <2>1, SampleAssumption
    <3> QED BY <3>1 DEF Abs
  <2>3. Unit \in Nat /\ Gap \in Nat /\ Gap >= MaxAge /\ MaxAge \in Nat
    BY SampleNumbers, SampleAssumption DEF Gap
  <2>4. LimitNow = limit /\ limit \in Nat
    BY SampleAssumption DEF LimitNow, SampleTypeOK
  <2>5. PICK l \in (Limits \cup {2}) \ {0} : l \in Nat /\ l <= limit
    <3>1. CASE limit \in Limits
      BY <2>4, <3>1
    <3>2. CASE \E n \in Nat : limit = 2 * n
      <4>1. 2 <= limit
        BY <3>2
      <4> QED BY <4>1
    <3> QED BY <3>1, <3>2 DEF LimitKnown
  <2> HIDE DEF distance
  <2>6. distance * Unit < l * MaxAge
    BY <2>1 DEF Waited, distance
  <2>7. l * MaxAge <= limit * Gap
    <3>1. l * MaxAge <= limit * MaxAge
      <4>1. PICK d \in Nat : limit = l + d
        <5>1. limit - l \in Nat /\ limit = l + (limit - l)
          BY <2>4, <2>5
        <5> QED BY <5>1
      <4>2. limit * MaxAge = l * MaxAge + d * MaxAge /\ d * MaxAge \in Nat
        BY <2>3, <2>5, <4>1
      <4> QED BY <2>3, <2>5, <4>2
    <3>2. limit * MaxAge <= limit * Gap
      <4>1. PICK d \in Nat : Gap = MaxAge + d
        <5>1. Gap - MaxAge \in Nat /\ Gap = MaxAge + (Gap - MaxAge)
          BY <2>3
        <5> QED BY <5>1
      <4>2. limit * Gap = limit * MaxAge + limit * d /\ limit * d \in Nat
        BY <2>3, <2>4, <4>1
      <4> QED BY <2>3, <2>4, <4>2
    <3> QED BY <2>3, <2>4, <2>5, <3>1, <3>2
  <2>8. distance * Unit < LimitNow * Gap
    <3>1. /\ distance * Unit \in Int /\ l * MaxAge \in Int /\ limit * Gap \in Int
      BY <2>2, <2>3, <2>4, <2>5
    <3> QED BY <2>4, <2>6, <2>7, <3>1
  <2> QED BY <2>8 DEF Viable, Close, distance
<1>2. SampleInit => LimitKnown
  BY DEF SampleInit, LimitKnown
<1> QED BY <1>1, <1>2, StepLimit, SampleInitType, SampleStepType, PTL DEF SampleSpec

\* The container uses its ring buffer as one: the samples it keeps are the last
\* it accepted.
THEOREM SamplesAreWindow == SampleSpec => IsWindow
<1>1. SampleInit => RingInit
  BY DEF SampleInit
<1>2. [SampleNext]_sampleVars => [RingNext]_ring
  BY DEF SampleNext, PutSample, Wait, sampleVars, RingNext
<1> QED BY <1>1, <1>2, RingIsWindow, PTL DEF SampleSpec, RingSpec

-----------------------------------------------------------------------------
\* The sensor and the switch.

\* The error count is lifted only by iterations without an answer, and the
\* re-initialisation only lowers it.
Counted == errors <= silent

\* The types of the truth values, and of the rest.
Flags ==
  /\ accepts \in BOOLEAN /\ present \in BOOLEAN /\ posted \in BOOLEAN
  /\ posted => present

Values ==
  /\ config \in Configs
  /\ answers \in {"well", "oddly", "not"}
  /\ errors \in 0 .. MaxErrors
  /\ silent \in 0 .. MaxErrors
  /\ reading \in Readings
  /\ target \in Targets \cup {Odd}
  /\ previous \in Levels \cup {None}
  /\ since \in 0 .. Stay
  /\ level \in Levels

Inv == Flags /\ Values /\ Counted

LEMMA InvType == Inv => LoopTypeOK
BY Zenon DEF Inv, Flags, Values, LoopTypeOK

LEMMA InitInv == LoopInit => Inv
<1> SUFFICES ASSUME LoopInit
             PROVE  Inv
    OBVIOUS
<1>1. Flags
  BY Zenon DEF LoopInit, Flags
<1>2. Values /\ Counted
  BY LoopAssumption DEF LoopInit, Values, Counted
<1> QED BY <1>1, <1>2 DEF Inv

LEMMA StepFlags == Flags /\ [LoopNext]_loopVars => Flags'
<1> SUFFICES ASSUME Flags, [LoopNext]_loopVars
             PROVE  Flags'
    OBVIOUS
<1> USE DEF Flags
<1>1. CASE Create
  BY Zenon, <1>1 DEF Create, NewSensor
<1>2. CASE Remove
  BY Zenon, <1>2 DEF Remove
<1>3. CASE Iterate \/ Reinit \/ (ReinitAstray /\ ~ Reboot)
  <2>1. UNCHANGED <<accepts, present, posted>>
    BY <1>3 DEF Iterate, Reinit, ReinitAstray
  <2> QED BY Zenon, <2>1
<1>4. CASE Update
  BY Zenon, <1>4 DEF Update
<1>5. CASE SetTarget \/ SensorChanges \/ OtherWrite \/ Tick
  BY <1>5 DEF SetTarget, SensorChanges, OtherWrite, Tick, sensor
<1>6. CASE DeviceChanges
  BY <1>6 DEF DeviceChanges, sensor
<1>7. CASE Reboot
  BY Zenon, <1>7 DEF Reboot, NewSensor
<1>8. CASE UNCHANGED loopVars
  BY <1>8 DEF loopVars, sensor
<1> QED
  BY <1>1, <1>2, <1>3, <1>4, <1>5, <1>6, <1>7, <1>8 DEF LoopNext, ReinitAstray

LEMMA StepValues == Values /\ Counted /\ [LoopNext]_loopVars => (Values /\ Counted)'
<1> SUFFICES ASSUME Values, Counted, [LoopNext]_loopVars
             PROVE  Values' /\ Counted'
    OBVIOUS
<1> USE LoopAssumption DEF Values, Counted
<1>1. CASE Create
  BY <1>1 DEF Create, NewSensor, switch
<1>2. CASE Remove
  BY <1>2 DEF Remove, switch
<1>3. CASE Iterate
  BY <1>3 DEF Iterate, BelowLimit, ReadErrors, switch
<1>4. CASE Reinit \/ (ReinitAstray /\ ~ Reboot)
  BY <1>4 DEF Reinit, ReinitAstray, switch
<1>5. CASE Update
  <2>1. Bound \in Levels
    BY DEF Bound, Levels
  <2>2. level' \in Levels /\ since' \in 0 .. Stay
    BY <1>5, <2>1 DEF Update, React, EnableSafety, WriteLevel, Configs
  <2>3. previous' \in Levels \cup {None}
    BY <1>5, <2>1 DEF Update, React, EnableSafety
  <2> QED BY <1>5, <2>2, <2>3 DEF Update
<1>6. CASE SetTarget
  BY <1>6 DEF SetTarget, sensor
<1>7. CASE SensorChanges \/ DeviceChanges \/ OtherWrite
  BY <1>7 DEF SensorChanges, DeviceChanges, OtherWrite, sensor, switch
<1>8. CASE Tick
  BY <1>8 DEF Tick, sensor
<1>9. CASE Reboot
  BY <1>9 DEF Reboot, NewSensor
<1>10. CASE UNCHANGED loopVars
  BY <1>10 DEF loopVars, sensor, switch
<1> QED
  BY <1>1, <1>2, <1>3, <1>4, <1>5, <1>6, <1>7, <1>8, <1>9, <1>10
     DEF LoopNext, ReinitAstray

LEMMA StepInv == Inv /\ [LoopNext]_loopVars => Inv'
BY StepFlags, StepValues DEF Inv

\* The types of the sensor's and the switch's state, whatever is configured and
\* in whichever order sensor, switch, requests and resets take their steps.
THEOREM LoopTypeCorrect == LoopSpec => []LoopTypeOK
BY InitInv, StepInv, InvType, PTL DEF LoopSpec

\* read_value refuses a sensor only after as many iterations in a row as the
\* error limit without an answer, for every limit.
THEOREM RefusalEarned == LoopSpec => []RefusedIfSilent
<1>1. Inv => RefusedIfSilent
  BY LoopAssumption DEF Inv, Values, Counted, RefusedIfSilent, Readable
<1> QED BY <1>1, InitInv, StepInv, PTL DEF LoopSpec

\* While a sensor is silent, each iteration adds an error, and nothing takes one
\* back while it can still be read: neither the switch, the requests nor the
\* time between two iterations give it another chance, whichever its driver.
\* Only a re-initialisation does, and only once the sensor was refused.
SilenceCounts ==
  posted /\ posted' /\ answers = "not" /\ answers' = "not"
    => /\ Readable => errors <= errors'
       /\ Iterate => errors' = errors + 1
       /\ errors' < errors => Reinit \/ ReinitAstray

\* Whatever steps come in between, the iterations of a silent sensor add up to
\* its refusal, for every limit; what Noticed needs of the steps.
THEOREM SilenceAddsUp == LoopSpec => [][SilenceCounts]_loopVars
<1>1. Inv /\ [LoopNext]_loopVars => [SilenceCounts]_loopVars
  <2> SUFFICES ASSUME Inv, LoopNext, posted, posted',
                      answers = "not", answers' = "not"
               PROVE  /\ Readable => errors <= errors'
                      /\ Iterate => errors' = errors + 1
                      /\ errors' < errors => Reinit \/ ReinitAstray
    BY DEF SilenceCounts
  <2>1. errors \in 0 .. MaxErrors /\ MaxErrors \in Nat
    BY LoopAssumption DEF Inv, Values
  <2>2. Iterate => errors' = errors + 1
    BY DEF Iterate, ReadErrors
  <2>3. ~ Remove /\ ~ Reboot /\ ~ Create
    <3>1. ~ Remove /\ ~ Reboot
      BY Zenon DEF Remove, Reboot, NewSensor
    <3>2. ~ Create
      BY Zenon DEF Create, NewSensor
    <3> QED BY <3>1, <3>2
  <2>4. Update \/ SetTarget \/ SensorChanges \/ DeviceChanges \/ OtherWrite \/ Tick
          => errors' = errors
    BY DEF Update, SetTarget, SensorChanges, DeviceChanges, OtherWrite, Tick, sensor
  <2>5. Reinit \/ ReinitAstray => ~ Readable
    BY <2>1 DEF Reinit, ReinitAstray, BelowLimit, Readable
  <2> QED BY <2>1, <2>2, <2>3, <2>4, <2>5 DEF LoopNext
<1> QED BY <1>1, InitInv, StepInv, PTL DEF LoopSpec

-----------------------------------------------------------------------------
LEMMA Clamped ==
  ASSUME NEW n \in Int, NEW most \in Nat
  PROVE  Clamp(n, most) \in 0 .. most
BY DEF Clamp

LEMMA RequestTypes ==
  ASSUME NEW request \in Requests
  PROVE  request.unit \in {"pwm", "percent"} /\ request.value \in Int
<1>1. PwmValues \subseteq Int /\ Percents \subseteq Int
  BY PinAssumption
<1>2. CASE request \in [unit : {"pwm"}, value : PwmValues]
  <2>1. request.unit = "pwm" /\ request.value \in PwmValues
    BY <1>2
  <2> QED
    BY <1>1, <2>1
<1>3. CASE request \in [unit : {"percent"}, value : Percents]
  <2>1. request.unit = "percent" /\ request.value \in Percents
    BY <1>3
  <2> QED
    BY <1>1, <2>1
<1> QED
  BY <1>2, <1>3 DEF Requests

LEMMA DutyInRange ==
  ASSUME PinTypeOK, NEW request \in Requests
  PROVE  Duty(request) \in 0 .. MaxDuty
<1>1. MaxDuty \in Nat /\ PwmValues \subseteq Nat /\ Percents \subseteq Int
  BY PinAssumption
<1>2. /\ request.unit \in {"pwm", "percent"} /\ request.value \in Int
  BY <1>1, RequestTypes
<1>3. MaxDuty \div 100 \in Int
  BY <1>1
<1>4. Counts(Clamp(request.value, 100)) \in Int
  <2>1. Clamp(request.value, 100) \in 0 .. 100
    BY <1>2, Clamped
  <2> HIDE DEF Clamp
  <2>2. \A d, c \in Int : d * c \in Int
    OBVIOUS
  <2> QED
    BY <1>3, <2>1, <2>2 DEF Counts
<1>5. (IF request.unit = "pwm" THEN request.value
       ELSE Counts(Clamp(request.value, 100))) \in Int
  BY <1>2, <1>4
<1>6. Clamp(IF request.unit = "pwm" THEN request.value
            ELSE Counts(Clamp(request.value, 100)), MaxDuty) \in 0 .. MaxDuty
  BY <1>1, <1>5, Clamped
<1> QED
  BY <1>1, <1>6 DEF Duty

\* While a timed pin is owed time that nothing has cut short, no reset is under
\* way, and the task that will turn it off, of the write or yet to be posted by
\* it, is not due before the time is over.
Owing ==
  /\ owed > 0 => there /\ type = "timed"
  /\ writing # "posted" => newTimer = NoTimer
  /\ owed > 0 /\ ~ overtaken =>
       /\ On /\ running = 0 /\ stale = 0
       /\ writing = "idle" => timer # NoTimer /\ timer >= owed
       /\ writing = "on" => delay >= owed
       /\ writing = "posted" => newTimer # NoTimer /\ newTimer >= owed

LEMMA SoonerTypes ==
  ASSUME NEW ticks \in TimerValues
  PROVE  /\ Sooner(ticks) \in TimerValues
         /\ Sooner(ticks) = NoTimer <=> ticks = NoTimer
         /\ ticks # NoTimer => ticks \in Nat /\ Sooner(ticks) \in Nat
         /\ ticks # NoTimer => Sooner(ticks) = IF ticks = 0 THEN 0 ELSE ticks - 1
BY PinAssumption DEF Sooner, TimerValues

LEMMA PinStepTypes == PinTypeOK /\ [PinNext]_pinVars => PinTypeOK'
<1> SUFFICES ASSUME PinTypeOK, [PinNext]_pinVars PROVE PinTypeOK'
  OBVIOUS
<1>1. /\ MaxDuty \in Nat /\ Threads \in Nat /\ Delays \subseteq Nat
      /\ PwmValues \subseteq Nat /\ Percents \subseteq Int
      /\ NoTimer \in TimerValues /\ Nat \subseteq TimerValues
  BY PinAssumption DEF TimerValues
<1>2. CASE CreatePin
  <2>1. /\ type' \in {"output", "pwm", "timed"} /\ invert' \in BOOLEAN /\ there'
        /\ duty' = 0 /\ owed' = 0 /\ ~ overtaken'
        /\ given'.unit = "pwm" /\ given'.value \in {0, MaxDuty}
        /\ leftOn' = (pinLevel # invert')
        /\ UNCHANGED <<pinLevel, writing, delay, timer, newTimer, running, stale>>
    BY <1>2 DEF CreatePin, write, timers
  <2>2. duty' \in 0 .. MaxDuty /\ owed' \in Nat /\ given'.value \in Int
    BY <1>1, <2>1
  <2>3. leftOn' \in BOOLEAN /\ overtaken' \in BOOLEAN /\ there' \in BOOLEAN
    BY <1>2 DEF CreatePin
  <2> QED
    BY <2>1, <2>2, <2>3 DEF PinTypeOK, TimerValues
<1>3. CASE RemovePin
  <2>1. /\ there' \in BOOLEAN /\ leftOn' \in BOOLEAN /\ writing' = "idle"
        /\ timer' = NoTimer /\ owed' = 0 /\ running' = 0 /\ stale' = stale + running
        /\ UNCHANGED <<type, invert, pinLevel, duty, writing, delay, newTimer, overtaken, given>>
    BY <1>3 DEF RemovePin, Writable, On, pinConfig, write
  <2>2. running' \in Nat /\ stale' \in Nat /\ running' + stale' <= Threads /\ owed' \in Nat
    BY <1>1, <2>1 DEF PinTypeOK
  <2> QED
    BY <1>1, <2>1, <2>2 DEF PinTypeOK, TimerValues
<1>4. CASE PinPowerCycle
  <2>1. /\ there' \in BOOLEAN /\ pinLevel' \in BOOLEAN /\ overtaken' \in BOOLEAN
        /\ leftOn' \in BOOLEAN
        /\ duty' = 0 /\ writing' = "idle" /\ delay' = 0 /\ timer' = NoTimer
        /\ newTimer' = NoTimer /\ running' = 0 /\ stale' = 0 /\ owed' = 0
        /\ UNCHANGED <<type, invert, given>>
    BY <1>4 DEF PinPowerCycle, pinConfig
  <2>2. duty' \in 0 .. MaxDuty /\ delay' \in Nat /\ owed' \in Nat
        /\ running' \in Nat /\ stale' \in Nat /\ running' + stale' <= Threads
    BY <1>1, <2>1
  <2> QED
    BY <1>1, <2>1, <2>2 DEF PinTypeOK, TimerValues
<1>5. ASSUME NEW s \in Delays, TurnOn(s) PROVE PinTypeOK'
  <2>1. s \in Nat /\ (~ invert) \in BOOLEAN /\ (running + stale > 0) \in BOOLEAN
    BY <1>1
  <2> QED
    BY <1>5, <2>1 DEF TurnOn, PinTypeOK, Writable, pinConfig, timers
<1>6. CASE Post
  BY <1>1, <1>6 DEF Post, PinTypeOK, DueThen, pinConfig, told
<1>7. CASE PostFails
  BY <1>1, <1>7 DEF PostFails, PinTypeOK, pinConfig, timers
<1>8. CASE Swap
  BY <1>1, <1>8 DEF Swap, TakeNew, PinTypeOK, pinConfig, told
<1>9. CASE Pick
  <2>1. timer' \in TimerValues /\ newTimer' \in TimerValues
    BY <1>1, <1>9 DEF Pick, PinTypeOK
  <2>2. overtaken' \in BOOLEAN
    BY <1>9 DEF Pick, PinTypeOK
  <2>3. running' \in Nat /\ running' + stale <= Threads
    BY <1>1, <1>9 DEF Pick, PinTypeOK
  <2> QED
    BY <1>9, <2>1, <2>2, <2>3 DEF Pick, PinTypeOK, pinConfig, write
<1>10. CASE Reset
  BY <1>1, <1>10 DEF Reset, PinTypeOK, pinConfig, write, told
<1>11. CASE StaleReset
  BY <1>1, <1>11 DEF StaleReset, PinTypeOK, pinConfig, write
<1>12. ASSUME NEW on \in BOOLEAN, WriteOutput(on) PROVE PinTypeOK'
  BY <1>12 DEF WriteOutput, PinTypeOK, pinConfig, write, timers
<1>13. ASSUME NEW request \in Requests, WritePwm(request) PROVE PinTypeOK'
  <2> QED
    BY <1>13, RequestTypes, DutyInRange DEF WritePwm, PinTypeOK, pinConfig, write, timers, told
<1>14. CASE PinTick
  <2>1. owed \in TimerValues /\ owed # NoTimer
    BY PinAssumption DEF PinTypeOK, TimerValues
  <2>2. timer' \in TimerValues /\ newTimer' \in TimerValues /\ owed' \in Nat
    BY <1>14, <2>1, SoonerTypes DEF PinTick, PinTypeOK
  <2> QED
    BY <1>14, <2>2 DEF PinTick, PinTypeOK, pinConfig, write
<1>15. CASE UNCHANGED pinVars
  BY <1>15 DEF pinVars, PinTypeOK, pinConfig, write, timers, told, TimerValues
<1> QED
  BY <1>2, <1>3, <1>4, <1>5, <1>6, <1>7, <1>8, <1>9, <1>10, <1>11, <1>12, <1>13, <1>14,
     <1>15 DEF PinNext, Work, Request

LEMMA PinStepOwing == PinTypeOK /\ Owing /\ [PinNext]_pinVars => Owing'
<1> SUFFICES ASSUME PinTypeOK, Owing, [PinNext]_pinVars PROVE Owing'
  OBVIOUS
<1>1. /\ running \in Nat /\ stale \in Nat /\ owed \in Nat /\ delay \in Nat
      /\ NoTimer \notin Nat /\ Delays \subseteq Nat /\ 0 \in Nat
      /\ (timer \in Nat \/ timer = NoTimer) /\ (newTimer \in Nat \/ newTimer = NoTimer)
  BY PinAssumption DEF PinTypeOK, TimerValues
<1>2. CASE CreatePin
  BY <1>1, <1>2 DEF CreatePin, PinTypeOK, Owing, write, timers
<1>3. CASE RemovePin
  BY <1>1, <1>3 DEF RemovePin, Owing, Writable
<1>4. CASE PinPowerCycle
  BY <1>1, <1>4 DEF PinPowerCycle, Owing
<1>5. ASSUME NEW s \in Delays, TurnOn(s) PROVE Owing'
  <2>1. /\ s \in Nat /\ (running + stale > 0 => overtaken')
        /\ UNCHANGED <<timer, newTimer, running, stale, type, there, invert>>
        /\ there /\ type = "timed" /\ writing = "idle" /\ writing' = "on"
        /\ delay' = s /\ owed' = s /\ pinLevel' = ~ invert
    BY <1>1, <1>5 DEF TurnOn, Writable, timers, pinConfig
  <2>2. ~ overtaken' => running' = 0 /\ stale' = 0
    BY <1>1, <2>1
  <2>3. On'
    BY <2>1 DEF On, PinTypeOK
  <2> QED
    BY <2>1, <2>2, <2>3, <1>1 DEF Owing
<1>6. CASE Post
  BY <1>1, <1>6 DEF Post, DueThen, Owing, On, pinConfig, told
<1>7. CASE PostFails
  BY <1>1, <1>7 DEF PostFails, Owing, timers
<1>8. CASE Swap
  BY <1>1, <1>8 DEF Swap, TakeNew, Owing, On, pinConfig, told
<1>9. CASE Pick
  <2>1. UNCHANGED <<type, invert, there, pinLevel, writing, delay, stale, owed>>
    BY <1>9 DEF Pick, pinConfig, write
  <2>2. CASE /\ timer = 0 /\ timer' = NoTimer /\ UNCHANGED newTimer
             /\ overtaken \/ writing # "idle" => overtaken'
    <3>1. ~ (owed > 0 /\ ~ overtaken')
      BY <1>1, <2>2 DEF Owing
    <3> QED
      BY <2>1, <2>2, <3>1 DEF Owing
  <2>3. CASE newTimer = 0 /\ newTimer' = NoTimer /\ UNCHANGED <<timer, overtaken>>
    <3>1. writing = "posted"
      BY <1>1, <2>3 DEF Owing
    <3>2. ~ (owed > 0 /\ ~ overtaken)
      BY <1>1, <2>3, <3>1 DEF Owing
    <3> QED
      BY <2>1, <2>3, <3>2 DEF Owing
  <2> QED
    <3>1. overtaken' = (overtaken \/ writing # "idle") =>
            (overtaken \/ writing # "idle" => overtaken')
      OBVIOUS
    <3> QED
      BY <1>9, <2>2, <2>3, <3>1 DEF Pick
<1>10. CASE Reset
  BY <1>1, <1>10 DEF Reset, Owing, pinConfig, write, told
<1>11. CASE StaleReset
  BY <1>1, <1>11 DEF StaleReset, Owing, pinConfig, write
<1>12. ASSUME NEW on \in BOOLEAN, WriteOutput(on) PROVE Owing'
  BY <1>1, <1>12 DEF WriteOutput, Owing, pinConfig, write, timers
<1>13. ASSUME NEW request \in Requests, WritePwm(request) PROVE Owing'
  BY <1>1, <1>13 DEF WritePwm, Owing, On, pinConfig, write, timers, told
<1>14. CASE PinTick
  <2>1. /\ timer' = Sooner(timer) /\ newTimer' = Sooner(newTimer) /\ owed' = Sooner(owed)
        /\ UNCHANGED <<type, invert, there, pinLevel, writing, delay, running, stale, overtaken>>
    BY <1>14 DEF PinTick, pinConfig, write
  <2>2. /\ owed # NoTimer /\ owed' = IF owed = 0 THEN 0 ELSE owed - 1
        /\ newTimer = NoTimer => newTimer' = NoTimer
    BY <1>1, <2>1 DEF Sooner
  <2>3. owed' > 0 => owed > 0 /\ owed' = owed - 1
    BY <1>1, <2>2
  <2>4. \A ticks \in Nat : Sooner(ticks) = IF ticks = 0 THEN 0 ELSE ticks - 1
    BY <1>1 DEF Sooner
  <2>5. \A ticks \in Nat : owed > 0 /\ ticks >= owed => /\ Sooner(ticks) \in Nat
                                                       /\ Sooner(ticks) >= owed - 1
    BY <1>1, <2>4
  <2>6. ASSUME owed' > 0, ~ overtaken'
        PROVE  /\ On' /\ running' = 0 /\ stale' = 0
               /\ writing' = "idle" => timer' # NoTimer /\ timer' >= owed'
               /\ writing' = "on" => delay' >= owed'
               /\ writing' = "posted" => newTimer' # NoTimer /\ newTimer' >= owed'
    BY <1>1, <2>1, <2>3, <2>5, <2>6 DEF Owing, On, PinTypeOK, TimerValues
  <2> QED
    BY <2>1, <2>2, <2>3, <2>6 DEF Owing
<1>15. CASE UNCHANGED pinVars
  BY <1>15 DEF pinVars, Owing, On, pinConfig, write, timers, told
<1> QED
  BY <1>2, <1>3, <1>4, <1>5, <1>6, <1>7, <1>8, <1>9, <1>10, <1>11, <1>12, <1>13, <1>14,
     <1>15 DEF PinNext, Work, Request

\* A timed pin that a write has turned on has an end in sight: the write is not
\* over, a worker is about to turn it off, or its task is in the pool, due no
\* later than asked for.
EndInSight ==
  there /\ type = "timed" /\ On /\ ~ leftOn =>
    \/ writing = "on"
    \/ running > 0
    \/ writing = "posted" /\ newTimer \in 0 .. delay
    \/ writing = "idle" /\ timer \in 0 .. delay

LEMMA PinStepEnds == PinTypeOK /\ EndInSight /\ [PinNext]_pinVars => EndInSight'
<1> SUFFICES ASSUME PinTypeOK, EndInSight, [PinNext]_pinVars,
                    there', type' = "timed", On', ~ leftOn'
             PROVE  \/ writing' = "on"
                    \/ running' > 0
                    \/ writing' = "posted" /\ newTimer' \in 0 .. delay'
                    \/ writing' = "idle" /\ timer' \in 0 .. delay'
  BY DEF EndInSight
<1> DEFINE Ends == \/ writing' = "on"
                   \/ running' > 0
                   \/ writing' = "posted" /\ newTimer' \in 0 .. delay'
                   \/ writing' = "idle" /\ timer' \in 0 .. delay'
<1>1. /\ running \in Nat /\ stale \in Nat /\ delay \in Nat /\ NoTimer \notin Nat
      /\ writing \in {"idle", "on", "posted"}
  BY PinAssumption DEF PinTypeOK
<1>2. CASE CreatePin
  BY <1>2 DEF CreatePin, On
<1>3. CASE RemovePin \/ PinPowerCycle
  BY <1>3 DEF RemovePin, PinPowerCycle
<1>4. ASSUME NEW s \in Delays, TurnOn(s) PROVE Ends
  BY <1>4 DEF TurnOn
<1>5. CASE Post
  BY <1>1, <1>5 DEF Post, DueThen
<1>6. CASE PostFails \/ Reset
  BY <1>6 DEF PostFails, Reset, On, PinTypeOK, pinConfig
<1>7. CASE Swap
  BY <1>1, <1>7 DEF Swap, TakeNew, EndInSight, On, pinConfig, told
<1>8. CASE Pick
  BY <1>1, <1>8 DEF Pick
<1>9. CASE StaleReset
  BY <1>9 DEF StaleReset, On, pinConfig
<1>10. ASSUME NEW on \in BOOLEAN, WriteOutput(on) PROVE Ends
  BY <1>10 DEF WriteOutput, pinConfig
<1>11. ASSUME NEW request \in Requests, WritePwm(request) PROVE Ends
  BY <1>11 DEF WritePwm, pinConfig
<1>12. CASE PinTick
  <2>1. \A ticks : ticks \in 0 .. delay => Sooner(ticks) \in 0 .. delay
    BY <1>1 DEF Sooner
  <2>2. /\ timer' = Sooner(timer) /\ newTimer' = Sooner(newTimer)
        /\ UNCHANGED <<type, invert, there, pinLevel, writing, delay, running, leftOn>>
    BY <1>12 DEF PinTick, pinConfig, write
  <2> QED BY <1>1, <2>1, <2>2 DEF EndInSight, On
<1>13. CASE UNCHANGED pinVars
  BY <1>1, <1>13 DEF pinVars, EndInSight, On, pinConfig, write, timers, told
<1> QED
  BY <1>2, <1>3, <1>4, <1>5, <1>6, <1>7, <1>8, <1>9, <1>10, <1>11, <1>12, <1>13
     DEF PinNext, Work, Request

LEMMA PinInvariant == PinSpec => [](PinTypeOK /\ Owing)
<1>1. PinInit => PinTypeOK /\ Owing
  <2> SUFFICES ASSUME PinInit PROVE PinTypeOK /\ Owing
    OBVIOUS
  <2>1. /\ MaxDuty \in Nat /\ Threads \in Nat /\ NoTimer \in TimerValues
    BY PinAssumption DEF TimerValues
  <2>2. /\ duty \in 0 .. MaxDuty /\ running + stale <= Threads /\ owed = 0
    BY <2>1 DEF PinInit
  <2>3. given.unit = "pwm" /\ given.value = 0
    BY DEF PinInit
  <2>4. PinTypeOK
    <3>1. /\ type = "timed" /\ invert = FALSE /\ there = FALSE /\ pinLevel = FALSE
          /\ writing = "idle" /\ overtaken = FALSE /\ leftOn = FALSE
          /\ delay = 0 /\ timer = NoTimer /\ newTimer = NoTimer /\ running = 0 /\ stale = 0
      BY DEF PinInit
    <3>2. delay \in Nat /\ running \in Nat /\ stale \in Nat /\ owed \in Nat
      BY <2>2, <3>1
    <3>3. /\ invert \in BOOLEAN /\ there \in BOOLEAN /\ pinLevel \in BOOLEAN
          /\ overtaken \in BOOLEAN /\ leftOn \in BOOLEAN
      BY <3>1
    <3>4. given.unit \in {"pwm", "percent"} /\ given.value \in Int
      BY <2>3
    <3>5. type \in {"output", "pwm", "timed"} /\ writing \in {"idle", "on", "posted"}
      BY <3>1
    <3>6. writing # "idle" => there
      BY <3>1
    <3> QED
      BY <2>1, <2>2, <3>1, <3>2, <3>3, <3>4, <3>5, <3>6, Zenon DEF PinTypeOK
  <2> QED
    BY <2>2, <2>4 DEF PinInit, Owing
<1> QED
  BY <1>1, PinStepTypes, PinStepOwing, PTL DEF PinSpec

\* The pin's and the timers' state keeps its types, whatever is configured.
THEOREM PinTypesCorrect == PinSpec => []PinTypeOK
BY PinInvariant, PTL

\* A timed pin is on for the time the last write promised, for any delays and
\* any number of threads, unless a reset was taken before the write was done.
THEOREM PromiseKept == PinSpec => []OwedIsOn
<1>1. Owing => OwedIsOn
  BY DEF Owing, OwedIsOn
<1> QED
  BY <1>1, PinInvariant, PTL

\* Whoever writes, and wherever a worker or a write stands, a timed pin that a
\* write turned on is about to be turned off: what GoesOff needs besides fairness.
THEOREM OnHasAnEnd == PinSpec => []EndInSight
<1>1. PinInit => EndInSight
  BY DEF PinInit, EndInSight
<1> QED
  BY <1>1, PinInvariant, PinStepEnds, PTL DEF PinSpec

-----------------------------------------------------------------------------
\* A percentage of the hundredth part, of what is left over by it.
LEMMA Hundredths ==
  ASSUME NEW most \in Nat, NEW c \in 0 .. 100
  PROVE  LET counts == (most \div 100) * c
         IN  /\ counts \in 0 .. most
             /\ 0 <= c * most - 100 * counts /\ c * most - 100 * counts <= 100 * c
<1> DEFINE d == most \div 100
           r == most % 100
<1>1. d \in Nat /\ r \in 0 .. 99 /\ most = 100 * d + r
  OBVIOUS
<1> HIDE DEF d, r
<1>2. d * c \in Nat /\ c * d = d * c
  BY <1>1
<1>3. c * most = 100 * (d * c) + c * r
  <2>1. c * (100 * d + r) = c * (100 * d) + c * r
    BY <1>1
  <2>2. c * (100 * d) = 100 * (d * c)
    BY <1>1
  <2> QED
    BY <1>1, <2>1, <2>2
<1>4. c * r \in Nat /\ c * r <= 100 * c
  <2>1. \A a, b \in Nat : a * b \in Nat /\ b * a = a * b
    OBVIOUS
  <2>2. c * r + c * (100 - r) = 100 * c
    BY <1>1
  <2>3. c * (100 - r) \in Nat /\ c * r \in Nat
    BY <1>1, <2>1
  <2> QED
    BY <2>2, <2>3
<1>5. d * c <= most
  <2>1. d * c + d * (100 - c) = 100 * d
    BY <1>1
  <2>2. d * (100 - c) \in Nat
    BY <1>1
  <2> QED
    BY <1>1, <1>2, <2>1, <2>2
<1> QED
  BY <1>1, <1>2, <1>3, <1>4, <1>5 DEF d

\* A PWM output that was given a percentage has its duty.
Given == there /\ type = "pwm" /\ given.unit = "percent" => duty = Duty(given)

\* The duty of a PWM output is the share that was asked for, less a count for
\* each percent at most, for any maximum.
THEOREM SharesGiven == PinSpec => []DutyNearShare
<1>1. PinInit => Given
  BY DEF PinInit, Given
<1>2. PinTypeOK /\ Given /\ [PinNext]_pinVars => Given'
  <2> SUFFICES ASSUME PinTypeOK, Given, [PinNext]_pinVars PROVE Given'
    OBVIOUS
  <2>1. CASE CreatePin
    BY <2>1 DEF CreatePin, Given
  <2>2. CASE RemovePin \/ PinPowerCycle
    BY <2>2 DEF RemovePin, PinPowerCycle, Given
  <2>3. ASSUME UNCHANGED <<type, invert, there, duty, given>> PROVE Given'
    BY <2>3 DEF Given, Duty
  <2>4. ASSUME NEW s \in Delays, TurnOn(s) PROVE Given'
    BY <2>3, <2>4 DEF TurnOn, pinConfig
  <2>5. CASE Request
    BY <2>3, <2>5 DEF Request, Post, PostFails, Swap, pinConfig
  <2>6. CASE Work
    BY <2>3, <2>6 DEF Work, Pick, Reset, StaleReset, pinConfig
  <2>7. ASSUME NEW on \in BOOLEAN, WriteOutput(on) PROVE Given'
    BY <2>3, <2>7 DEF WriteOutput, pinConfig
  <2>8. ASSUME NEW request \in Requests, WritePwm(request) PROVE Given'
    BY <2>8 DEF WritePwm, pinConfig, Given, Duty
  <2>9. CASE PinTick \/ UNCHANGED pinVars
    BY <2>3, <2>9 DEF PinTick, pinVars, pinConfig
  <2> QED
    BY <2>1, <2>2, <2>4, <2>5, <2>6, <2>7, <2>8, <2>9 DEF PinNext
<1>3. PinTypeOK /\ Given => DutyNearShare
  <2> SUFFICES ASSUME PinTypeOK, Given, there, type = "pwm", given.unit = "percent"
               PROVE  LET counts == IF invert THEN MaxDuty - duty ELSE duty
                          short  == Clamp(given.value, 100) * MaxDuty - 100 * counts
                      IN  0 <= short /\ short <= 100 * Clamp(given.value, 100)
    BY DEF DutyNearShare
  <2> DEFINE c == Clamp(given.value, 100)
             n == (MaxDuty \div 100) * c
             counts == IF invert THEN MaxDuty - duty ELSE duty
  <2>1. MaxDuty \in Nat /\ c \in 0 .. 100
    BY PinAssumption, Clamped DEF PinTypeOK
  <2>2. /\ n \in 0 .. MaxDuty
        /\ 0 <= c * MaxDuty - 100 * n /\ c * MaxDuty - 100 * n <= 100 * c
    BY <2>1, Hundredths
  <2>3. duty = IF invert THEN MaxDuty - Clamp(n, MaxDuty) ELSE Clamp(n, MaxDuty)
    BY DEF Given, Duty, Counts
  <2> HIDE DEF n, c
  <2>4. Clamp(n, MaxDuty) = n
    BY <2>1, <2>2 DEF Clamp
  <2>5. counts = n
    BY <2>1, <2>2, <2>3, <2>4 DEF PinTypeOK
  <2>6. c * MaxDuty - 100 * counts = c * MaxDuty - 100 * n
    BY <2>5
  <2> QED
    BY <2>2, <2>6 DEF c
<1> QED
  BY <1>1, <1>2, <1>3, PinInvariant, PTL DEF PinSpec

-----------------------------------------------------------------------------
\* Products and quotients of natural numbers.
LEMMA Products ==
  ASSUME NEW a \in Nat, NEW b \in Nat
  PROVE  a * b \in Nat /\ a * b = b * a
OBVIOUS

LEMMA Divided ==
  ASSUME NEW a \in Int, NEW b \in Int, b > 0
  PROVE  a = b * (a \div b) + (a % b)
OBVIOUS

LEMMA Quotient ==
  ASSUME NEW a \in Nat, NEW b \in Nat, b > 0
  PROVE  /\ a \div b \in Nat /\ a % b \in 0 .. b - 1
         /\ a = b * (a \div b) + (a % b)
         /\ b * (a \div b) <= a /\ a < b * (a \div b) + b
<1>1. a \div b \in Int /\ a % b \in 0 .. b - 1 /\ a = b * (a \div b) + (a % b)
  <2>1. a \div b \in Int
    OBVIOUS
  <2>2. a % b \in 0 .. b - 1
    OBVIOUS
  <2>3. a \in Int /\ b \in Int /\ b > 0
    OBVIOUS
  <2>4. a = b * (a \div b) + (a % b)
    BY <2>3, Divided
  <2> QED
    BY <2>1, <2>2, <2>4
<1> DEFINE q == a \div b
           r == a % b
<1>2. q = a \div b /\ r = a % b
  OBVIOUS
<1> HIDE DEF q, r
<1>3. q \in Int /\ r \in 0 .. b - 1 /\ a = b * q + r /\ b * q \in Int
  BY <1>2, <1>1
<1>4. ASSUME q < 0 PROVE FALSE
  <2>1. b * (0 - (q + 1)) \in Nat
    BY <1>3, <1>4, Products
  <2>2. b * (0 - (q + 1)) = 0 - (b * q) - b
    BY <1>3
  <2> QED
    BY <1>3, <2>1, <2>2
<1>5. q >= 0
  BY <1>3, <1>4
<1>6. /\ q \in Nat /\ r \in 0 .. b - 1 /\ a = b * q + r
      /\ b * q <= a /\ a < b * q + b
  BY <1>3, <1>5
<1> QED
  BY <1>2, <1>6

LEMMA Multiple ==
  ASSUME NEW m \in Nat, NEW b \in Nat, b > 0
  PROVE  (b * m) % b = 0
OBVIOUS

\* What is missing stays a multiple of the modulus when a number wraps.
LEMMA Wraps ==
  ASSUME NEW b \in Nat, b > 0, NEW d \in Nat, d % b = 0, NEW x \in Nat
  PROVE  /\ x % b \in 0 .. b - 1 /\ x - (x % b) \in Nat
         /\ (d + (x - (x % b))) % b = 0
<1> DEFINE e == d \div b
           q == x \div b
<1>1. e \in Nat /\ q \in Nat /\ d = b * e /\ x - (x % b) = b * q /\ x % b \in 0 .. b - 1
  BY Quotient
<1> HIDE DEF e, q
<1>2. b * e + b * q = b * (e + q)
  BY <1>1
<1>3. d + (x - (x % b)) = b * (e + q) /\ e + q \in Nat
  BY <1>1, <1>2
<1>4. (b * (e + q)) % b = 0
  BY <1>3, Multiple
<1>5. b * q \in Nat
  BY <1>1
<1> QED
  BY <1>1, <1>3, <1>4, <1>5

-----------------------------------------------------------------------------
LEMMA AmountsOfSteps ==
  ASSUME StepperTypeOK, NEW ml \in Amounts
  PROVE  PumpSteps(ml) \subseteq 0 .. Modulus - 1
<1>1. /\ Modulus \in Nat /\ Modulus > 0 /\ FactorUnit \in Nat /\ FactorUnit > 0 /\ ml \in Nat /\ factor \in Nat
  BY StepperAssumption DEF StepperTypeOK
<1> DEFINE exact == (ml * factor) \div FactorUnit
<1>2. exact \in Nat
  <2>1. ml * factor \in Nat
    BY <1>1, Products
  <2> QED
    BY <1>1, <2>1, Quotient
<1> HIDE DEF exact
<1>3. ASSUME NEW n \in PumpSteps(ml)
      PROVE  \/ n \in 0 .. Modulus - 1
             \/ ~ exact >= Modulus /\ (n = exact \/ (n = exact - 1 /\ exact > 0))
  BY DEF PumpSteps, exact
<1>4. \A n \in PumpSteps(ml) : n \in 0 .. Modulus - 1
  BY <1>1, <1>2, <1>3
<1> QED
  BY <1>4

LEMMA WrittenTypes ==
  ASSUME StepperTypeOK, NEW n \in 0 .. Modulus - 1, WriteSteps(n) PROVE StepperTypeOK'
<1>1. /\ Modulus \in Nat /\ Modulus > 0 /\ MaxAsked \in Nat
      /\ asked \in Nat /\ stepsLeft \in Nat /\ n \in Nat
  BY StepperAssumption DEF StepperTypeOK
<1>2. stepsLeft' \in 0 .. Modulus - 1
  BY <1>1, Quotient DEF WriteSteps, Add
<1>3. asked' \in 0 .. MaxAsked
  BY <1>1 DEF WriteSteps
<1> QED
  BY <1>2, <1>3 DEF WriteSteps, StepperTypeOK, pump

\* Once the thread has taken steps it has at least one.
SomeInHand == phase \in {"step", "stepped"} => current > 0

LEMMA StepperStepTypes ==
  StepperTypeOK /\ SomeInHand /\ [StepperNext]_stepperVars => StepperTypeOK' /\ SomeInHand'
<1> SUFFICES ASSUME StepperTypeOK, SomeInHand, [StepperNext]_stepperVars
             PROVE  StepperTypeOK' /\ SomeInHand'
  OBVIOUS
<1>1. /\ Modulus \in Nat /\ Modulus > 0 /\ MaxAsked \in Nat /\ 0 \in 0 .. Modulus - 1
      /\ 0 \in 0 .. MaxAsked /\ Steps \subseteq 0 .. Modulus - 1
      /\ Amounts \subseteq Nat /\ FactorUnit \in Nat /\ FactorUnit > 0 /\ 0 \in Nat
  BY StepperAssumption
<1>2. CASE CreateStepper
  BY <1>1, <1>2 DEF CreateStepper, StepperTypeOK, SomeInHand, pump
<1>3. CASE BeginRemove
  BY <1>1, <1>3 DEF BeginRemove, StepperTypeOK, SomeInHand, pump
<1>4. CASE EndRemove
  BY <1>1, <1>4 DEF EndRemove, StepperTypeOK, SomeInHand, pump
<1>5. CASE PowerCycle
  BY <1>1, <1>5 DEF PowerCycle, StepperTypeOK, SomeInHand, pump
<1>6. ASSUME NEW n \in 0 .. Modulus - 1, WriteSteps(n)
      PROVE  StepperTypeOK' /\ SomeInHand'
  BY <1>6, WrittenTypes DEF WriteSteps, SomeInHand
<1>7. ASSUME NEW n \in Steps, WriteSteps(n) PROVE StepperTypeOK' /\ SomeInHand'
  BY <1>1, <1>6, <1>7
<1>8. ASSUME NEW ml \in Amounts, Dose(ml) PROVE StepperTypeOK' /\ SomeInHand'
  BY <1>6, <1>8, AmountsOfSteps DEF Dose
<1>9. ASSUME NEW n \in Steps, NEW ml \in Amounts, Calibrate(n, ml)
      PROVE  StepperTypeOK' /\ SomeInHand'
  <2>1. n \in Nat /\ ml \in Nat
    BY <1>1
  <2>2. factor' \in 0 .. Modulus - 1 /\ measured' \in Measurements \cup {Unmeasured}
    <3>1. CASE ml > 0 /\ Factor(n, ml) < Modulus
      <4>1. n * FactorUnit \in Nat /\ ml \in Nat /\ ml > 0
        BY <1>1, <2>1, <3>1, Products
      <4>2. Factor(n, ml) \in Nat
        BY <4>1, Quotient DEF Factor
      <4>3. Factor(n, ml) \in 0 .. Modulus - 1
        BY <1>1, <3>1, <4>2
      <4>4. [steps |-> n, ml |-> ml] \in Measurements
        BY DEF Measurements
      <4> QED
        BY <1>9, <3>1, <4>3, <4>4 DEF Calibrate
    <3>2. CASE ~ (ml > 0 /\ Factor(n, ml) < Modulus)
      BY <1>9, <3>2 DEF Calibrate
    <3> QED
      BY <3>1, <3>2
  <2>3. UNCHANGED <<exists, phase, stopping, stepsLeft, current, asked, made>>
    BY <1>9 DEF Calibrate, stepper
  <2> QED
    BY <2>2, <2>3 DEF StepperTypeOK, SomeInHand
<1>10. CASE ThreadEnds
  BY <1>1, <1>10 DEF ThreadEnds, StepperTypeOK, SomeInHand, pump
<1>11. CASE TakeSteps
  <2>1. current' > 0 /\ phase' = "step" /\ stepsLeft' = 0 /\ current' = stepsLeft
    BY <1>1, <1>11 DEF TakeSteps, StepsLeft, StepperTypeOK
  <2> QED
    BY <1>1, <1>11, <2>1 DEF TakeSteps, StepperTypeOK, SomeInHand, pump
<1>12. CASE MakeStep
  <2>1. made' \in Nat
    BY <1>12 DEF MakeStep, StepperTypeOK
  <2> QED
    BY <1>12, <2>1 DEF MakeStep, StepperTypeOK, SomeInHand, pump
<1>13. CASE PutBack
  <2>1. current \in Nat \ {0} /\ stepsLeft \in Nat
    BY <1>13 DEF PutBack, SomeInHand, StepperTypeOK
  <2>2. stepsLeft + (current - 1) \in Nat
    BY <2>1
  <2>3. stepsLeft' \in 0 .. Modulus - 1
    BY <1>1, <1>13, <2>2, Quotient DEF PutBack, AddRest, Add
  <2> QED
    BY <1>1, <1>13, <2>3 DEF PutBack, StepperTypeOK, SomeInHand, pump
<1>14. CASE UNCHANGED stepperVars
  BY <1>14 DEF stepperVars, stepper, pump, StepperTypeOK, SomeInHand
<1> QED
  BY <1>2, <1>3, <1>4, <1>5, <1>7, <1>8, <1>9, <1>10, <1>11, <1>12, <1>13, <1>14
     DEF StepperNext, Thread

LEMMA StepperInitTypes == StepperInit => StepperTypeOK /\ SomeInHand
<1> SUFFICES ASSUME StepperInit PROVE StepperTypeOK /\ SomeInHand
  OBVIOUS
<1>1. /\ Modulus \in Nat /\ Modulus > 0 /\ MaxAsked \in Nat
  BY StepperAssumption
<1>2. /\ stepsLeft = 0 /\ current = 0 /\ asked = 0 /\ made = 0 /\ factor = 0
      /\ exists = FALSE /\ stopping = FALSE /\ phase = "gone" /\ measured = Unmeasured
  BY DEF StepperInit
<1>3. /\ stepsLeft \in 0 .. Modulus - 1 /\ current \in 0 .. Modulus - 1
      /\ factor \in 0 .. Modulus - 1 /\ asked \in 0 .. MaxAsked /\ made \in Nat
  BY <1>1, <1>2
<1> QED
  BY <1>2, <1>3 DEF StepperTypeOK, SomeInHand

\* The types of the stepper's and the pump's state, for any width and numbers.
THEOREM StepperTypesCorrect == StepperSpec => []StepperTypeOK
BY StepperInitTypes, StepperStepTypes, PTL DEF StepperSpec

-----------------------------------------------------------------------------
\* What StepsAccounted says of the steps that are asked for and not known of.
Missing(d) == d \in Nat /\ d % Modulus = 0
Lack == asked - (made + InHand + stepsLeft)

LEMMA LackMissing ==
  ASSUME NEW a \in Nat, NEW m \in Nat, NEW h \in Nat, NEW s \in Nat
  PROVE  /\ a - (m + h + s) \in Int
         /\ m + h + s <= a /\ (a - (m + h + s)) % Modulus = 0
              <=> Missing(a - (m + h + s))
<1>1. a - (m + h + s) \in Int /\ (a - (m + h + s) \in Nat <=> m + h + s <= a)
  OBVIOUS
<1> QED
  BY <1>1 DEF Missing

LEMMA HandTypes ==
  ASSUME StepperTypeOK, SomeInHand
  PROVE  /\ InHand \in Nat /\ asked \in Nat /\ made \in Nat /\ stepsLeft \in Nat
         /\ current \in Nat
BY StepperAssumption DEF InHand, StepperTypeOK, SomeInHand

LEMMA HandTypesThen ==
  ASSUME StepperTypeOK', SomeInHand'
  PROVE  InHand' \in Nat /\ asked' \in Nat /\ made' \in Nat /\ stepsLeft' \in Nat
BY StepperAssumption DEF InHand, StepperTypeOK, SomeInHand

\* How far the thread is from rest: the steps it has to make, three turns each.
Distance ==
  3 * (InHand + stepsLeft)
    + (CASE phase = "gone" -> 0
         [] phase = "step" -> 1
         [] phase = "idle" -> 2
         [] OTHER -> 3)

\* But for steps asked of it and a new driver, nothing takes the thread further
\* from rest, and each turn of its own brings it nearer.
NearerRest ==
  \/ asked < asked'
  \/ ~ exists /\ exists'
  \/ Distance' <= Distance /\ (Thread => Distance' < Distance)

LEMMA DistanceIs ==
  ASSUME StepperTypeOK, SomeInHand
  PROVE  /\ stepsLeft \in Nat /\ current \in Nat
         /\ phase = "gone" => Distance = 3 * stepsLeft
         /\ phase = "idle" => Distance = 3 * stepsLeft + 2
         /\ phase = "step" => Distance = 3 * (current + stepsLeft) + 1
         /\ phase = "stepped" => Distance = 3 * ((current - 1) + stepsLeft) + 3
         /\ Distance \in Nat
<1>1. stepsLeft \in Nat /\ current \in Nat
  BY HandTypes
<1>2. /\ phase = "gone" => Distance = 3 * stepsLeft
      /\ phase = "idle" => Distance = 3 * stepsLeft + 2
      /\ phase = "step" => Distance = 3 * (current + stepsLeft) + 1
      /\ phase = "stepped" => Distance = 3 * ((current - 1) + stepsLeft) + 3
  BY <1>1 DEF Distance, InHand
<1>3. phase \in {"gone", "idle", "step", "stepped"}
  BY DEF StepperTypeOK
<1>4. phase = "stepped" => current - 1 \in Nat
  BY <1>1 DEF SomeInHand
<1>5. Distance \in Nat
  BY <1>1, <1>2, <1>3, <1>4
<1> QED BY <1>1, <1>2, <1>5

LEMMA DistanceThen ==
  ASSUME StepperTypeOK', SomeInHand'
  PROVE  /\ phase' = "gone" => Distance' = 3 * stepsLeft'
         /\ phase' = "idle" => Distance' = 3 * stepsLeft' + 2
         /\ phase' = "step" => Distance' = 3 * (current' + stepsLeft') + 1
         /\ phase' = "stepped" => Distance' = 3 * ((current' - 1) + stepsLeft') + 3
<1>1. stepsLeft' \in Nat /\ current' \in Nat
  BY StepperAssumption DEF StepperTypeOK
<1> QED BY <1>1 DEF Distance, InHand

\* The thread comes to rest after a bounded number of its turns unless more is
\* asked, wherever requests, removals and resets come in between, for any width
\* of the counter and any numbers; what Finishes needs of the steps.
THEOREM ComesToRest == StepperSpec => [][NearerRest]_stepperVars
<1> DEFINE Types == StepperTypeOK /\ SomeInHand
<1>1. Types /\ Types' /\ [StepperNext]_stepperVars => [NearerRest]_stepperVars
  <2> SUFFICES ASSUME Types, Types', StepperNext PROVE NearerRest
    OBVIOUS
  <2> SUFFICES ASSUME ~ (asked < asked'), ~ (~ exists /\ exists')
               PROVE  Distance' <= Distance /\ (Thread => Distance' < Distance)
    BY Zenon DEF NearerRest
  <2>1. /\ stepsLeft \in Nat /\ current \in Nat /\ Distance \in Nat
        /\ phase = "gone" => Distance = 3 * stepsLeft
        /\ phase = "idle" => Distance = 3 * stepsLeft + 2
        /\ phase = "step" => Distance = 3 * (current + stepsLeft) + 1
        /\ phase = "stepped" => Distance = 3 * ((current - 1) + stepsLeft) + 3
    BY DistanceIs
  <2>2. /\ phase' = "gone" => Distance' = 3 * stepsLeft'
        /\ phase' = "idle" => Distance' = 3 * stepsLeft' + 2
        /\ phase' = "step" => Distance' = 3 * (current' + stepsLeft') + 1
        /\ phase' = "stepped" => Distance' = 3 * ((current' - 1) + stepsLeft') + 3
    BY DistanceThen
  <2>3. Modulus \in Nat /\ Modulus > 0
    BY StepperAssumption
  <2>4. ASSUME Thread PROVE Distance' < Distance
    <3>1. CASE ThreadEnds
      BY <2>1, <2>2, <3>1 DEF ThreadEnds
    <3>2. CASE TakeSteps
      BY <2>1, <2>2, <3>2 DEF TakeSteps
    <3>3. CASE MakeStep
      BY <2>1, <2>2, <3>3 DEF MakeStep
    <3>4. CASE PutBack
      <4>1. current \in Nat \ {0} /\ phase = "stepped" /\ phase' = "idle"
        BY <2>1, <3>4 DEF PutBack, SomeInHand
      <4> DEFINE sum == stepsLeft + (current - 1)
      <4>2. sum \in Nat /\ stepsLeft' = sum % Modulus
        BY <2>1, <3>4, <4>1 DEF PutBack, AddRest, Add
      <4>3. Distance = 3 * sum + 3
        BY <2>1, <4>1
      <4> HIDE DEF sum
      <4>4. stepsLeft' \in Nat /\ stepsLeft' <= sum
        BY <2>3, <4>2, Wraps
      <4> QED BY <2>2, <4>1, <4>2, <4>3, <4>4
    <3> QED BY <2>4, <3>1, <3>2, <3>3, <3>4 DEF Thread
  <2>5. ~ CreateStepper
    BY Zenon DEF CreateStepper
  <2>6. ASSUME BeginRemove \/ \E n \in Steps, ml \in Amounts : Calibrate(n, ml)
        PROVE  Distance' = Distance
    BY <2>6 DEF BeginRemove, Calibrate, stepper, Distance, InHand
  <2>7. ASSUME EndRemove \/ PowerCycle PROVE Distance' <= Distance
    <3>1. phase' = "gone" /\ stepsLeft' = 0
      BY <2>7 DEF EndRemove, PowerCycle
    <3> QED BY <2>1, <2>2, <3>1
  <2>8. ASSUME NEW n \in Nat, WriteSteps(n) PROVE Distance' = Distance
    <3>1. asked \in Nat /\ asked' = asked + n
      BY <2>8, HandTypes DEF WriteSteps
    <3>2. n = 0
      BY <3>1
    <3>3. stepsLeft' = stepsLeft
      <4>1. stepsLeft \in 0 .. Modulus - 1 /\ stepsLeft' = (stepsLeft + 0) % Modulus
        BY <2>8, <3>2 DEF WriteSteps, Add, StepperTypeOK
      <4> QED BY <2>3, <4>1
    <3> QED BY <2>8, <3>3 DEF WriteSteps, Distance, InHand
  <2>9. ASSUME NEW n \in Steps, WriteSteps(n) PROVE Distance' = Distance
    <3>1. n \in Nat
      BY StepperAssumption
    <3> QED BY <2>8, <2>9, <3>1
  <2>10. ASSUME NEW ml \in Amounts, Dose(ml) PROVE Distance' = Distance
    <3>1. PICK n \in PumpSteps(ml) : WriteSteps(n)
      BY <2>10 DEF Dose
    <3>2. n \in Nat
      BY <2>3, AmountsOfSteps
    <3> QED BY <2>8, <3>1, <3>2
  <2>11. Distance' \in Int
    <3>1. stepsLeft' \in Nat /\ current' \in Nat
      BY StepperAssumption DEF StepperTypeOK
    <3>2. phase' \in {"gone", "idle", "step", "stepped"}
      BY DEF StepperTypeOK
    <3> QED BY <2>2, <3>1, <3>2
  <2>12. StepperNext => Distance' <= Distance
    BY <2>1, <2>4, <2>5, <2>6, <2>7, <2>9, <2>10, <2>11 DEF StepperNext
  <2> QED BY <2>4, <2>12
<1> QED BY <1>1, StepperInitTypes, StepperStepTypes, PTL DEF StepperSpec

\* Steps that are added, though the counter wraps, are missing or left.
LEMMA AddedSteps ==
  ASSUME NEW d, Missing(d), stepsLeft \in Nat, NEW n \in Nat, Add(n)
  PROVE  /\ stepsLeft' \in Nat
         /\ Missing(d + ((stepsLeft + n) - stepsLeft'))
<1>1. /\ Modulus \in Nat /\ Modulus > 0
      /\ stepsLeft + n \in Nat /\ d \in Nat /\ d % Modulus = 0
  BY StepperAssumption DEF Missing
<1>2. stepsLeft' = (stepsLeft + n) % Modulus
  BY DEF Add
<1>3. PICK y \in Nat : y = stepsLeft + n
  BY <1>1
<1>4. /\ y % Modulus \in 0 .. Modulus - 1 /\ y - (y % Modulus) \in Nat
      /\ (d + (y - (y % Modulus))) % Modulus = 0
  BY <1>1, Wraps
<1>5. stepsLeft' = y % Modulus
  BY <1>2, <1>3
<1>6. /\ stepsLeft' \in 0 .. Modulus - 1 /\ y - stepsLeft' \in Nat
      /\ (d + (y - stepsLeft')) % Modulus = 0
  BY <1>4, <1>5
<1>7. stepsLeft' \in Nat
  BY <1>1, <1>6
<1>8. d + (y - stepsLeft') \in Nat
  <2>1. PICK z \in Nat : z = y - stepsLeft'
    BY <1>6
  <2>2. d + z \in Nat
    BY <1>1
  <2> QED
    BY <2>1, <2>2
<1> QED
  BY <1>3, <1>6, <1>7, <1>8 DEF Missing

\* Each step is made, in hand or left, for any width of the counter and any
\* numbers of steps, but for whole wraps of the counter.
THEOREM NoStepTwice == StepperSpec => []StepsAccounted
<1> DEFINE Types == StepperTypeOK /\ SomeInHand
<1>1. StepperInit => Types /\ StepsAccounted
  <2> SUFFICES ASSUME StepperInit PROVE StepsAccounted
    BY StepperInitTypes
  <2>1. Modulus \in Nat /\ Modulus > 0
    BY StepperAssumption
  <2>2. asked = 0 /\ made + InHand + stepsLeft = 0 /\ 0 % Modulus = 0
    BY <2>1 DEF StepperInit, InHand
  <2> QED
    BY <2>2 DEF StepsAccounted
<1>2. Types /\ StepsAccounted /\ [StepperNext]_stepperVars => Types' /\ StepsAccounted'
  <2> SUFFICES ASSUME Types, StepsAccounted, [StepperNext]_stepperVars
               PROVE  Types' /\ StepsAccounted'
    OBVIOUS
  <2>1. Types'
    BY StepperStepTypes
  <2> SUFFICES StepsAccounted'
    BY <2>1
  <2>2. /\ InHand \in Nat /\ asked \in Nat /\ made \in Nat /\ stepsLeft \in Nat
        /\ current \in Nat /\ Modulus \in Nat /\ Modulus > 0
        /\ InHand' \in Nat /\ asked' \in Nat /\ made' \in Nat /\ stepsLeft' \in Nat
    BY <2>1, HandTypes, HandTypesThen, StepperAssumption
  <2>3. /\ Missing(Lack) /\ Lack \in Int
        /\ Missing(Lack') => StepsAccounted'
    <3>1. Missing(Lack) /\ Lack \in Int
      BY <2>2, LackMissing DEF Lack, StepsAccounted
    <3>2. Missing(Lack') => /\ made' + InHand' + stepsLeft' <= asked'
                           /\ (asked' - (made' + InHand' + stepsLeft')) % Modulus = 0
      <4>1. \A a, m, h, s \in Nat :
              Missing(a - (m + h + s)) => /\ m + h + s <= a
                                          /\ (a - (m + h + s)) % Modulus = 0
        BY LackMissing
      <4>2. Lack' = asked' - (made' + InHand' + stepsLeft')
        BY DEF Lack
      <4>3. Missing(asked' - (made' + InHand' + stepsLeft'))
              => /\ made' + InHand' + stepsLeft' <= asked'
                 /\ (asked' - (made' + InHand' + stepsLeft')) % Modulus = 0
        <5>1. PICK a \in Nat, m \in Nat, h \in Nat, s \in Nat :
                a = asked' /\ m = made' /\ h = InHand' /\ s = stepsLeft'
          BY <2>2
        <5>2. Missing(a - (m + h + s)) => /\ m + h + s <= a
                                          /\ (a - (m + h + s)) % Modulus = 0
          BY <4>1
        <5> QED
          BY <5>1, <5>2
      <4> QED
        BY <4>2, <4>3
    <3>3. Missing(Lack') => StepsAccounted'
      BY <3>2 DEF StepsAccounted
    <3> QED
      BY <3>1, <3>3
  <2>4. ASSUME Lack' = Lack PROVE StepsAccounted'
    BY <2>3, <2>4
  <2>5. CASE CreateStepper \/ EndRemove \/ PowerCycle
    <3>1. asked' = 0 /\ made' = 0 /\ stepsLeft' = 0 /\ InHand' = 0
      BY <2>5 DEF CreateStepper, EndRemove, PowerCycle, InHand
    <3>2. Lack' = 0 /\ 0 % Modulus = 0
      BY <2>2, <3>1 DEF Lack
    <3> QED
      BY <2>3, <3>2 DEF Missing
  <2>6. ASSUME NEW n \in Nat, WriteSteps(n) PROVE StepsAccounted'
    <3>1. Add(n) /\ asked' = asked + n /\ made' = made /\ InHand' = InHand
      BY <2>6 DEF WriteSteps, InHand
    <3>2. Missing(Lack + ((stepsLeft + n) - stepsLeft'))
      BY <2>3, <2>2, <3>1, AddedSteps
    <3>3. Lack' = Lack + ((stepsLeft + n) - stepsLeft')
      BY <2>3, <2>2, <3>1 DEF Lack
    <3> QED
      BY <2>3, <3>2, <3>3
  <2>7. ASSUME NEW n \in Steps, WriteSteps(n) PROVE StepsAccounted'
    BY <2>6, <2>7, StepperAssumption
  <2>8. ASSUME NEW ml \in Amounts, Dose(ml) PROVE StepsAccounted'
    <3>1. PICK n \in PumpSteps(ml) : WriteSteps(n)
      BY <2>8 DEF Dose
    <3>2. n \in Nat
      BY <2>2, AmountsOfSteps
    <3> QED
      BY <2>6, <3>1, <3>2
  <2>9. CASE ThreadEnds \/ BeginRemove
    <3>1. InHand' = InHand /\ UNCHANGED <<asked, made, stepsLeft>>
      BY <2>9 DEF ThreadEnds, BeginRemove, InHand
    <3> QED
      BY <2>4, <3>1 DEF Lack
  <2>10. CASE TakeSteps
    <3>1. /\ InHand = 0 /\ InHand' = stepsLeft /\ stepsLeft' = 0
          /\ asked' = asked /\ made' = made
      BY <2>10 DEF TakeSteps, InHand
    <3> QED
      BY <2>2, <2>4, <3>1 DEF Lack
  <2>11. CASE MakeStep
    <3>1. /\ InHand = current /\ InHand' = current - 1 /\ made' = made + 1
          /\ asked' = asked /\ stepsLeft' = stepsLeft
      BY <2>11 DEF MakeStep, InHand
    <3> QED
      BY <2>2, <2>4, <3>1 DEF Lack
  <2>12. CASE PutBack
    <3>1. /\ InHand = current - 1 /\ InHand' = 0 /\ Add(current - 1)
          /\ asked' = asked /\ made' = made
      BY <2>12 DEF PutBack, AddRest, InHand
    <3>2. Missing(Lack + ((stepsLeft + InHand) - stepsLeft'))
      BY <2>3, <2>2, <3>1, AddedSteps
    <3>3. Lack' = Lack + ((stepsLeft + InHand) - stepsLeft')
      BY <2>3, <2>2, <3>1 DEF Lack
    <3> QED
      BY <2>3, <3>2, <3>3
  <2>13. ASSUME UNCHANGED stepper PROVE StepsAccounted'
    BY <2>4, <2>13 DEF stepper, InHand, Lack
  <2>14. ASSUME NEW n \in Steps, NEW ml \in Amounts, Calibrate(n, ml)
         PROVE  StepsAccounted'
    BY <2>13, <2>14 DEF Calibrate
  <2> QED
    BY <2>1, <2>5, <2>7, <2>8, <2>9, <2>10, <2>11, <2>12, <2>13, <2>14
       DEF StepperNext, Thread, stepperVars
<1> QED
  BY <1>1, <1>2, PTL DEF StepperSpec

-----------------------------------------------------------------------------
\* The calibration: a pump's factor is the one its last calibration gave.
Calibrated ==
  measured # Unmeasured =>
    /\ measured.steps \in Nat /\ measured.ml \in Nat /\ measured.ml > 0
    /\ factor = Factor(measured.steps, measured.ml)

\* The product of an inequality and a natural number.
LEMMA Scaled ==
  ASSUME NEW a \in Int, NEW b \in Int, a <= b, NEW c \in Nat
  PROVE  a * c <= b * c /\ c * a <= c * b
<1>1. (b - a) * c \in Nat
  <2>1. b - a \in Nat
    OBVIOUS
  <2> QED
    BY <2>1, Products
<1>2. (b - a) * c = b * c - a * c /\ a * c \in Int /\ b * c \in Int
      /\ c * a = a * c /\ c * b = b * c
  OBVIOUS
<1> QED
  BY <1>1, <1>2

\* An inequality between multiples of a positive number.
LEMMA Unscaled ==
  ASSUME NEW a \in Int, NEW b \in Int, NEW c \in Nat, c > 0, c * a <= c * b
  PROVE  a <= b
<1>1. SUFFICES ASSUME a > b PROVE FALSE
  OBVIOUS
<1>2. a >= b + 1 /\ b + 1 \in Int
  BY <1>1
<1>3. c * (b + 1) <= c * a
  BY <1>2, Scaled
<1>4. c * (b + 1) = c * b + c /\ c * a \in Int /\ c * b \in Int
  OBVIOUS
<1> QED
  BY <1>3, <1>4

\* A dose of ml with the factor f that s steps for m millilitres gave, u being
\* the factor's unit: n steps, the quotient or one less if nothing was cut off.
LEMMA DoseOfFactor ==
  ASSUME NEW u \in Nat, u > 0, NEW s \in Nat, NEW m \in Nat, m > 0,
         NEW ml \in Nat, NEW f \in Nat, f = (s * u) \div m,
         NEW n \in Nat, u * n <= ml * f, ml * f <= u * (n + 1)
  PROVE  /\ n * m <= ml * s
         /\ u * (ml * s) <= (u * (n + 1) + ml) * m
<1>1. s * u \in Nat /\ ml * f \in Nat /\ n * m \in Nat /\ ml * s \in Nat
  BY Products
<1>2. m * f <= s * u /\ s * u < m * f + m /\ m * f \in Nat
  BY <1>1, Quotient, Products
<1>3. n * m <= ml * s
  <2>1. m * (u * n) <= m * (ml * f)
    BY <1>1, Scaled, Products
  <2>2. ml * (m * f) <= ml * (s * u)
    BY <1>1, <1>2, Scaled
  <2>3. m * (ml * f) = ml * (m * f) /\ m * (u * n) = u * (n * m)
        /\ ml * (s * u) = u * (ml * s)
    OBVIOUS
  <2>4. u * (n * m) <= u * (ml * s)
    <3>1. u * (n * m) \in Int /\ u * (ml * s) \in Int /\ ml * (m * f) \in Int
      OBVIOUS
    <3> QED
      BY <2>1, <2>2, <2>3, <3>1
  <2> QED
    BY <1>1, <2>4, Unscaled
<1>4. u * (ml * s) <= (u * (n + 1) + ml) * m
  <2>1. ml * (s * u) <= ml * (m * f + m)
    BY <1>1, <1>2, Scaled
  <2>2. m * (ml * f) <= m * (u * (n + 1))
    BY <1>1, Scaled, Products
  <2>3. ml * (s * u) = u * (ml * s)
        /\ ml * (m * f + m) = m * (ml * f) + ml * m
        /\ m * (u * (n + 1)) + ml * m = (u * (n + 1) + ml) * m
    OBVIOUS
  <2>4. m * (ml * f) \in Int /\ m * (u * (n + 1)) \in Int /\ ml * m \in Int
        /\ u * (ml * s) \in Int
    OBVIOUS
  <2> QED
    BY <2>1, <2>2, <2>3, <2>4
<1> QED
  BY <1>3, <1>4

\* What is written for a dose that fits is the quotient or, if nothing was cut
\* off, one step less.
LEMMA DoseNearQuotient ==
  ASSUME NEW ml \in Nat, factor \in Nat, (ml * factor) \div FactorUnit < Modulus,
         NEW n \in PumpSteps(ml)
  PROVE  n \in Nat /\ FactorUnit * n <= ml * factor
         /\ ml * factor <= FactorUnit * (n + 1)
<1>1. FactorUnit \in Nat /\ FactorUnit > 0 /\ Modulus \in Nat
  BY StepperAssumption
<1> DEFINE p == ml * factor
           q == p \div FactorUnit
           r == p % FactorUnit
<1>2. p \in Nat /\ p = ml * factor
  BY Products
<1> HIDE DEF p
<1>3. /\ q \in Nat /\ r \in 0 .. FactorUnit - 1 /\ p = FactorUnit * q + r
      /\ FactorUnit * q <= p /\ p < FactorUnit * q + FactorUnit
  BY <1>1, <1>2, Quotient
<1>4. n = q \/ (n = q - 1 /\ r = 0 /\ q > 0)
  BY <1>1, <1>2 DEF PumpSteps
<1> HIDE DEF q, r
<1>5. CASE n = q
  <2>1. FactorUnit * (n + 1) = FactorUnit * q + FactorUnit /\ FactorUnit * q \in Int
    BY <1>1, <1>3, <1>5
  <2>2. FactorUnit * n = FactorUnit * q
    BY <1>5
  <2>3. n \in Nat /\ FactorUnit * n <= p /\ p <= FactorUnit * (n + 1)
    <3>1. FactorUnit * (n + 1) \in Int /\ FactorUnit \in Int /\ n \in Nat
      BY <1>1, <1>3, <1>5
    <3> QED
      BY <1>2, <1>3, <2>1, <2>2, <3>1
  <2> QED
    BY <1>2, <2>3
<1>6. CASE n = q - 1 /\ r = 0 /\ q > 0
  <2>1. n \in Nat /\ q = n + 1
    BY <1>3, <1>6
  <2>2. FactorUnit * q = FactorUnit * n + FactorUnit /\ FactorUnit * n \in Int
    BY <1>1, <2>1
  <2>3. p = FactorUnit * (n + 1)
    BY <1>1, <1>3, <1>6, <2>1
  <2> QED
    BY <1>1, <1>2, <1>3, <2>1, <2>2, <2>3
<1> QED
  BY <1>4, <1>5, <1>6

LEMMA CalibratedHolds == StepperTypeOK /\ Calibrated => CalibrationHolds
<1> SUFFICES ASSUME StepperTypeOK, Calibrated, measured # Unmeasured,
                    NEW ml \in Amounts, (ml * factor) \div FactorUnit < Modulus,
                    NEW n \in PumpSteps(ml)
             PROVE  /\ n * measured.ml <= ml * measured.steps
                    /\ FactorUnit * (ml * measured.steps)
                         <= (FactorUnit * (n + 1) + ml) * measured.ml
  BY DEF CalibrationHolds
<1>1. FactorUnit \in Nat /\ FactorUnit > 0 /\ Modulus \in Nat /\ ml \in Nat
  BY StepperAssumption
<1>2. factor \in Nat
  BY <1>1 DEF StepperTypeOK
<1>3. /\ measured.steps \in Nat /\ measured.ml \in Nat /\ measured.ml > 0
      /\ factor = (measured.steps * FactorUnit) \div measured.ml
  BY DEF Calibrated, Factor
<1>4. n \in Nat /\ FactorUnit * n <= ml * factor /\ ml * factor <= FactorUnit * (n + 1)
  BY <1>1, <1>2, DoseNearQuotient
<1> QED
  <2>1. PICK u \in Nat, s \in Nat, m \in Nat, f \in Nat :
          u = FactorUnit /\ s = measured.steps /\ m = measured.ml /\ f = factor
    BY <1>1, <1>2, <1>3
  <2>2. /\ u > 0 /\ m > 0 /\ f = (s * u) \div m /\ n \in Nat
        /\ u * n <= ml * f /\ ml * f <= u * (n + 1)
    BY <1>1, <1>3, <1>4, <2>1
  <2>3. n * m <= ml * s /\ u * (ml * s) <= (u * (n + 1) + ml) * m
    BY <1>1, <2>2, DoseOfFactor
  <2> QED
    BY <2>1, <2>3

LEMMA StepCalibrated == Calibrated /\ [StepperNext]_stepperVars => Calibrated'
<1> SUFFICES ASSUME Calibrated, [StepperNext]_stepperVars
             PROVE  Calibrated'
  OBVIOUS
<1>1. ASSUME UNCHANGED pump PROVE Calibrated'
  BY <1>1 DEF pump, Calibrated, Factor
<1>2. ASSUME NEW n \in Steps, NEW ml \in Amounts, Calibrate(n, ml)
      PROVE  Calibrated'
  <2>1. n \in Nat /\ ml \in Nat
    BY StepperAssumption
  <2>2. CASE ml > 0 /\ Factor(n, ml) < Modulus
    <3>1. factor' = Factor(n, ml) /\ measured' = [steps |-> n, ml |-> ml]
      BY <1>2, <2>2 DEF Calibrate
    <3> QED
      BY <2>1, <2>2, <3>1 DEF Calibrated, Factor
  <2>3. CASE ~ (ml > 0 /\ Factor(n, ml) < Modulus)
    BY <1>2, <2>3 DEF Calibrate, Calibrated
  <2> QED
    BY <2>2, <2>3
<1>3. CASE CreateStepper \/ BeginRemove \/ EndRemove \/ PowerCycle
  BY <1>1, <1>3 DEF CreateStepper, BeginRemove, EndRemove, PowerCycle
<1>4. ASSUME NEW n, WriteSteps(n) PROVE Calibrated'
  BY <1>1, <1>4 DEF WriteSteps
<1>5. ASSUME NEW ml \in Amounts, Dose(ml) PROVE Calibrated'
  BY <1>4, <1>5 DEF Dose
<1>6. CASE Thread
  BY <1>1, <1>6 DEF Thread, ThreadEnds, TakeSteps, MakeStep, PutBack
<1>7. CASE UNCHANGED stepperVars
  BY <1>1, <1>7 DEF stepperVars
<1> QED
  BY <1>2, <1>3, <1>4, <1>5, <1>6, <1>7 DEF StepperNext

\* A calibrated pump doses what the calibration has for the amount, but for what
\* the factor and the floats cut off, for any amounts and numbers.
THEOREM DosesAsCalibrated == StepperSpec => []CalibrationHolds
<1>1. StepperInit => Calibrated
  BY DEF StepperInit, Calibrated
<1>2. StepperSpec => []Calibrated
  BY <1>1, StepCalibrated, PTL DEF StepperSpec
<1> QED
  BY <1>2, StepperTypesCorrect, CalibratedHolds, PTL
=============================================================================
