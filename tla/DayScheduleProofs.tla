-------------------------- MODULE DayScheduleProofs --------------------------
(***************************************************************************)
(* Theorems about DaySchedule, for any number of time points, channels and *)
(* values and any lengths of day and week: what the searches over the      *)
(* array find, and the value interpolated from it.  They end with          *)
(* MCResources, whose parts do not disturb each other.                     *)
(***************************************************************************)
EXTENDS MCResources, ResourceProofs, WeekScheduleProofs

TimeAt(i) == datapoints[i].time

\* The array is sorted, no time is in it twice, and what it has at a time is
\* what was inserted for it.
Sorted == \A i, j \in Indices : i < j => TimeAt(i) <= TimeAt(j)

Single ==
  \A i, j \in Indices : TimeAt(i) = TimeAt(j) /\ TimeAt(i) # InvalidTime => i = j

Agrees ==
  /\ \A i \in Indices : TimeAt(i) # InvalidTime => points[TimeAt(i)] = datapoints[i].data
  /\ \A t \in TimesOfDay : SlotsWith(t) = {} => points[t] = Empty

DayInv == DayTypeOK /\ Sorted /\ Single /\ Agrees

-----------------------------------------------------------------------------
Point == [time : TimesOfDay \cup {InvalidTime}, data : PointData \cup {Empty}]

LEMMA TimesAreInts ==
  /\ InvalidTime \in Int /\ InvalidTime \notin TimesOfDay
  /\ \A t \in TimesOfDay : t \in Int /\ 0 <= t /\ t < InvalidTime
  /\ Indices \in SUBSET Int /\ \A i \in Indices : 1 <= i /\ i <= Points
  /\ Points \in Int
BY WeekAssumption, DayAssumption DEF InvalidTime, TimesOfDay, Indices

\* The first and the last of some places.
LEMMA FirstPlace ==
  ASSUME NEW P \in SUBSET Indices, P # {}
  PROVE  EarliestOf(P) \in P /\ \A i \in P : EarliestOf(P) <= i
<1>1. P \in SUBSET Int /\ \A i \in P : 1 <= i
  BY TimesAreInts
<1> QED BY <1>1, EarliestIs

LEMMA LastPlace ==
  ASSUME NEW P \in SUBSET Indices, P # {}
  PROVE  LatestOf(P) \in P /\ \A i \in P : i <= LatestOf(P)
<1>1. P \in SUBSET Int /\ Points \in Int /\ \A i \in P : i <= Points
  BY TimesAreInts
<1> QED BY <1>1, LatestIs

\* What sorting keeps: each place of the result has come from one of its own,
\* and all places have gone somewhere.
LEMMA ReorderedIs ==
  ASSUME NEW A \in [Indices -> Point], NEW B \in Reordered(A)
  PROVE  /\ B \in [Indices -> Point]
         /\ \A i, j \in Indices : i < j => B[i].time <= B[j].time
         /\ \E p \in [Indices -> Indices] :
              /\ \A i \in Indices : B[i] = A[p[i]]
              /\ \A i, j \in Indices : p[i] = p[j] => i = j
              /\ \A k \in Indices : \E i \in Indices : p[i] = k
<1>1. PICK p \in Bijection(Indices, Indices) :
        /\ B = [i \in Indices |-> A[p[i]]]
        /\ \A i, j \in Indices : i < j => A[p[i]].time <= A[p[j]].time
  BY DEF Reordered
<1>2. /\ p \in [Indices -> Indices]
      /\ \A i, j \in Indices : p[i] = p[j] => i = j
      /\ \A k \in Indices : \E i \in Indices : p[i] = k
  BY DEF Bijection, Injection, Surjection, IsInjective
<1> QED BY <1>1, <1>2

\* Both operations put something else in one place of the array, whose time
\* was `old', and sort; then it is the one with the new time.
LEMMA PlaceChanged ==
  ASSUME DayInv, NEW k \in Indices, NEW new \in Point,
         NEW t \in TimesOfDay, NEW history \in [TimesOfDay -> PointData \cup {Empty}],
         datapoints' \in Reordered([datapoints EXCEPT ![k] = new]),
         new.time # InvalidTime => SlotsWith(new.time) = {},
         points' = history,
         \A s \in TimesOfDay \ {t} : history[s] = points[s],
         \/ new.time = t /\ TimeAt(k) = InvalidTime /\ history[t] = new.data
         \/ new.time = InvalidTime /\ TimeAt(k) = t /\ history[t] = Empty
  PROVE  /\ datapoints' \in [Indices -> Point]
         /\ Sorted' /\ Single' /\ Agrees'
<1> DEFINE A == [datapoints EXCEPT ![k] = new]
<1>1. datapoints \in [Indices -> Point] /\ A \in [Indices -> Point]
  BY DEF DayInv, DayTypeOK, Point
<1>2. A[k] = new /\ \A i \in Indices \ {k} : A[i] = datapoints[i]
  BY <1>1
<1>3. new.time \in TimesOfDay \cup {InvalidTime}
  BY DEF Point
<1>4. \A i \in Indices : TimeAt(i) \in TimesOfDay \cup {InvalidTime}
  BY <1>1 DEF Point, TimeAt
<1> HIDE DEF A
<1>5. /\ datapoints' \in [Indices -> Point]
      /\ \A i, j \in Indices : i < j => datapoints'[i].time <= datapoints'[j].time
      /\ \E p \in [Indices -> Indices] :
           /\ \A i \in Indices : datapoints'[i] = A[p[i]]
           /\ \A i, j \in Indices : p[i] = p[j] => i = j
           /\ \A j \in Indices : \E i \in Indices : p[i] = j
  <2>1. datapoints' \in Reordered(A)
    BY DEF A
  <2>2. ASSUME NEW B \in Reordered(A)
        PROVE  /\ B \in [Indices -> Point]
               /\ \A i, j \in Indices : i < j => B[i].time <= B[j].time
               /\ \E p \in [Indices -> Indices] :
                    /\ \A i \in Indices : B[i] = A[p[i]]
                    /\ \A i, j \in Indices : p[i] = p[j] => i = j
                    /\ \A j \in Indices : \E i \in Indices : p[i] = j
    BY <1>1, ReorderedIs
  <2> QED BY <2>1, <2>2
<1>6. PICK p \in [Indices -> Indices] :
           /\ \A i \in Indices : datapoints'[i] = A[p[i]]
           /\ \A i, j \in Indices : p[i] = p[j] => i = j
           /\ \A j \in Indices : \E i \in Indices : p[i] = j
  BY <1>5
<1>7. Sorted'
  BY <1>5 DEF Sorted, TimeAt
<1>8. \A i, j \in Indices : A[i].time = A[j].time /\ A[i].time # InvalidTime => i = j
  <2>1. \A i \in Indices \ {k} : A[i].time = TimeAt(i)
    BY <1>2 DEF TimeAt
  <2>2. \A i \in Indices : new.time # InvalidTime => TimeAt(i) # new.time
    BY DEF SlotsWith, TimeAt
  <2> QED BY <1>2, <2>1, <2>2 DEF DayInv, Single
<1>9. Single'
  BY <1>6, <1>8 DEF Single, TimeAt
<1>10. /\ \A i \in Indices : A[i].time # InvalidTime => history[A[i].time] = A[i].data
       /\ \A s \in TimesOfDay : (\A i \in Indices : A[i].time # s) => history[s] = Empty
  <2>1. ASSUME NEW i \in Indices, A[i].time # InvalidTime
        PROVE  history[A[i].time] = A[i].data
    <3>1. CASE i = k
      BY <1>2, <2>1, <3>1
    <3>2. CASE i # k
      <4>1. A[i] = datapoints[i] /\ A[i].time = TimeAt(i)
        BY <1>2, <3>2 DEF TimeAt
      <4>2. TimeAt(i) # t
        <5>1. CASE new.time = t
          BY <5>1, TimesAreInts DEF SlotsWith, TimeAt
        <5>2. CASE TimeAt(k) = t
          BY <5>2, <3>2, TimesAreInts DEF DayInv, Single
        <5> QED BY <5>1, <5>2
      <4>3. TimeAt(i) \in TimesOfDay \ {t}
        BY <1>4, <2>1, <4>1, <4>2
      <4>4. points[TimeAt(i)] = datapoints[i].data
        BY <2>1, <4>1 DEF DayInv, Agrees
      <4> QED BY <4>1, <4>3, <4>4
    <3> QED BY <3>1, <3>2
  <2>2. ASSUME NEW s \in TimesOfDay, \A i \in Indices : A[i].time # s
        PROVE  history[s] = Empty
    <3>1. CASE s = t
      BY <1>2, <2>2, <3>1
    <3>2. CASE s # t
      <4>1. TimeAt(k) # s
        BY <3>2, TimesAreInts
      <4>2. \A i \in Indices : TimeAt(i) # s
        BY <1>2, <2>2, <4>1 DEF TimeAt
      <4>3. points[s] = Empty
        BY <4>2 DEF DayInv, Agrees, SlotsWith, TimeAt
      <4> QED BY <3>2, <4>3
    <3> QED BY <3>1, <3>2
  <2> QED BY <2>1, <2>2
<1>11. Agrees'
  <2>1. ASSUME NEW i \in Indices, TimeAt(i)' # InvalidTime
        PROVE  points'[TimeAt(i)'] = datapoints'[i].data
    BY <1>6, <1>10, <2>1 DEF TimeAt
  <2>2. ASSUME NEW s \in TimesOfDay, SlotsWith(s)' = {} PROVE points'[s] = Empty
    <3>1. \A i \in Indices : datapoints'[i].time # s
      BY <2>2 DEF SlotsWith
    <3>2. \A i \in Indices : A[i].time # s
      BY <1>6, <3>1
    <3> QED BY <1>10, <3>2
  <2> QED BY <2>1, <2>2 DEF Agrees, InvalidTime, TimesOfDay, Empty
<1> QED BY <1>5, <1>7, <1>9, <1>11

LEMMA DayInvariant == DaySpec => []DayInv
<1>1. DayInit => DayInv
  <2> SUFFICES ASSUME DayInit PROVE DayInv
    OBVIOUS
  <2>1. \A i \in Indices : TimeAt(i) = InvalidTime
    BY DEF DayInit, Unused, TimeAt
  <2>2. DayTypeOK
    BY DEF DayInit, Unused, DayTypeOK
  <2>3. Sorted
    BY <2>1, TimesAreInts DEF Sorted
  <2>4. Single /\ Agrees
    BY <2>1 DEF Single, Agrees, DayInit
  <2> QED BY <2>2, <2>3, <2>4 DEF DayInv
<1>2. DayInv /\ [DayNext]_dayVars => DayInv'
  <2> SUFFICES ASSUME DayInv, [DayNext]_dayVars PROVE DayInv'
    OBVIOUS
  <2>1. ASSUME NEW t \in TimesOfDay, NEW data \in PointData, Insert(t, data)
        PROVE  DayInv'
    <3> DEFINE k == EarliestOf(SlotsWith(InvalidTime))
               new == [time |-> t, data |-> data]
               history == [points EXCEPT ![t] = data]
    <3>1. k \in Indices /\ TimeAt(k) = InvalidTime
      <4>1. SlotsWith(InvalidTime) \in SUBSET Indices /\ SlotsWith(InvalidTime) # {}
        BY <2>1 DEF Insert, SlotsWith
      <4>2. k \in SlotsWith(InvalidTime)
        BY <4>1, FirstPlace
      <4> QED BY <4>2 DEF SlotsWith, TimeAt
    <3>2. /\ datapoints' \in Reordered([datapoints EXCEPT ![k] = new])
          /\ points' = history /\ moment' = moment /\ SlotsWith(t) = {}
      BY <2>1 DEF Insert
    <3>3. new \in Point /\ new.time = t /\ new.data = data
      BY DEF Point
    <3>4. /\ history \in [TimesOfDay -> PointData \cup {Empty}]
          /\ history[t] = data
          /\ \A s \in TimesOfDay \ {t} : history[s] = points[s]
      BY DEF DayInv, DayTypeOK
    <3> HIDE DEF k, new, history
    <3>5. datapoints' \in [Indices -> Point] /\ Sorted' /\ Single' /\ Agrees'
      BY <3>1, <3>2, <3>3, <3>4, PlaceChanged
    <3>6. DayTypeOK'
      BY <3>2, <3>4, <3>5 DEF DayInv, DayTypeOK, Point
    <3> QED BY <3>5, <3>6 DEF DayInv
  <2>2. ASSUME NEW t \in TimesOfDay, RemovePoint(t) PROVE DayInv'
    <3> DEFINE k == EarliestOf(SlotsWith(t))
               new == [datapoints[k] EXCEPT !.time = InvalidTime]
               history == [points EXCEPT ![t] = Empty]
    <3>1. k \in Indices /\ TimeAt(k) = t
      <4>1. SlotsWith(t) \in SUBSET Indices /\ SlotsWith(t) # {}
        BY <2>2 DEF RemovePoint, SlotsWith
      <4>2. k \in SlotsWith(t)
        BY <4>1, FirstPlace
      <4> QED BY <4>2 DEF SlotsWith, TimeAt
    <3> HIDE DEF k
    <3>2. datapoints[k] \in Point
      BY <3>1 DEF DayInv, DayTypeOK, Point
    <3>3. /\ datapoints' \in Reordered([datapoints EXCEPT ![k] = new])
          /\ points' = history /\ moment' = moment
      BY <2>2 DEF RemovePoint, k
    <3>4. new \in Point /\ new.time = InvalidTime
      BY <3>2 DEF Point
    <3>5. /\ history \in [TimesOfDay -> PointData \cup {Empty}]
          /\ history[t] = Empty
          /\ \A s \in TimesOfDay \ {t} : history[s] = points[s]
      BY DEF DayInv, DayTypeOK
    <3> HIDE DEF new, history
    <3>6. datapoints' \in [Indices -> Point] /\ Sorted' /\ Single' /\ Agrees'
      BY <3>1, <3>3, <3>4, <3>5, PlaceChanged
    <3>7. DayTypeOK'
      BY <3>3, <3>5, <3>6 DEF DayInv, DayTypeOK, Point
    <3> QED BY <3>6, <3>7 DEF DayInv
  <2>3. CASE TimePasses
    <3>1. UNCHANGED <<datapoints, points>>
      BY <2>3 DEF TimePasses
    <3>2. moment' \in Week .. 2 * Week - 1
      <4>1. Week \in Nat \ {0} /\ moment \in Week .. 2 * Week - 1
        BY WeekAssumption DEF Week, DayInv, DayTypeOK
      <4>2. moment' = IF moment = 2 * Week - 1 THEN Week ELSE moment + 1
        BY <2>3 DEF TimePasses
      <4> HIDE DEF Week
      <4> QED BY <4>1, <4>2
    <3> QED
      BY <3>1, <3>2 DEF DayInv, DayTypeOK, Sorted, Single, Agrees, TimeAt, SlotsWith
  <2>4. CASE UNCHANGED dayVars
    BY <2>4 DEF dayVars, DayInv, DayTypeOK, Sorted, Single, Agrees, TimeAt, SlotsWith
  <2> QED BY <2>1, <2>2, <2>3, <2>4 DEF DayNext
<1> QED BY <1>1, <1>2, PTL DEF DaySpec

\* The variables of a day's schedule keep their types, for any number of
\* points and any data: no place has a time the day does not have.
THEOREM DayTypesCorrect == DaySpec => []DayTypeOK
<1>1. DayInv => DayTypeOK
  BY DEF DayInv
<1> QED BY <1>1, DayInvariant, PTL

-----------------------------------------------------------------------------
\* In a sorted array the first and the last of some places have the first and
\* the last of their times.
LEMMA FirstTime ==
  ASSUME Sorted, NEW P \in SUBSET Indices, P # {},
         \A i \in Indices : TimeAt(i) \in Int
  PROVE  TimeAt(EarliestOf(P)) = EarliestOf({TimeAt(i) : i \in P})
<1>1. EarliestOf(P) \in P /\ \A i \in P : EarliestOf(P) <= i
  BY FirstPlace
<1>2. \A i \in P : TimeAt(EarliestOf(P)) <= TimeAt(i)
  <2> DEFINE e == EarliestOf(P)
  <2>1. e \in Indices /\ \A i \in P : i \in Int /\ e \in Int
    BY <1>1, TimesAreInts
  <2> HIDE DEF e
  <2>2. \A i \in P : e = i \/ e < i
    BY <1>1, <2>1 DEF e
  <2>3. \A i \in P : TimeAt(e) <= TimeAt(i)
    BY <2>1, <2>2 DEF Sorted
  <2> QED BY <2>3 DEF e
<1> DEFINE first == EarliestOf(P)
           T == {TimeAt(i) : i \in P}
<1>3. TimeAt(first) \in T /\ T \in SUBSET Int /\ \A t \in T : TimeAt(first) <= t
  BY <1>1, <1>2
<1> HIDE DEF first, T
<1>4. EarliestOf(T) = TimeAt(first)
  BY <1>3, EarliestUnique
<1> QED BY <1>4 DEF first, T

LEMMA LastTime ==
  ASSUME Sorted, NEW P \in SUBSET Indices, P # {},
         \A i \in Indices : TimeAt(i) \in Int
  PROVE  TimeAt(LatestOf(P)) = LatestOf({TimeAt(i) : i \in P})
<1>1. LatestOf(P) \in P /\ \A i \in P : i <= LatestOf(P)
  BY LastPlace
<1>2. \A i \in P : TimeAt(i) <= TimeAt(LatestOf(P))
  <2> DEFINE e == LatestOf(P)
  <2>1. e \in Indices /\ \A i \in P : i \in Int /\ e \in Int
    BY <1>1, TimesAreInts
  <2> HIDE DEF e
  <2>2. \A i \in P : e = i \/ i < e
    BY <1>1, <2>1 DEF e
  <2>3. \A i \in P : TimeAt(i) <= TimeAt(e)
    BY <2>1, <2>2 DEF Sorted
  <2> QED BY <2>3 DEF e
<1> DEFINE last == LatestOf(P)
           T == {TimeAt(i) : i \in P}
<1>3. TimeAt(last) \in T /\ T \in SUBSET Int /\ \A t \in T : t <= TimeAt(last)
  BY <1>1, <1>2
<1> HIDE DEF last, T
<1>4. LatestOf(T) = TimeAt(last)
  BY <1>3, LatestUnique
<1> QED BY <1>4 DEF last, T

\* The events of a channel are the times of the places with a value and a time.
LEMMA EventsOfPlaces ==
  ASSUME DayInv, NEW c \in DayChannels
  PROVE  /\ Events(c) = {TimeAt(i) : i \in Given(c)}
         /\ Events(c) \in SUBSET TimesOfDay
         /\ \A i \in Given(c) : points[TimeAt(i)][c] = datapoints[i].data[c]
         /\ \A i \in Indices : TimeAt(i) \in Int
<1>1. \A i \in Indices : TimeAt(i) \in TimesOfDay \cup {InvalidTime}
  BY DEF DayInv, DayTypeOK, TimeAt
<1>2. ASSUME NEW i \in Given(c)
      PROVE  /\ TimeAt(i) \in Events(c)
             /\ points[TimeAt(i)][c] = datapoints[i].data[c]
  <2>1. i \in Indices /\ TimeAt(i) # InvalidTime /\ datapoints[i].data[c] # NoValue
    BY DEF Given, With, TimeAt
  <2>2. points[TimeAt(i)] = datapoints[i].data
    BY <2>1 DEF DayInv, Agrees
  <2> QED BY <1>1, <2>1, <2>2 DEF Events
<1>3. ASSUME NEW t \in Events(c) PROVE \E i \in Given(c) : t = TimeAt(i)
  <2>1. t \in TimesOfDay /\ points[t][c] # NoValue
    BY DEF Events
  <2>2. Empty[c] = NoValue
    BY DEF Empty
  <2>3. SlotsWith(t) # {}
    BY <2>1, <2>2 DEF DayInv, Agrees
  <2>4. PICK i \in Indices : TimeAt(i) = t
    BY <2>3 DEF SlotsWith, TimeAt
  <2>5. t # InvalidTime
    BY <2>1, TimesAreInts
  <2>6. points[t] = datapoints[i].data
    BY <2>4, <2>5 DEF DayInv, Agrees
  <2>7. i \in Given(c)
    BY <2>1, <2>4, <2>5, <2>6 DEF Given, With, TimeAt
  <2> QED BY <2>4, <2>7
<1>4. Events(c) \in SUBSET TimesOfDay
  BY DEF Events
<1>5. \A i \in Indices : TimeAt(i) \in Int
  BY <1>1, TimesAreInts
<1> QED BY <1>2, <1>3, <1>4, <1>5

\* The search from the back finds the event CurrentEvent names,
LEMMA CurrentFound ==
  ASSUME DayInv, NEW c \in DayChannels, Events(c) # {}, NEW t \in WeekTimes
  PROVE  LET e == CurrentEvent(Events(c), t)
         IN  CurrentStatus(c, t) = [time |-> e, value |-> points[e % Slots][c]]
<1>1. /\ Events(c) = {TimeAt(i) : i \in Given(c)}
      /\ Events(c) \in SUBSET TimesOfDay
      /\ \A i \in Given(c) : points[TimeAt(i)][c] = datapoints[i].data[c]
      /\ \A i \in Indices : TimeAt(i) \in Int
  BY EventsOfPlaces
<1>2. Given(c) \in SUBSET Indices /\ Given(c) # {}
  BY <1>1 DEF Given, With
<1>3. t \in Int /\ t % Slots \in 0 .. Slots - 1 /\ t \div Slots \in Int
  <2>1. t \in Int
    BY WeekAssumption DEF WeekTimes, Week
  <2> QED BY <2>1, WeekAssumption, Division
<1>4. BegunPlaces(c, t) = {i \in Given(c) : TimeAt(i) <= t % Slots}
  <2>1. ~ (InvalidTime <= t % Slots)
    BY <1>3, WeekAssumption DEF InvalidTime
  <2> QED BY <2>1 DEF BegunPlaces, Given, With, TimeAt
<1>5. Begun(Events(c), t) = {TimeAt(i) : i \in BegunPlaces(c, t)}
  BY <1>1, <1>4 DEF Begun
<1>6. ASSUME NEW i \in Given(c), NEW day \in Int
      PROVE  Status(day, i, c) = [time |-> day * Slots + TimeAt(i),
                                  value |-> points[(day * Slots + TimeAt(i)) % Slots][c]]
  <2>1. TimeAt(i) \in 0 .. Slots - 1
    BY <1>1 DEF TimesOfDay
  <2>2. (Slots * day + TimeAt(i)) % Slots = TimeAt(i)
    BY <2>1, SlotOfDay
  <2>3. Slots * day = day * Slots
    BY WeekAssumption
  <2>4. points[TimeAt(i)][c] = datapoints[i].data[c]
    BY <1>1
  <2> QED BY <2>2, <2>3, <2>4 DEF Status, TimeAt
<1>7. CASE BegunPlaces(c, t) # {}
  <2> DEFINE i == LatestOf(BegunPlaces(c, t))
             day == t \div Slots
  <2>1. i \in Given(c)
    <3>1. BegunPlaces(c, t) \in SUBSET Indices
      BY <1>2, <1>4
    <3> QED BY <1>4, <1>7, <3>1, LastPlace
  <2>2. TimeAt(i) = LatestOf(Begun(Events(c), t))
    <3>1. BegunPlaces(c, t) \in SUBSET Indices
      BY <1>2, <1>4
    <3>2. Sorted
      BY DEF DayInv
    <3>3. TimeAt(i) = LatestOf({TimeAt(j) : j \in BegunPlaces(c, t)})
      BY <1>1, <1>7, <3>1, <3>2, LastTime
    <3> QED BY <1>5, <3>3
  <2>3. Begun(Events(c), t) # {}
    BY <1>5, <1>7
  <2>4. CurrentStatus(c, t) = Status(day, i, c)
    BY <1>7 DEF CurrentStatus
  <2>5. CurrentEvent(Events(c), t) = day * Slots + TimeAt(i)
    BY <2>2, <2>3 DEF CurrentEvent
  <2> HIDE DEF i, day
  <2>6. day \in Int
    BY <1>3 DEF day
  <2> QED BY <1>6, <2>1, <2>4, <2>5, <2>6
<1>8. CASE BegunPlaces(c, t) = {}
  <2> DEFINE i == LatestOf(Given(c))
             day == PreviousDay(t \div Slots)
  <2>1. i \in Given(c)
    BY <1>2, LastPlace
  <2>2. TimeAt(i) = LatestOf(Events(c))
    <3>1. Sorted
      BY DEF DayInv
    <3>2. TimeAt(i) = LatestOf({TimeAt(j) : j \in Given(c)})
      BY <1>1, <1>2, <3>1, LastTime
    <3> QED BY <1>1, <3>2
  <2>3. Begun(Events(c), t) = {}
    BY <1>5, <1>8
  <2>4. CurrentStatus(c, t) = Status(day, i, c)
    BY <1>8 DEF CurrentStatus
  <2>5. CurrentEvent(Events(c), t) = day * Slots + TimeAt(i)
    BY <2>2, <2>3 DEF CurrentEvent
  <2>6. day \in Int
    BY <1>3, WeekAssumption DEF PreviousDay
  <2> HIDE DEF i, day
  <2> QED BY <1>6, <2>1, <2>4, <2>5, <2>6
<1> QED BY <1>7, <1>8

\* ... and the search from the front the one NextEvent names.  The unused places
\* come last, so that it meets one only where no event is left in the day.
LEMMA NextFound ==
  ASSUME DayInv, NEW c \in DayChannels, Events(c) # {}, NEW t \in WeekTimes
  PROVE  LET e == NextEvent(Events(c), t)
         IN  NextStatus(c, t) = [time |-> e, value |-> points[e % Slots][c]]
<1>1. /\ Events(c) = {TimeAt(i) : i \in Given(c)}
      /\ Events(c) \in SUBSET TimesOfDay
      /\ \A i \in Given(c) : points[TimeAt(i)][c] = datapoints[i].data[c]
      /\ \A i \in Indices : TimeAt(i) \in Int
  BY EventsOfPlaces
<1>2. /\ Given(c) \in SUBSET Indices /\ Given(c) # {}
      /\ LaterPlaces(c, t) \in SUBSET Indices
      /\ Sorted
  BY <1>1 DEF Given, With, LaterPlaces, DayInv
<1>3. t \in Int /\ t % Slots \in 0 .. Slots - 1 /\ t \div Slots \in Int
  <2>1. t \in Int
    BY WeekAssumption DEF WeekTimes, Week
  <2> QED BY <2>1, WeekAssumption, Division
<1>4. ToCome(Events(c), t) = {TimeAt(i) : i \in Given(c) \cap LaterPlaces(c, t)}
  BY <1>1 DEF ToCome, LaterPlaces, Given, With, TimeAt
<1>5. ASSUME NEW i \in Given(c), NEW day \in Int
      PROVE  Status(day, i, c) = [time |-> day * Slots + TimeAt(i),
                                  value |-> points[(day * Slots + TimeAt(i)) % Slots][c]]
  <2>1. TimeAt(i) \in 0 .. Slots - 1
    BY <1>1 DEF TimesOfDay
  <2>2. (Slots * day + TimeAt(i)) % Slots = TimeAt(i)
    BY <2>1, SlotOfDay
  <2>3. Slots * day = day * Slots
    BY WeekAssumption
  <2>4. points[TimeAt(i)][c] = datapoints[i].data[c]
    BY <1>1
  <2> QED BY <2>2, <2>3, <2>4 DEF Status, TimeAt
<1> DEFINE first == EarliestOf(LaterPlaces(c, t))
<1>6. LaterPlaces(c, t) # {} =>
        /\ first \in LaterPlaces(c, t)
        /\ TimeAt(first) = EarliestOf({TimeAt(i) : i \in LaterPlaces(c, t)})
        /\ \A i \in LaterPlaces(c, t) : TimeAt(first) <= TimeAt(i)
  <2>1. SUFFICES ASSUME LaterPlaces(c, t) # {}
                 PROVE  /\ first \in LaterPlaces(c, t)
                        /\ TimeAt(first) = EarliestOf({TimeAt(i) : i \in LaterPlaces(c, t)})
                        /\ \A i \in LaterPlaces(c, t) : TimeAt(first) <= TimeAt(i)
    OBVIOUS
  <2>2. first \in LaterPlaces(c, t) /\ \A i \in LaterPlaces(c, t) : first <= i
    BY <1>2, <2>1, FirstPlace
  <2>3. TimeAt(first) = EarliestOf({TimeAt(i) : i \in LaterPlaces(c, t)})
    BY <1>1, <1>2, <2>1, FirstTime
  <2> HIDE DEF first
  <2>4. \A i \in LaterPlaces(c, t) : first = i \/ first < i
    <3>1. \A i \in LaterPlaces(c, t) : i \in Int
      BY <1>2, TimesAreInts
    <3> QED BY <2>2, <3>1
  <2>5. \A i \in LaterPlaces(c, t) : TimeAt(first) <= TimeAt(i)
    BY <1>1, <1>2, <2>2, <2>4 DEF Sorted
  <2> QED BY <2>2, <2>3, <2>5
<1>7. ASSUME NEW i \in LaterPlaces(c, t), TimeAt(i) # InvalidTime PROVE i \in Given(c)
  BY <1>7 DEF LaterPlaces, Given, TimeAt
<1>8. CASE ToCome(Events(c), t) # {}
  <2>1. PICK i \in Given(c) \cap LaterPlaces(c, t) : TRUE
    BY <1>4, <1>8
  <2>2. TimeAt(i) \in TimesOfDay
    BY <1>1, <2>1
  <2>3. TimeAt(first) <= TimeAt(i) /\ first \in LaterPlaces(c, t)
    BY <1>6, <2>1
  <2>4. TimeAt(first) # InvalidTime
    <3> HIDE DEF first
    <3> QED BY <1>1, <1>2, <2>2, <2>3, TimesAreInts
  <2>5. FindsNext(c, t)
    BY <2>1, <2>4 DEF FindsNext, TimeAt
  <2>6. first \in Given(c)
    BY <1>7, <2>3, <2>4
  <2>7. EarliestOf(ToCome(Events(c), t)) = TimeAt(first)
    <3> DEFINE T == ToCome(Events(c), t)
    <3>1. T \in SUBSET Int
      BY <1>1, TimesAreInts DEF ToCome
    <3>2. TimeAt(first) \in T /\ \A u \in T : TimeAt(first) <= u
      BY <1>4, <1>6, <2>1, <2>3, <2>6
    <3> HIDE DEF T, first
    <3>3. EarliestOf(T) = TimeAt(first)
      BY <3>1, <3>2, EarliestUnique
    <3> QED BY <3>3 DEF T
  <2>8. NextStatus(c, t) = Status(t \div Slots, first, c)
    BY <2>5 DEF NextStatus
  <2>9. NextEvent(Events(c), t) = (t \div Slots) * Slots + TimeAt(first)
    BY <1>8, <2>7 DEF NextEvent
  <2> HIDE DEF first
  <2> QED BY <1>3, <1>5, <2>6, <2>8, <2>9
<1>9. CASE ToCome(Events(c), t) = {}
  <2> DEFINE i == EarliestOf(Given(c))
             day == NextDay(t \div Slots)
  <2>1. ~ FindsNext(c, t)
    <3>1. SUFFICES ASSUME FindsNext(c, t) PROVE FALSE
      OBVIOUS
    <3>2. LaterPlaces(c, t) # {} /\ TimeAt(first) # InvalidTime
      BY <3>1 DEF FindsNext, TimeAt
    <3>3. first \in Given(c) \cap LaterPlaces(c, t)
      BY <1>6, <1>7, <3>2
    <3> HIDE DEF first
    <3> QED BY <1>4, <1>9, <3>3
  <2>2. i \in Given(c)
    BY <1>2, FirstPlace
  <2>3. TimeAt(i) = EarliestOf(Events(c))
    <3>1. TimeAt(i) = EarliestOf({TimeAt(j) : j \in Given(c)})
      BY <1>1, <1>2, FirstTime
    <3> QED BY <1>1, <3>1
  <2>4. NextStatus(c, t) = Status(day, i, c)
    BY <2>1 DEF NextStatus
  <2>5. NextEvent(Events(c), t) = day * Slots + TimeAt(i)
    BY <1>9, <2>3 DEF NextEvent
  <2>6. day \in Int
    BY <1>3, WeekAssumption DEF NextDay
  <2> HIDE DEF i, day
  <2> QED BY <1>5, <2>2, <2>4, <2>5, <2>6
<1> QED BY <1>8, <1>9

-----------------------------------------------------------------------------
\* A moment's place in the day is that of its time of the week.
LEMMA WeekKeepsSlot ==
  ASSUME NEW a \in Int
  PROVE  a % Week \in WeekTimes /\ (a % Week) % Slots = a % Slots
<1> DEFINE y == Days * (a \div Week) + (a % Week) \div Slots
           r == (a % Week) % Slots
<1>1. /\ a % Week \in WeekTimes /\ a \div Week \in Int
      /\ (a % Week) \div Slots \in 0 .. Days - 1
      /\ r \in 0 .. Slots - 1 /\ a = Slots * y + r
  BY Placement
<1>2. y \in Int
  BY <1>1, WeekAssumption
<1> HIDE DEF y, r
<1>3. (Slots * y + r) % Slots = r
  BY <1>1, <1>2, SlotOfDay
<1> QED BY <1>1, <1>3 DEF r

LEMMA MomentIsInt == ASSUME DayInv PROVE moment \in Int
<1>1. Week \in Int
  BY WeekAssumption DEF Week
<1>2. moment \in Week .. 2 * Week - 1
  BY DEF DayInv, DayTypeOK
<1> HIDE DEF Week
<1> QED BY <1>1, <1>2

\* What both trackers are told, in terms of the events on the line of time.
LEMMA BothFound ==
  ASSUME DayInv, NEW c \in DayChannels, Events(c) # {}
  PROVE  LET occurred == Occurrence(Events(c), moment)
             next     == NextOccurrence(Events(c), moment)
         IN  /\ CurrentStatus(c, moment % Week) =
                  [time |-> occurred % Week, value |-> points[occurred % Slots][c]]
             /\ NextStatus(c, moment % Week) =
                  [time |-> next % Week, value |-> points[next % Slots][c]]
             /\ points[occurred % Slots][c] \in Int
             /\ points[next % Slots][c] \in Int
<1> DEFINE o == Occurrence(Events(c), moment)
           n == NextOccurrence(Events(c), moment)
<1>1. moment \in Int /\ moment % Week \in WeekTimes
  BY MomentIsInt, WeekKeepsSlot
<1>2. Events(c) \in SUBSET TimesOfDay
  BY DEF Events
<1>3. o \in Int /\ o % Slots \in Events(c)
  BY <1>1, <1>2, OccurrenceIs
<1>4. n \in Int /\ n % Slots \in Events(c)
  BY <1>1, <1>2, NextOccurrenceIs
<1>5. /\ CurrentEvent(Events(c), moment % Week) = o % Week
      /\ NextEvent(Events(c), moment % Week) = n % Week
  BY <1>1, <1>2, CurrentIsOccurrence, NextIsOccurrence
<1>6. /\ CurrentStatus(c, moment % Week)
           = [time |-> o % Week, value |-> points[(o % Week) % Slots][c]]
      /\ NextStatus(c, moment % Week)
           = [time |-> n % Week, value |-> points[(n % Week) % Slots][c]]
  BY <1>1, <1>5, CurrentFound, NextFound
<1>7. (o % Week) % Slots = o % Slots /\ (n % Week) % Slots = n % Slots
  BY <1>3, <1>4, WeekKeepsSlot
<1>8. ASSUME NEW t \in Events(c) PROVE points[t][c] \in Int
  <2>1. t \in TimesOfDay /\ points[t][c] # NoValue
    BY DEF Events
  <2>2. points[t] \in PointData \cup {Empty}
    BY <2>1 DEF DayInv, DayTypeOK
  <2>3. points[t] # Empty
    BY <2>1 DEF Empty
  <2> QED BY <2>1, <2>2, <2>3, DayAssumption
<1> HIDE DEF o, n
<1>9. points[o % Slots][c] \in Int /\ points[n % Slots][c] \in Int
  BY <1>3, <1>4, <1>8
<1> QED BY <1>6, <1>7, <1>9 DEF o, n

\* Whatever was inserted and removed in whatever order, and however the sort
\* orders what has the same time, the searches over the array of any length
\* find the events in effect and next, with their values.
THEOREM SearchesFind == DaySpec => []SearchFinds
<1>1. DayInv => SearchFinds
  <2> SUFFICES ASSUME DayInv, NEW c \in DayChannels
               PROVE  /\ Given(c) = {} <=> Events(c) = {}
                      /\ Events(c) # {} =>
                           LET occurred == Occurrence(Events(c), moment)
                               next     == NextOccurrence(Events(c), moment)
                           IN  /\ CurrentStatus(c, moment % Week) =
                                    [time |-> occurred % Week,
                                     value |-> points[occurred % Slots][c]]
                               /\ NextStatus(c, moment % Week) =
                                    [time |-> next % Week,
                                     value |-> points[next % Slots][c]]
    BY DEF SearchFinds
  <2>1. Given(c) = {} <=> Events(c) = {}
    <3>1. Events(c) = {TimeAt(i) : i \in Given(c)}
      BY EventsOfPlaces
    <3> QED BY <3>1
  <2> QED BY <2>1, BothFound
<1> QED BY <1>1, DayInvariant, PTL

-----------------------------------------------------------------------------
\* The gap between an event and the next one, and where it is seen from the
\* time of the week: the distance is the gap's, or where the week ends in it,
\* the gap's less a week.
LEMMA GapWraps ==
  ASSUME NEW events \in SUBSET TimesOfDay, events # {}, NEW a \in Int
  PROVE  LET o == Occurrence(events, a)
             n == NextOccurrence(events, a)
         IN  /\ o \in Int /\ n \in Int /\ o <= a /\ a < n /\ n - o <= Week
             /\ InEffectSince(a % Week, o % Week) = a - o
             /\ o \div Week # n \div Week => (n % Week) - (o % Week) = n - o - Week
<1> DEFINE o == Occurrence(events, a)
           n == NextOccurrence(events, a)
<1>1. Week \in Nat \ {0} /\ Slots <= Week /\ Slots \in Nat \ {0}
  <2>1. CASE Days = 1
    BY <2>1, WeekAssumption DEF Week
  <2>2. CASE Days > 1
    <3>1. Slots * Days >= Slots * 1 + Slots
      BY <2>2, WeekAssumption, Multiples
    <3>2. Slots * Days = Week
      BY WeekAssumption DEF Week
    <3> QED BY <3>1, <3>2, WeekAssumption DEF Week
  <2> QED BY <2>1, <2>2, WeekAssumption
<1>2. o \in Int /\ a - Slots < o /\ o <= a /\ o % Slots \in events
  BY OccurrenceIs
<1>3. /\ n \in Int /\ a < n
      /\ \A u \in Int : a < u /\ u <= a + Slots /\ u % Slots \in events => n <= u
  BY NextOccurrenceIs
<1> HIDE DEF o, n
<1>4. (o + Slots) % Slots = o % Slots
  <2> DEFINE q == o \div Slots
             r == o % Slots
  <2>1. q \in Int /\ r \in 0 .. Slots - 1 /\ o = Slots * q + r
    BY <1>1, <1>2, Division
  <2> HIDE DEF q, r
  <2>2. o + Slots = Slots * (q + 1) + r
    BY <1>1, <2>1
  <2>3. (Slots * (q + 1) + r) % Slots = r
    <3>1. q + 1 \in Int
      BY <2>1
    <3> QED BY <2>1, <3>1, SlotOfDay
  <2> QED BY <2>2, <2>3 DEF r
<1>5. n <= o + Slots
  <2>1. o + Slots \in Int /\ a < o + Slots /\ o + Slots <= a + Slots
    BY <1>1, <1>2
  <2> QED BY <1>2, <1>3, <1>4, <2>1
<1>6. n - o <= Week
  BY <1>1, <1>2, <1>3, <1>5
<1>7. InEffectSince(a % Week, o % Week) = a - o
  <2> DEFINE s == a % Week
             e == o % Week
  <2>1. s \in 0 .. Week - 1 /\ e \in 0 .. Week - 1
    BY <1>1, <1>2, Division
  <2>2. s - e = a - o \/ s - e = a - o - Week
    <3>1. a - o < Week
      BY <1>1, <1>2
    <3> QED BY <1>1, <1>2, <3>1, Remainders
  <2> HIDE DEF s, e
  <2>3. InEffectSince(s, e) = a - o
    BY <1>1, <1>2, <2>1, <2>2 DEF InEffectSince
  <2> QED BY <2>3 DEF s, e
<1>8. ASSUME o \div Week # n \div Week
      PROVE  (n % Week) - (o % Week) = n - o - Week
  <2> DEFINE p == o \div Week
             q == n \div Week
             s == n % Week
             e == o % Week
  <2>1. /\ p \in Int /\ e \in 0 .. Week - 1 /\ o = Week * p + e
        /\ q \in Int /\ s \in 0 .. Week - 1 /\ n = Week * q + s
    BY <1>1, <1>2, <1>3, Division
  <2>2. p # q
    BY <1>8
  <2> HIDE DEF p, q, s, e
  <2>3. CASE n - o < Week
    <3>1. s - e = n - o \/ s - e = n - o - Week
      <4>1. o <= n
        BY <1>2, <1>3
      <4>2. (n % Week) - (o % Week) = n - o \/ (n % Week) - (o % Week) = n - o - Week
        BY <1>1, <1>2, <1>3, <2>3, <4>1, Remainders
      <4> QED BY <4>2 DEF s, e
    <3>2. ~ (s - e = n - o)
      <4>1. SUFFICES ASSUME s - e = n - o PROVE FALSE
        OBVIOUS
      <4>2. Week * p \in Int /\ Week * q \in Int
        BY <1>1, <2>1
      <4>3. Week * p = Week * q
        <5> DEFINE x == Week * p
                   y == Week * q
        <5>1. x \in Int /\ y \in Int /\ o = x + e /\ n = y + s /\ e \in Int /\ s \in Int
          BY <2>1, <4>2
        <5> HIDE DEF x, y
        <5>2. x = y
          BY <4>1, <5>1
        <5> QED BY <5>2 DEF x, y
      <4>4. p > q => Week * p >= Week * q + Week
        BY <1>1, <2>1, Multiples
      <4>5. q > p => Week * q >= Week * p + Week
        BY <1>1, <2>1, Multiples
      <4> QED BY <1>1, <2>1, <2>2, <4>2, <4>3, <4>4, <4>5
    <3> QED BY <3>1, <3>2 DEF s, e
  <2>4. CASE n - o = Week
    <3>1. n = Week * (p + 1) + e
      BY <1>1, <1>2, <1>3, <2>1, <2>4
    <3>2. p + 1 \in Int
      BY <2>1
    <3>3. n % Week = e
      BY <1>1, <1>3, <2>1, <3>1, <3>2, DivisionUnique
    <3> QED BY <1>1, <1>2, <1>3, <2>1, <2>4, <3>3 DEF e
  <2> QED BY <1>1, <1>2, <1>3, <1>6, <2>3, <2>4
<1> QED BY <1>2, <1>3, <1>6, <1>7, <1>8 DEF o, n

\* What the interpolation makes of a distance that is a week too short: it goes
\* the wrong way, and not far.
LEMMA RunsAway ==
  ASSUME NEW v \in Int, NEW w \in Int, NEW since \in Nat, NEW gap \in Nat,
         NEW week \in Nat, since <= gap, gap <= week,
         NEW value, NEW D \in Int, D = gap - week,
         value = IF since = 0 THEN [num |-> v, den |-> 1]
                 ELSE [num |-> v * D + (w - v) * since, den |-> D]
  PROVE  LET moved == value.num - v * value.den
         IN  /\ moved * value.den * (w - v) <= 0
             /\ Size(moved) * (week - gap) <= Size(w - v) * gap * Size(value.den)
<1> DEFINE moved == value.num - v * value.den
           change == w - v
<1>1. change \in Int /\ Size(change) \in Nat
  BY DEF Size
<1>2. CASE since = 0
  <2>1. value.den = 1 /\ moved = 0
    BY <1>2
  <2> HIDE DEF change, moved
  <2>2. Size(0) = 0 /\ Size(1) = 1
    BY DEF Size
  <2>3. moved * value.den * change <= 0
    BY <1>1, <2>1
  <2>4. Size(moved) * (week - gap) = 0
    BY <2>1, <2>2
  <2>5. Size(change) * gap * Size(value.den) >= 0
    <3>1. Size(change) * gap \in Nat
      BY <1>1
    <3> QED BY <2>1, <2>2, <3>1
  <2>6. Size(moved) * (week - gap) <= Size(change) * gap * Size(value.den)
    BY <1>1, <2>1, <2>2, <2>4, <2>5
  <2> QED BY <2>3, <2>6 DEF change, moved
<1>3. CASE since # 0
  <2>1. value.den = D /\ moved = change * since
    <3>1. value.num = v * D + change * since /\ value.den = D
      BY <1>3
    <3> DEFINE x == v * D
               y == change * since
    <3>2. x \in Int /\ y \in Int
      OBVIOUS
    <3>3. moved = (x + y) - x
      BY <3>1
    <3> HIDE DEF x, y, moved
    <3>4. moved = y
      BY <3>2, <3>3
    <3> QED BY <3>1, <3>4 DEF y
  <2> HIDE DEF change, moved
  <2>2. - D \in Nat /\ Size(D) = - D /\ week - gap = - D
    BY DEF Size
  <2>3. change * change \in Nat
    BY <1>1
  <2>4. moved * D * change <= 0
    <3>1. change * change * since \in Nat
      BY <2>3
    <3>2. (change * change * since) * (- D) \in Nat
      BY <2>2, <3>1
    <3>3. moved * D * change = - ((change * change * since) * (- D))
      BY <1>1, <2>1
    <3> QED BY <3>2, <3>3
  <2>5. Size(moved) = Size(change) * since
    <3>1. CASE change < 0
      <4>1. change * since < 0
        BY <1>1, <1>3, <3>1
      <4> QED BY <1>1, <2>1, <3>1, <4>1 DEF Size
    <3>2. CASE change >= 0
      <4>1. change * since >= 0
        BY <1>1, <3>2
      <4> QED BY <1>1, <2>1, <3>2, <4>1 DEF Size
    <3> QED BY <1>1, <3>1, <3>2
  <2>6. Size(change) * since * (- D) <= Size(change) * gap * (- D)
    <3>1. Size(change) * since <= Size(change) * gap
      BY <1>1
    <3> DEFINE x == Size(change) * since
               y == Size(change) * gap
    <3>2. x \in Nat /\ y \in Nat /\ x <= y
      BY <1>1, <3>1
    <3> HIDE DEF x, y
    <3>3. x * (- D) <= y * (- D)
      BY <2>2, <3>2
    <3> QED BY <3>3 DEF x, y
  <2>7. Size(moved) * (week - gap) <= Size(change) * gap * Size(value.den)
    BY <2>1, <2>2, <2>5, <2>6
  <2> QED BY <2>1, <2>4, <2>7 DEF change, moved
<1> QED BY <1>2, <1>3

\* The value interpolated from the array is on the line from the event in
\* effect to the next one, or where the week ends between them, on the wrong
\* side by no more than the share the gap has of the rest of the week; for any
\* points, values and lengths of day and week.
THEOREM InterpolatesBetween == DaySpec => []Interpolates
<1>1. DayInv => Interpolates
  <2> SUFFICES ASSUME DayInv, NEW c \in DayChannels, Events(c) # {}
               PROVE  LET occurred == Occurrence(Events(c), moment)
                          next     == NextOccurrence(Events(c), moment)
                          from     == points[occurred % Slots][c]
                          change   == points[next % Slots][c] - from
                          value    == Interpolated(c, moment % Week)
                          moved    == value.num - from * value.den
                      IN  IF occurred \div Week = next \div Week
                          THEN moved * (next - occurred)
                                 = change * (moment - occurred) * value.den
                          ELSE /\ moved * value.den * change <= 0
                               /\ Size(moved) * (Week - (next - occurred))
                                    <= Size(change) * (next - occurred) * Size(value.den)
    BY DEF Interpolates
  <2> DEFINE o == Occurrence(Events(c), moment)
             n == NextOccurrence(Events(c), moment)
             v == points[o % Slots][c]
             w == points[n % Slots][c]
             value == Interpolated(c, moment % Week)
  <2>1. moment \in Int /\ Events(c) \in SUBSET TimesOfDay
    BY MomentIsInt DEF Events
  <2>2. /\ value = Interpolation([time |-> o % Week, value |-> v],
                                 [time |-> n % Week, value |-> w], moment % Week)
        /\ v \in Int /\ w \in Int
    BY BothFound DEF Interpolated
  <2>3. /\ o \in Int /\ n \in Int /\ o <= moment /\ moment < n /\ n - o <= Week
        /\ InEffectSince(moment % Week, o % Week) = moment - o
        /\ o \div Week # n \div Week => (n % Week) - (o % Week) = n - o - Week
    BY <2>1, GapWraps
  <2>4. CASE o \div Week = n \div Week
    <3>1. /\ CurrentEvent(Events(c), moment % Week) = o % Week
          /\ NextEvent(Events(c), moment % Week) = n % Week
      BY <2>1, CurrentIsOccurrence, NextIsOccurrence
    <3>2. (value.num - v * value.den) * (n - o) = (w - v) * (moment - o) * value.den
      <4> HIDE DEF v, w, value
      <4> DEFINE same == Interpolation(
                   [time |-> CurrentEvent(Events(c), moment % Week), value |-> v],
                   [time |-> NextEvent(Events(c), moment % Week), value |-> w],
                   moment % Week)
      <4>1. (same.num - v * same.den) * (n - o) = (w - v) * (moment - o) * same.den
        BY <2>1, <2>2, <2>4, InterpolationOnLine
      <4>2. same = value
        BY <2>2, <3>1
      <4> QED BY <4>1, <4>2
    <3> QED BY <2>4, <3>2
  <2>5. CASE o \div Week # n \div Week
    <3> DEFINE S == moment - o
               D == n - o - Week
    <3>1. Week \in Nat
      BY WeekAssumption DEF Week
    <3>2. value = IF S = 0 THEN [num |-> v, den |-> 1]
                  ELSE [num |-> v * D + (w - v) * S, den |-> D]
      <4> DEFINE a == [time |-> o % Week, value |-> v]
                 b == [time |-> n % Week, value |-> w]
      <4>1. value = Interpolation(a, b, moment % Week)
        BY <2>2
      <4>2. a.time = o % Week /\ a.value = v /\ b.time = n % Week /\ b.value = w
        OBVIOUS
      <4>3. b.time - a.time = D /\ InEffectSince(moment % Week, a.time) = S
        BY <2>3, <2>5
      <4> HIDE DEF a, b, S, D, value, o, n, v, w
      <4> QED BY <4>1, <4>2, <4>3 DEF Interpolation
    <3>3. /\ S \in Nat /\ n - o \in Nat /\ S <= n - o /\ D \in Int
          /\ D = (n - o) - Week
      <4> HIDE DEF o, n
      <4> QED BY <2>1, <2>3, <3>1
    <3> HIDE DEF S, D, value, v, w, o, n
    <3>4. LET moved == value.num - v * value.den
          IN  /\ moved * value.den * (w - v) <= 0
              /\ Size(moved) * (Week - (n - o)) <= Size(w - v) * (n - o) * Size(value.den)
      BY <2>2, <2>3, <3>1, <3>2, <3>3, RunsAway
    <3> QED BY <2>5, <3>4 DEF value, v, w, o, n
  <2> HIDE DEF value, v, w, o, n
  <2> QED BY <2>4, <2>5 DEF value, v, w, o, n
<1> QED BY <1>1, DayInvariant, PTL

-----------------------------------------------------------------------------
\* The parts of MCResources share no state: a behaviour of all is one of each,
\* so that what is proved of each part holds where they are checked together.
LEMMA PartsAlone == Spec => BufferSpec /\ ResourceSpec /\ DaySpec
<1>1. Init => BufferInit /\ ResourceInit /\ DayInit
  BY DEF Init
<1>2. [Next]_vars =>
        [BufferNext]_bufferVars /\ [ResourceNext]_resources /\ [DayNext]_dayVars
  BY DEF Next, BufferStep, ResourceStep, DayStep, vars
<1> QED BY <1>1, <1>2, PTL DEF Spec, BufferSpec, ResourceSpec, DaySpec

\* All that the run of MCResources checks, for every value of the constants:
\* what is lent is lent once and comes back, and schedules are read as written.
THEOREM PartsCorrect ==
  Spec => [](/\ TypeOK
             /\ OneHolder /\ NoEmptyUse
             /\ PinsExclusive /\ PwmIndependent /\ AddressesExclusive /\ BootKeeps
             /\ SearchFinds /\ Interpolates)
<1>1. BufferTypeOK /\ ResourceTypeOK /\ DayTypeOK => TypeOK
  BY DEF TypeOK
<1>2. BufferSpec => [](BufferTypeOK /\ OneHolder /\ NoEmptyUse)
  BY TypeCorrect, BuffersAccounted, EnoughBuffers, PTL
<1>3. ResourceSpec =>
        [](ResourceTypeOK /\ PinsExclusive /\ PwmIndependent /\ AddressesExclusive /\ BootKeeps)
  BY ResourceTypesCorrect, PinsApart, PwmApart, AddressesApart, OrderOfSlots, PTL
<1>4. DaySpec => [](DayTypeOK /\ SearchFinds /\ Interpolates)
  BY DayTypesCorrect, SearchesFind, InterpolatesBetween, PTL
<1> QED BY <1>1, <1>2, <1>3, <1>4, PartsAlone, PTL
=============================================================================
