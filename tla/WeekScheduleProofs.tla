------------------------- MODULE WeekScheduleProofs -------------------------
(***************************************************************************)
(* What the search for the current event returns: CurrentEvent, computed   *)
(* from a time of the week, agrees with Occurrence, computed on the time   *)
(* line that does not wrap.  The proofs about ScheduleDriver rest on it.   *)
(***************************************************************************)
EXTENDS WeekSchedule, WellFoundedInduction, TLAPS

\* A number is its quotient times n and its remainder ...
LEMMA Division ==
  ASSUME NEW a \in Int, NEW n \in Nat \ {0}
  PROVE  a % n \in 0 .. n - 1 /\ a \div n \in Int /\ a = n * (a \div n) + (a % n)
  OBVIOUS

\* ... and there is one such pair.
LEMMA DivisionUnique ==
  ASSUME NEW n \in Nat \ {0}, NEW q \in Int, NEW r \in 0 .. n - 1,
         NEW a \in Int, a = n * q + r
  PROVE  a % n = r /\ a \div n = q
  OBVIOUS

LEMMA Multiples ==
  ASSUME NEW n \in Nat \ {0}, NEW x \in Int, NEW y \in Int, x > y
  PROVE  n * x >= n * y + n
  OBVIOUS

\* Two moments less than n apart: the later has the greater remainder, or they
\* lie in two neighbouring weeks.
LEMMA Remainders ==
  ASSUME NEW n \in Nat \ {0}, NEW a \in Int, NEW b \in Int, a <= b, b - a < n
  PROVE  \/ (b % n) - (a % n) = b - a
         \/ (b % n) - (a % n) = b - a - n
<1> DEFINE p == a \div n
           q == b \div n
<1>1. /\ p \in Int /\ q \in Int /\ a % n \in 0 .. n - 1 /\ b % n \in 0 .. n - 1
      /\ a = n * p + (a % n) /\ b = n * q + (b % n)
  BY Division
<1> HIDE DEF p, q
<1>2. ~ (p > q)
  BY <1>1, Multiples
<1>3. ~ (q > p + 1)
  <2>1. SUFFICES ASSUME q > p + 1 PROVE FALSE
    OBVIOUS
  <2>2. n * q >= n * (p + 1) + n
    BY <1>1, <2>1, Multiples
  <2>3. n * (p + 1) = n * p + n
    BY <1>1
  <2>4. n * q \in Int /\ n * p \in Int /\ n * (p + 1) \in Int
    BY <1>1
  <2> QED BY <1>1, <2>2, <2>3, <2>4
<1>4. CASE q = p
  BY <1>1, <1>4
<1>5. CASE q = p + 1
  <2>1. n * q = n * p + n
    BY <1>1, <1>5
  <2> QED BY <1>1, <2>1
<1> QED BY <1>1, <1>2, <1>3, <1>4, <1>5

-----------------------------------------------------------------------------
\* A set of integers with a bound has a greatest element.
LEMMA LatestExists ==
  ASSUME NEW S \in SUBSET Int, S # {}, NEW hi \in Int, \A s \in S : s <= hi
  PROVE  \E s \in S : \A u \in S : u <= s
<1> DEFINE T == {hi - s : s \in S}
<1>1. T \subseteq Nat /\ T # {}
  <2>1. \A s \in S : hi - s \in Nat
    OBVIOUS
  <2> QED BY <2>1
<1>2. PICK x \in T : \A y \in T : ~ (<<y, x>> \in OpToRel(<, Nat))
  BY <1>1, NatLessThanWellFounded, WFMin
<1>3. \A y \in T : ~ (y < x)
  BY <1>1, <1>2 DEF OpToRel
<1>4. PICK s \in S : x = hi - s
  OBVIOUS
<1>5. ASSUME NEW u \in S PROVE u <= s
  <2>1. hi - u \in T
    OBVIOUS
  <2>2. ~ (hi - u < hi - s)
    BY <1>3, <1>4, <2>1
  <2> QED BY <2>2
<1> QED BY <1>5

\* LatestOf is it.
LEMMA LatestIs ==
  ASSUME NEW S \in SUBSET Int, S # {}, NEW hi \in Int, \A s \in S : s <= hi
  PROVE  LatestOf(S) \in S /\ \A u \in S : u <= LatestOf(S)
<1>1. \E s \in S : \A u \in S : u <= s
  BY LatestExists
<1> QED BY <1>1 DEF LatestOf

LEMMA LatestUnique ==
  ASSUME NEW S \in SUBSET Int, NEW s \in S, \A u \in S : u <= s
  PROVE  LatestOf(S) = s
<1>1. LatestOf(S) \in S /\ \A u \in S : u <= LatestOf(S)
  <2>1. \E t \in S : \A u \in S : u <= t
    OBVIOUS
  <2> QED BY <2>1 DEF LatestOf
<1>2. LatestOf(S) <= s /\ s <= LatestOf(S)
  BY <1>1
<1>3. LatestOf(S) \in Int /\ s \in Int
  BY <1>1
<1> HIDE DEF LatestOf
<1> QED BY <1>2, <1>3

-----------------------------------------------------------------------------
\* What is to be shown of a moment for it to be the current occurrence.
LEMMA OccurrenceUnique ==
  ASSUME NEW events \in SUBSET TimesOfDay, NEW moment \in Int, NEW o \in Int,
         moment - Slots < o, o <= moment, o % Slots \in events,
         \A u \in Int : o < u /\ u <= moment => u % Slots \notin events
  PROVE  Occurrence(events, moment) = o
<1> DEFINE S == {u \in moment - Slots + 1 .. moment : u % Slots \in events}
<1> USE WeekAssumption
<1>1. S \in SUBSET Int /\ o \in S
  <2>1. o \in moment - Slots + 1 .. moment
    OBVIOUS
  <2>2. \A u \in moment - Slots + 1 .. moment : u \in Int
    OBVIOUS
  <2> QED BY <2>1, <2>2
<1>2. ASSUME NEW u \in S PROVE u <= o
  <2>1. u \in Int /\ u <= moment /\ u % Slots \in events
    BY <1>1
  <2>2. ~ (o < u)
    BY <2>1
  <2> QED BY <2>1, <2>2
<1>3. LatestOf(S) = o
  BY <1>1, <1>2, LatestUnique
<1> QED BY <1>3 DEF Occurrence

\* An event occurs every day.
LEMMA OccurrenceIs ==
  ASSUME NEW events \in SUBSET TimesOfDay, events # {}, NEW moment \in Int
  PROVE  LET o == Occurrence(events, moment) IN
         /\ o \in Int /\ moment - Slots < o /\ o <= moment
         /\ o % Slots \in events
         /\ \A u \in Int : o < u /\ u <= moment => u % Slots \notin events
<1> DEFINE S == {u \in moment - Slots + 1 .. moment : u % Slots \in events}
<1> USE WeekAssumption
<1>1. PICK e \in events : e \in 0 .. Slots - 1
  BY DEF TimesOfDay
<1> DEFINE q == (moment - e) \div Slots
           r == (moment - e) % Slots
<1>2. q \in Int /\ r \in 0 .. Slots - 1 /\ moment - e = Slots * q + r
  <2>1. moment - e \in Int
    BY <1>1
  <2> QED BY <2>1, Division
<1> HIDE DEF q, r
<1>3. moment - r \in Int /\ moment - r = Slots * q + e
  BY <1>2, <1>1
<1>4. (moment - r) % Slots = e
  <2> DEFINE a == moment - r
  <2>1. e \in 0 .. Slots - 1
    BY <1>1
  <2>2. a \in Int /\ a = Slots * q + e
    BY <1>3
  <2> HIDE DEF a, S
  <2>3. a % Slots = e
    BY <1>2, <2>1, <2>2, DivisionUnique
  <2> QED BY <2>3 DEF a
<1>5. moment - r \in S
  <2>1. moment - r \in moment - Slots + 1 .. moment
    BY <1>2, <1>3
  <2> QED BY <1>4, <2>1
<1>6. S \in SUBSET Int /\ S # {} /\ \A u \in S : u <= moment
  <2>1. \A u \in moment - Slots + 1 .. moment : u \in Int /\ u <= moment
    OBVIOUS
  <2> QED BY <1>5, <2>1
<1>7. LatestOf(S) \in S /\ \A u \in S : u <= LatestOf(S)
  <2> HIDE DEF S
  <2> QED BY <1>6, LatestIs
<1>8. Occurrence(events, moment) = LatestOf(S)
  BY DEF Occurrence
<1>9. ASSUME NEW u \in Int, LatestOf(S) < u, u <= moment
      PROVE  u % Slots \notin events
  <2>1. u \in moment - Slots + 1 .. moment
    BY <1>7, <1>9
  <2> QED BY <2>1, <1>7, <1>9
<1> QED BY <1>7, <1>8, <1>9

\* Between an occurrence and a later moment it is still current at, nothing
\* new occurs; so occurrences are monotone in the moment.
LEMMA OccurrenceStays ==
  ASSUME NEW events \in SUBSET TimesOfDay, events # {},
         NEW a \in Int, NEW b \in Int, a <= b, Occurrence(events, b) <= a
  PROVE  Occurrence(events, a) = Occurrence(events, b)
<1> DEFINE o == Occurrence(events, b)
<1>1. /\ o \in Int /\ b - Slots < o /\ o <= b
      /\ o % Slots \in events
      /\ \A u \in Int : o < u /\ u <= b => u % Slots \notin events
  BY OccurrenceIs
<1>2. o <= a
  OBVIOUS
<1> HIDE DEF o
<1>3. a - Slots < o /\ o <= a
  BY <1>1, <1>2, WeekAssumption
<1>4. ASSUME NEW u \in Int, o < u, u <= a PROVE u % Slots \notin events
  <2>1. u <= b
    BY <1>4
  <2> QED BY <1>1, <1>4, <2>1
<1>5. Occurrence(events, a) = o
  BY <1>1, <1>3, <1>4, OccurrenceUnique
<1> QED BY <1>5 DEF o

LEMMA OccurrenceIdempotent ==
  ASSUME NEW events \in SUBSET TimesOfDay, events # {}, NEW moment \in Int
  PROVE  Occurrence(events, Occurrence(events, moment)) = Occurrence(events, moment)
<1> DEFINE o == Occurrence(events, moment)
<1>1. o \in Int /\ o <= moment
  BY OccurrenceIs
<1>2. Occurrence(events, moment) <= o
  BY <1>1
<1> HIDE DEF o
<1>3. Occurrence(events, o) = Occurrence(events, moment)
  BY <1>1, <1>2, OccurrenceStays
<1> QED BY <1>3 DEF o

LEMMA OccurrenceMonotone ==
  ASSUME NEW events \in SUBSET TimesOfDay, events # {},
         NEW a \in Int, NEW b \in Int, a <= b
  PROVE  Occurrence(events, a) <= Occurrence(events, b)
<1> DEFINE p == Occurrence(events, a)
           q == Occurrence(events, b)
<1>1. p \in Int /\ q \in Int /\ p <= a
  BY OccurrenceIs
<1>2. CASE q <= a
  BY <1>1, <1>2, OccurrenceStays
<1>3. CASE a < q
  <2>1. p <= q
    <3> HIDE DEF p, q
    <3> QED BY <1>1, <1>3
  <2> QED BY <2>1
<1> QED BY <1>1, <1>2, <1>3

-----------------------------------------------------------------------------
\* The occurrence at slot `time' of day x: the last event begun in that day,
LEMMA OccurrenceToday ==
  ASSUME NEW events \in SUBSET TimesOfDay, NEW x \in Int,
         NEW time \in TimesOfDay, NEW last \in events, last <= time,
         \A e \in events : e <= time => e <= last
  PROVE  Occurrence(events, Slots * x + time) = Slots * x + last
<1> DEFINE base == Slots * x
           o == base + last
           moment == base + time
<1>1. base \in Int /\ time \in 0 .. Slots - 1 /\ last \in 0 .. Slots - 1
  BY WeekAssumption DEF TimesOfDay
<1>2. ASSUME NEW r \in 0 .. Slots - 1 PROVE (base + r) % Slots = r
  <2> DEFINE a == base + r
  <2>1. a \in Int /\ a = Slots * x + r
    BY <1>1
  <2> HIDE DEF a
  <2>2. a % Slots = r
    BY <2>1, WeekAssumption, DivisionUnique
  <2> QED BY <2>2 DEF a
<1>3. base = Slots * x
  OBVIOUS
<1> HIDE DEF base
<1>4. o \in Int /\ moment \in Int /\ moment - Slots < o /\ o <= moment
  BY <1>1, WeekAssumption
<1>5. o % Slots \in events
  BY <1>1, <1>2
<1>6. ASSUME NEW u \in Int, o < u, u <= moment PROVE u % Slots \notin events
  <2>1. u - base \in 0 .. Slots - 1 /\ last < u - base /\ u - base <= time
    BY <1>1, <1>6, WeekAssumption
  <2>2. base + (u - base) = u
    BY <1>1
  <2>3. u % Slots = u - base
    BY <1>2, <2>1, <2>2
  <2>4. u - base \notin events
    BY <1>1, <2>1
  <2> QED BY <2>3, <2>4
<1>7. Occurrence(events, moment) = o
  <2> HIDE DEF o, moment
  <2> QED BY <1>4, <1>5, <1>6, OccurrenceUnique
<1> QED BY <1>3, <1>7

\* ... or where none has, the last event of the day before.
LEMMA OccurrenceYesterday ==
  ASSUME NEW events \in SUBSET TimesOfDay, NEW x \in Int,
         NEW time \in TimesOfDay, NEW last \in events,
         \A e \in events : time < e /\ e <= last
  PROVE  Occurrence(events, Slots * x + time) = Slots * (x - 1) + last
<1> DEFINE base == Slots * x
           o == base - Slots + last
           moment == base + time
<1>1. base \in Int /\ time \in 0 .. Slots - 1 /\ last \in 0 .. Slots - 1
      /\ Slots * (x - 1) = base - Slots
  BY WeekAssumption DEF TimesOfDay
<1>2. ASSUME NEW y \in Int, NEW r \in 0 .. Slots - 1
      PROVE  (Slots * y + r) % Slots = r
  <2> DEFINE a == Slots * y + r
  <2>1. a \in Int /\ a = Slots * y + r
    BY WeekAssumption
  <2> HIDE DEF a
  <2>2. a % Slots = r
    BY <2>1, WeekAssumption, DivisionUnique
  <2> QED BY <2>2 DEF a
<1>3. base = Slots * x
  OBVIOUS
<1> HIDE DEF base
<1>4. o \in Int /\ moment \in Int /\ moment - Slots < o /\ o <= moment
  BY <1>1, WeekAssumption
<1>5. o % Slots \in events
  <2>1. o = Slots * (x - 1) + last
    BY <1>1
  <2>2. (Slots * (x - 1) + last) % Slots = last
    BY <1>1, <1>2
  <2> HIDE DEF o
  <2> QED BY <2>1, <2>2
<1>6. ASSUME NEW u \in Int, o < u, u <= moment PROVE u % Slots \notin events
  <2>1. CASE base <= u
    <3>1. u - base \in 0 .. Slots - 1 /\ u - base <= time
      BY <1>1, <1>6, <2>1, WeekAssumption
    <3>2. Slots * x + (u - base) = u
      BY <1>1, <1>3
    <3>3. u % Slots = u - base
      BY <1>2, <3>1, <3>2
    <3>4. u - base \notin events
      BY <1>1, <3>1
    <3> QED BY <3>3, <3>4
  <2>2. CASE u < base
    <3> DEFINE r == u - base + Slots
    <3>1. r \in 0 .. Slots - 1 /\ last < r
      BY <1>1, <1>6, <2>2, WeekAssumption
    <3>2. Slots * (x - 1) + r = u
      BY <1>1, WeekAssumption
    <3> HIDE DEF r
    <3>3. u % Slots = r
      <4>1. (Slots * (x - 1) + r) % Slots = r
        BY <1>2, <3>1
      <4> QED BY <3>2, <4>1
    <3>4. r \notin events
      BY <1>1, <3>1
    <3> QED BY <3>3, <3>4
  <2> QED BY <1>1, <2>1, <2>2
<1>7. Occurrence(events, moment) = o
  <2> HIDE DEF o, moment
  <2> QED BY <1>4, <1>5, <1>6, OccurrenceUnique
<1> QED BY <1>1, <1>3, <1>7

-----------------------------------------------------------------------------
\* The same for the next occurrence: a set of integers with a lower bound has a
\* least element, EarliestOf is it, and no other.
LEMMA EarliestIs ==
  ASSUME NEW S \in SUBSET Int, S # {}, NEW lo \in Int, \A s \in S : lo <= s
  PROVE  EarliestOf(S) \in S /\ \A u \in S : EarliestOf(S) <= u
<1> DEFINE T == {- s : s \in S}
<1>1. T \in SUBSET Int /\ T # {} /\ \A s \in T : s <= - lo
  <2>1. \A s \in S : - s \in Int /\ - s <= - lo
    OBVIOUS
  <2> QED BY <2>1
<1>2. PICK t \in T : \A u \in T : u <= t
  <2> HIDE DEF T
  <2>1. - lo \in Int
    OBVIOUS
  <2> QED BY <1>1, <2>1, LatestExists
<1>3. PICK s \in S : t = - s
  BY <1>2
<1>4. ASSUME NEW u \in S PROVE s <= u
  <2>1. - u \in T
    OBVIOUS
  <2>2. - u <= - s
    BY <1>2, <1>3, <2>1
  <2> QED BY <2>2
<1>5. \E e \in S : \A u \in S : e <= u
  BY <1>4
<1> QED BY <1>5 DEF EarliestOf

LEMMA EarliestUnique ==
  ASSUME NEW S \in SUBSET Int, NEW s \in S, \A u \in S : s <= u
  PROVE  EarliestOf(S) = s
<1>1. EarliestOf(S) \in S /\ \A u \in S : EarliestOf(S) <= u
  <2>1. \E t \in S : \A u \in S : t <= u
    OBVIOUS
  <2> QED BY <2>1 DEF EarliestOf
<1>2. EarliestOf(S) <= s /\ s <= EarliestOf(S)
  BY <1>1
<1>3. EarliestOf(S) \in Int /\ s \in Int
  BY <1>1
<1> HIDE DEF EarliestOf
<1> QED BY <1>2, <1>3

LEMMA NextUnique ==
  ASSUME NEW events \in SUBSET TimesOfDay, NEW moment \in Int, NEW o \in Int,
         moment < o, o <= moment + Slots, o % Slots \in events,
         \A u \in Int : moment < u /\ u < o => u % Slots \notin events
  PROVE  NextOccurrence(events, moment) = o
<1> DEFINE S == {u \in moment + 1 .. moment + Slots : u % Slots \in events}
<1> USE WeekAssumption
<1>1. S \in SUBSET Int /\ o \in S
  <2>1. o \in moment + 1 .. moment + Slots
    OBVIOUS
  <2>2. \A u \in moment + 1 .. moment + Slots : u \in Int
    OBVIOUS
  <2> QED BY <2>1, <2>2
<1>2. ASSUME NEW u \in S PROVE o <= u
  <2>1. u \in Int /\ moment < u /\ u % Slots \in events
    BY <1>1
  <2>2. ~ (u < o)
    BY <2>1
  <2> QED BY <2>1, <2>2
<1>3. EarliestOf(S) = o
  BY <1>1, <1>2, EarliestUnique
<1> QED BY <1>3 DEF NextOccurrence

\* A slot of a day on the line of time.
LEMMA SlotOfDay ==
  ASSUME NEW y \in Int, NEW r \in 0 .. Slots - 1
  PROVE  (Slots * y + r) % Slots = r
<1> DEFINE a == Slots * y + r
<1>1. a \in Int /\ a = Slots * y + r
  BY WeekAssumption
<1> HIDE DEF a
<1>2. a % Slots = r
  BY <1>1, WeekAssumption, DivisionUnique
<1> QED BY <1>2 DEF a

\* The next occurrence after slot `time' of day x: the first event to come in
\* that day,
LEMMA NextToday ==
  ASSUME NEW events \in SUBSET TimesOfDay, NEW x \in Int,
         NEW time \in TimesOfDay, NEW first \in events, time < first,
         \A e \in events : time < e => first <= e
  PROVE  NextOccurrence(events, Slots * x + time) = Slots * x + first
<1> DEFINE base == Slots * x
           o == base + first
           moment == base + time
<1>1. base \in Int /\ time \in 0 .. Slots - 1 /\ first \in 0 .. Slots - 1
  BY WeekAssumption DEF TimesOfDay
<1>2. ASSUME NEW r \in 0 .. Slots - 1 PROVE (base + r) % Slots = r
  BY SlotOfDay
<1>3. base = Slots * x
  OBVIOUS
<1> HIDE DEF base
<1>4. o \in Int /\ moment \in Int /\ moment < o /\ o <= moment + Slots
  BY <1>1, WeekAssumption
<1>5. o % Slots \in events
  BY <1>1, <1>2
<1>6. ASSUME NEW u \in Int, moment < u, u < o PROVE u % Slots \notin events
  <2>1. u - base \in 0 .. Slots - 1 /\ time < u - base /\ u - base < first
    BY <1>1, <1>6, WeekAssumption
  <2>2. base + (u - base) = u
    BY <1>1
  <2>3. u % Slots = u - base
    BY <1>2, <2>1, <2>2
  <2>4. u - base \notin events
    BY <1>1, <2>1
  <2> QED BY <2>3, <2>4
<1>7. NextOccurrence(events, moment) = o
  <2> HIDE DEF o, moment
  <2> QED BY <1>4, <1>5, <1>6, NextUnique
<1> QED BY <1>3, <1>7

\* ... or where none is, the first event of the day after.
LEMMA NextTomorrow ==
  ASSUME NEW events \in SUBSET TimesOfDay, NEW x \in Int,
         NEW time \in TimesOfDay, NEW first \in events,
         \A e \in events : e <= time /\ first <= e
  PROVE  NextOccurrence(events, Slots * x + time) = Slots * (x + 1) + first
<1> DEFINE base == Slots * x
           o == base + Slots + first
           moment == base + time
<1>1. base \in Int /\ time \in 0 .. Slots - 1 /\ first \in 0 .. Slots - 1
      /\ Slots * (x + 1) = base + Slots /\ first <= time
  BY WeekAssumption DEF TimesOfDay
<1>2. base = Slots * x
  OBVIOUS
<1> HIDE DEF base
<1>3. o \in Int /\ moment \in Int /\ moment < o /\ o <= moment + Slots
  BY <1>1, WeekAssumption
<1>4. o % Slots \in events
  <2>1. o = Slots * (x + 1) + first
    BY <1>1
  <2>2. (Slots * (x + 1) + first) % Slots = first
    BY <1>1, SlotOfDay
  <2> HIDE DEF o
  <2> QED BY <2>1, <2>2
<1>5. ASSUME NEW u \in Int, moment < u, u < o PROVE u % Slots \notin events
  <2>1. CASE u < base + Slots
    <3>1. u - base \in 0 .. Slots - 1 /\ time < u - base
      BY <1>1, <1>5, <2>1, WeekAssumption
    <3>2. Slots * x + (u - base) = u
      BY <1>1, <1>2
    <3>3. u % Slots = u - base
      <4>1. (Slots * x + (u - base)) % Slots = u - base
        BY <3>1, SlotOfDay
      <4> QED BY <3>2, <4>1
    <3>4. u - base \notin events
      <4>1. u - base \in Int /\ time \in Int /\ ~ (u - base <= time)
        BY <1>1, <3>1
      <4> QED BY <4>1
    <3> QED BY <3>3, <3>4
  <2>2. CASE base + Slots <= u
    <3> DEFINE r == u - base - Slots
    <3>1. r \in 0 .. Slots - 1 /\ r < first
      BY <1>1, <1>5, <2>2, WeekAssumption
    <3>2. Slots * (x + 1) + r = u
      BY <1>1, WeekAssumption
    <3> HIDE DEF r
    <3>3. u % Slots = r
      <4>1. (Slots * (x + 1) + r) % Slots = r
        BY <3>1, SlotOfDay
      <4> QED BY <3>2, <4>1
    <3>4. r \notin events
      BY <1>1, <3>1
    <3> QED BY <3>3, <3>4
  <2> QED BY <1>1, <2>1, <2>2, WeekAssumption
<1>6. NextOccurrence(events, moment) = o
  <2> HIDE DEF o, moment
  <2> QED BY <1>3, <1>4, <1>5, NextUnique
<1> QED BY <1>1, <1>2, <1>6

-----------------------------------------------------------------------------
\* Slot e of day d in week n, counted on and in the week.
LEMMA SlotOfWeek ==
  ASSUME NEW n \in Int, NEW d \in 0 .. Days - 1, NEW e \in 0 .. Slots - 1
  PROVE  /\ Slots * (Days * n + d) + e = Week * n + (d * Slots + e)
         /\ d * Slots + e \in WeekTimes
         /\ (Slots * (Days * n + d) + e) % Week = d * Slots + e
         /\ (Slots * (Days * n + d) + e) \div Week = n
<1>1. Week \in Nat \ {0}
  BY WeekAssumption DEF Week
<1>2. Slots * (Days * n + d) + e = Week * n + (d * Slots + e)
  BY WeekAssumption DEF Week
<1>3. d * Slots + e \in 0 .. Week - 1
  <2>1. Slots * (Days - 1) >= Slots * d
    <3>1. CASE d = Days - 1
      BY <3>1, WeekAssumption
    <3>2. CASE Days - 1 > d
      <4>1. Slots * (Days - 1) >= Slots * d + Slots
        BY <3>2, WeekAssumption, Multiples
      <4> QED BY <4>1, WeekAssumption
    <3> QED BY <3>1, <3>2, WeekAssumption
  <2>2. Slots * (Days - 1) = Week - Slots /\ Slots * d = d * Slots
    BY WeekAssumption DEF Week
  <2>3. d * Slots \in Nat
    BY WeekAssumption
  <2> QED BY <1>1, <2>1, <2>2, <2>3, WeekAssumption
<1> DEFINE a == Slots * (Days * n + d) + e
           r == d * Slots + e
<1>4. a \in Int /\ a = Week * n + r /\ r \in 0 .. Week - 1
  BY <1>2, <1>3, WeekAssumption
<1>5. a % Week = r /\ a \div Week = n
  <2> HIDE DEF a, r
  <2> QED BY <1>1, <1>4, DivisionUnique
<1> QED BY <1>2, <1>3, <1>5 DEF WeekTimes

\* Where a moment lies: in a week, a day of it and a slot of that.
LEMMA Placement ==
  ASSUME NEW moment \in Int
  PROVE  LET t    == moment % Week
             k    == moment \div Week
             day  == t \div Slots
             time == t % Slots
         IN  /\ t \in WeekTimes /\ k \in Int
             /\ day \in 0 .. Days - 1 /\ time \in 0 .. Slots - 1
             /\ moment = Slots * (Days * k + day) + time
<1> DEFINE t == moment % Week
           k == moment \div Week
           day == t \div Slots
           time == t % Slots
<1>1. Week \in Nat \ {0}
  BY WeekAssumption DEF Week
<1>2. t \in 0 .. Week - 1 /\ k \in Int /\ moment = Week * k + t
  BY <1>1, Division
<1> HIDE DEF t, k
<1>3. time \in 0 .. Slots - 1 /\ day \in Int /\ t = Slots * day + time
  BY <1>2, WeekAssumption, Division
<1> HIDE DEF day, time
<1>4. day \in 0 .. Days - 1
  <2>1. Slots * Days = Week
    BY WeekAssumption DEF Week
  <2>2. ~ (0 > day)
    <3>1. SUFFICES ASSUME 0 > day PROVE FALSE
      OBVIOUS
    <3>2. Slots * 0 >= Slots * day + Slots
      BY <1>3, <3>1, WeekAssumption, Multiples
    <3> QED BY <1>2, <1>3, <3>2, WeekAssumption
  <2>3. ~ (day > Days - 1)
    <3>1. SUFFICES ASSUME day > Days - 1 PROVE FALSE
      OBVIOUS
    <3>2. Slots * day >= Slots * (Days - 1) + Slots
      BY <1>3, <3>1, WeekAssumption, Multiples
    <3>3. Slots * (Days - 1) = Week - Slots
      BY <2>1, WeekAssumption
    <3> QED BY <1>1, <1>2, <1>3, <3>2, <3>3, WeekAssumption
  <2> QED BY <1>3, <2>2, <2>3, WeekAssumption
<1>5. moment = Slots * (Days * k + day) + time
  <2>1. Slots * (Days * k + day) + time = Week * k + (day * Slots + time)
    BY <1>2, <1>3, <1>4, SlotOfWeek
  <2>2. day * Slots = Slots * day
    BY <1>3, WeekAssumption
  <2> QED BY <1>2, <1>3, <2>1, <2>2
<1> QED BY <1>2, <1>3, <1>4, <1>5 DEF WeekTimes, t, k, day, time

-----------------------------------------------------------------------------
\* CurrentEvent finds the occurrence, as a time of the week.
THEOREM CurrentIsOccurrence ==
  ASSUME NEW events \in SUBSET TimesOfDay, events # {}, NEW moment \in Int
  PROVE  /\ CurrentEvent(events, moment % Week) = Occurrence(events, moment) % Week
         /\ CurrentEvent(events, moment % Week) \in WeekTimes
<1> DEFINE t == moment % Week
           k == moment \div Week
           day == t \div Slots
           time == t % Slots
           x == Days * k + day
<1>1. Week \in Nat \ {0}
  BY WeekAssumption DEF Week
<1>2. k \in Int /\ t \in WeekTimes
  BY Placement
<1>3. time \in 0 .. Slots - 1
  BY Placement
<1>4. day \in 0 .. Days - 1
  BY Placement
<1>6. moment = Slots * x + time
  BY Placement
<1> HIDE DEF t, k, day, time
<1>5. ASSUME NEW n \in Int, NEW d \in 0 .. Days - 1, NEW e \in 0 .. Slots - 1
      PROVE  /\ d * Slots + e \in WeekTimes
             /\ (Slots * (Days * n + d) + e) % Week = d * Slots + e
  BY SlotOfWeek
<1>7. x \in Int /\ time \in TimesOfDay /\ \A e \in events : e \in 0 .. Slots - 1
  BY <1>2, <1>3, <1>4, WeekAssumption DEF TimesOfDay
<1>8. CASE Begun(events, t) # {}
  <2> DEFINE last == LatestOf(Begun(events, t))
  <2>1. last \in Begun(events, t) /\ \A e \in Begun(events, t) : e <= last
    <3>1. /\ Begun(events, t) \in SUBSET Int
          /\ \A e \in Begun(events, t) : e <= Slots
      BY <1>7, WeekAssumption DEF Begun
    <3> QED BY <1>8, <3>1, LatestIs, WeekAssumption
  <2>2. last \in events /\ last <= time /\ \A e \in events : e <= time => e <= last
    BY <2>1 DEF Begun, time
  <2>3. CurrentEvent(events, t) = day * Slots + last
    BY <1>8 DEF CurrentEvent, day
  <2> HIDE DEF last, x
  <2>4. Occurrence(events, moment) = Slots * x + last
    BY <1>6, <1>7, <2>2, OccurrenceToday
  <2>5. last \in 0 .. Slots - 1
    BY <1>7, <2>2
  <2>6. /\ (Slots * x + last) % Week = day * Slots + last
        /\ day * Slots + last \in WeekTimes
    BY <1>2, <1>4, <1>5, <2>5 DEF x
  <2> QED BY <2>3, <2>4, <2>6 DEF t
<1>9. CASE Begun(events, t) = {}
  <2> DEFINE last == LatestOf(events)
  <2>1. last \in events /\ \A e \in events : e <= last
    <3>1. /\ events \in SUBSET Int /\ events # {} /\ Slots \in Int
          /\ \A e \in events : e <= Slots
      BY <1>7, WeekAssumption
    <3>2. LatestOf(events) \in events /\ \A e \in events : e <= LatestOf(events)
      BY ONLY <3>1, LatestIs
    <3> QED BY <3>2
  <2>2. \A e \in events : time < e
    BY <1>3, <1>7, <1>9 DEF Begun, time
  <2>3. CurrentEvent(events, t) = PreviousDay(day) * Slots + last
    BY <1>9 DEF CurrentEvent, day
  <2> HIDE DEF last, x
  <2>4. Occurrence(events, moment) = Slots * (x - 1) + last
    BY <1>6, <1>7, <2>1, <2>2, OccurrenceYesterday
  <2>5. last \in 0 .. Slots - 1
    BY <1>7, <2>1
  <2>6. CASE day = 0
    <3>1. PreviousDay(day) = Days - 1 /\ Days - 1 \in 0 .. Days - 1
      BY <2>6, WeekAssumption DEF PreviousDay
    <3>2. x - 1 = Days * (k - 1) + (Days - 1)
      BY <1>2, <2>6, WeekAssumption DEF x
    <3>3. k - 1 \in Int
      BY <1>2
    <3>4. /\ (Slots * (x - 1) + last) % Week = (Days - 1) * Slots + last
          /\ (Days - 1) * Slots + last \in WeekTimes
      BY <1>5, <2>5, <3>1, <3>2, <3>3
    <3> QED BY <2>3, <2>4, <3>1, <3>4 DEF t
  <2>7. CASE day # 0
    <3>1. PreviousDay(day) = day - 1 /\ day - 1 \in 0 .. Days - 1
      BY <1>4, <2>7, WeekAssumption DEF PreviousDay
    <3>2. x - 1 = Days * k + (day - 1)
      BY <1>2, <1>4, WeekAssumption DEF x
    <3>3. /\ (Slots * (x - 1) + last) % Week = (day - 1) * Slots + last
          /\ (day - 1) * Slots + last \in WeekTimes
      BY <1>2, <1>5, <2>5, <3>1, <3>2
    <3> QED BY <2>3, <2>4, <3>1, <3>3 DEF t
  <2> QED BY <2>6, <2>7
<1> QED BY <1>8, <1>9

\* NextEvent finds the next occurrence, as a time of the week.
THEOREM NextIsOccurrence ==
  ASSUME NEW events \in SUBSET TimesOfDay, events # {}, NEW moment \in Int
  PROVE  /\ NextEvent(events, moment % Week) = NextOccurrence(events, moment) % Week
         /\ NextEvent(events, moment % Week) \in WeekTimes
<1> DEFINE t == moment % Week
           k == moment \div Week
           day == t \div Slots
           time == t % Slots
           x == Days * k + day
<1>1. Week \in Nat \ {0}
  BY WeekAssumption DEF Week
<1>2. k \in Int /\ t \in WeekTimes
  BY Placement
<1>3. time \in 0 .. Slots - 1
  BY Placement
<1>4. day \in 0 .. Days - 1
  BY Placement
<1>5. moment = Slots * x + time
  BY Placement
<1> HIDE DEF t, k, day, time
<1>6. ASSUME NEW n \in Int, NEW d \in 0 .. Days - 1, NEW e \in 0 .. Slots - 1
      PROVE  /\ d * Slots + e \in WeekTimes
             /\ (Slots * (Days * n + d) + e) % Week = d * Slots + e
  BY SlotOfWeek
<1>7. x \in Int /\ time \in TimesOfDay /\ \A e \in events : e \in 0 .. Slots - 1
  BY <1>2, <1>3, <1>4, WeekAssumption DEF TimesOfDay
<1>8. CASE ToCome(events, t) # {}
  <2> DEFINE first == EarliestOf(ToCome(events, t))
  <2>1. first \in ToCome(events, t) /\ \A e \in ToCome(events, t) : first <= e
    <3>1. /\ ToCome(events, t) \in SUBSET Int
          /\ \A e \in ToCome(events, t) : 0 <= e
      BY <1>7, WeekAssumption DEF ToCome
    <3> QED BY <1>8, <3>1, EarliestIs
  <2>2. first \in events /\ time < first /\ \A e \in events : time < e => first <= e
    BY <1>3, <1>7, <2>1 DEF ToCome, time
  <2>3. NextEvent(events, t) = day * Slots + first
    BY <1>8 DEF NextEvent, day
  <2> HIDE DEF first, x
  <2>4. NextOccurrence(events, moment) = Slots * x + first
    BY <1>5, <1>7, <2>2, NextToday
  <2>5. first \in 0 .. Slots - 1
    BY <1>7, <2>2
  <2>6. /\ (Slots * x + first) % Week = day * Slots + first
        /\ day * Slots + first \in WeekTimes
    BY <1>2, <1>4, <1>6, <2>5 DEF x
  <2> QED BY <2>3, <2>4, <2>6 DEF t
<1>9. CASE ToCome(events, t) = {}
  <2> DEFINE first == EarliestOf(events)
  <2>1. first \in events /\ \A e \in events : first <= e
    <3>1. events \in SUBSET Int /\ events # {} /\ \A e \in events : 0 <= e
      BY <1>7, WeekAssumption
    <3>2. EarliestOf(events) \in events /\ \A e \in events : EarliestOf(events) <= e
      BY ONLY <3>1, EarliestIs
    <3> QED BY <3>2
  <2>2. \A e \in events : e <= time
    BY <1>3, <1>7, <1>9 DEF ToCome, time
  <2>3. NextEvent(events, t) = NextDay(day) * Slots + first
    BY <1>9 DEF NextEvent, day
  <2> HIDE DEF first, x
  <2>4. NextOccurrence(events, moment) = Slots * (x + 1) + first
    BY <1>5, <1>7, <2>1, <2>2, NextTomorrow
  <2>5. first \in 0 .. Slots - 1
    BY <1>7, <2>1
  <2>6. CASE day = Days - 1
    <3>1. NextDay(day) = 0 /\ 0 \in 0 .. Days - 1
      BY <2>6, WeekAssumption DEF NextDay
    <3>2. x + 1 = Days * (k + 1) + 0
      BY <1>2, <2>6, WeekAssumption DEF x
    <3>3. k + 1 \in Int
      BY <1>2
    <3>4. /\ (Slots * (x + 1) + first) % Week = 0 * Slots + first
          /\ 0 * Slots + first \in WeekTimes
      BY <1>6, <2>5, <3>1, <3>2, <3>3
    <3> QED BY <2>3, <2>4, <3>1, <3>4 DEF t
  <2>7. CASE day # Days - 1
    <3>1. NextDay(day) = day + 1 /\ day + 1 \in 0 .. Days - 1
      BY <1>4, <2>7, WeekAssumption DEF NextDay
    <3>2. x + 1 = Days * k + (day + 1)
      BY <1>2, <1>4, WeekAssumption DEF x
    <3>3. /\ (Slots * (x + 1) + first) % Week = (day + 1) * Slots + first
          /\ (day + 1) * Slots + first \in WeekTimes
      BY <1>2, <1>6, <2>5, <3>1, <3>2
    <3> QED BY <2>3, <2>4, <3>1, <3>3 DEF t
  <2> QED BY <2>6, <2>7
<1> QED BY <1>8, <1>9

\* The next occurrence is later than the moment, by a day at the most.
LEMMA NextOccurrenceIs ==
  ASSUME NEW events \in SUBSET TimesOfDay, events # {}, NEW moment \in Int
  PROVE  LET n == NextOccurrence(events, moment) IN
         /\ n \in Int /\ moment < n /\ n % Slots \in events
         /\ \A u \in Int : moment < u /\ u <= moment + Slots /\ u % Slots \in events => n <= u
<1> DEFINE S == {u \in moment + 1 .. moment + Slots : u % Slots \in events}
<1> USE WeekAssumption
<1>1. PICK e \in events : e \in 0 .. Slots - 1
  BY DEF TimesOfDay
<1> DEFINE q == (moment + Slots - e) \div Slots
           r == (moment + Slots - e) % Slots
           u == Slots * q + e
<1>2. q \in Int /\ r \in 0 .. Slots - 1 /\ moment + Slots - e = Slots * q + r
  <2>1. moment + Slots - e \in Int
    BY <1>1
  <2> QED BY <2>1, Division
<1>3. u % Slots = e
  BY <1>1, <1>2, SlotOfDay
<1>4. u = moment + Slots - r
  <2>1. Slots * q \in Int
    BY <1>2
  <2> HIDE DEF q, r
  <2> QED BY <1>1, <1>2, <2>1
<1>5. u \in S
  <2> HIDE DEF u
  <2>1. u \in moment + 1 .. moment + Slots
    BY <1>2, <1>4
  <2> QED BY <1>1, <1>3, <2>1
<1>6. S \in SUBSET Int /\ S # {} /\ \A s \in S : moment + 1 <= s
  <2>1. \A s \in moment + 1 .. moment + Slots : s \in Int /\ moment + 1 <= s
    OBVIOUS
  <2> QED BY <1>5, <2>1
<1>7. EarliestOf(S) \in S /\ \A s \in S : EarliestOf(S) <= s
  <2> HIDE DEF S
  <2>1. moment + 1 \in Int
    OBVIOUS
  <2> QED BY <1>6, <2>1, EarliestIs
<1>8. NextOccurrence(events, moment) = EarliestOf(S)
  BY DEF NextOccurrence
<1>9. ASSUME NEW s \in Int, moment < s, s <= moment + Slots, s % Slots \in events
      PROVE  EarliestOf(S) <= s
  <2>1. s \in S
    BY <1>9
  <2> QED BY <1>7, <2>1
<1>10. /\ EarliestOf(S) \in Int /\ moment < EarliestOf(S)
       /\ EarliestOf(S) % Slots \in events
  BY <1>6, <1>7
<1> QED BY <1>8, <1>9, <1>10

\* Where an event and the next one are in the same week, the value asked for at
\* a moment between them is on the line from the one to the other.
THEOREM InterpolationOnLine ==
  ASSUME NEW events \in SUBSET TimesOfDay, events # {}, NEW moment \in Int,
         NEW v \in Int, NEW w \in Int,
         Occurrence(events, moment) \div Week = NextOccurrence(events, moment) \div Week
  PROVE  LET occurred == Occurrence(events, moment)
             next     == NextOccurrence(events, moment)
             value    == Interpolation(
                           [time |-> CurrentEvent(events, moment % Week), value |-> v],
                           [time |-> NextEvent(events, moment % Week), value |-> w],
                           moment % Week)
         IN  /\ value.den > 0
             /\ (value.num - v * value.den) * (next - occurred)
                  = (w - v) * (moment - occurred) * value.den
<1> DEFINE o == Occurrence(events, moment)
           n == NextOccurrence(events, moment)
           t == moment % Week
           k == o \div Week
<1>1. Week \in Nat \ {0}
  BY WeekAssumption DEF Week
<1>2. o \in Int /\ o <= moment
  BY OccurrenceIs
<1>3. n \in Int /\ moment < n
  BY NextOccurrenceIs
<1>4. k \in Int /\ o % Week \in 0 .. Week - 1 /\ o = Week * k + (o % Week)
  BY <1>1, <1>2, Division
<1>5. n % Week \in 0 .. Week - 1 /\ n = Week * k + (n % Week)
  <2>1. k = n \div Week
    OBVIOUS
  <2> HIDE DEF k, n
  <2>2. n % Week \in 0 .. Week - 1 /\ n = Week * (n \div Week) + (n % Week)
    BY <1>1, <1>3, Division
  <2> QED BY <2>1, <2>2
<1>6. CurrentEvent(events, t) = o % Week /\ NextEvent(events, t) = n % Week
  BY CurrentIsOccurrence, NextIsOccurrence
<1> DEFINE base == Week * k
<1>7. base \in Int
  BY <1>1, <1>4
<1>8. t = moment - base
  <2> DEFINE r == moment - base
  <2>1. r \in 0 .. Week - 1 /\ moment = Week * k + r
    <3> HIDE DEF k, o, n
    <3>1. base = Week * k
      OBVIOUS
    <3> HIDE DEF base
    <3> QED BY <1>1, <1>2, <1>3, <1>4, <1>5, <1>7, <3>1
  <2> HIDE DEF r, k, o, n, t, base
  <2>2. moment % Week = r
    <3>1. k \in Int
      BY <1>4
    <3> QED BY ONLY <1>1, <2>1, <3>1, moment \in Int, DivisionUnique
  <2> QED BY <2>2 DEF r, t
<1> HIDE DEF o, n, t, k
<1> DEFINE S == moment - o
           D == n - o
<1>9. /\ (n % Week) - (o % Week) = D /\ S \in Nat /\ D \in Nat \ {0}
      /\ InEffectSince(t, o % Week) = S
  <2> DEFINE a == o % Week
             b == n % Week
  <2>1. a \in Int /\ b \in Int /\ o = base + a /\ n = base + b
    BY <1>1, <1>4, <1>5
  <2>2. t >= a => InEffectSince(t, a) = t - a
    BY DEF InEffectSince
  <2> HIDE DEF base, a, b
  <2>3. b - a = D /\ S \in Nat /\ D \in Nat \ {0} /\ t - a = S /\ t >= a
    BY <1>2, <1>3, <1>7, <1>8, <2>1
  <2> QED BY <2>2, <2>3 DEF a, b
<1> DEFINE value == Interpolation([time |-> CurrentEvent(events, t), value |-> v],
                                  [time |-> NextEvent(events, t), value |-> w], t)
<1>10. value = IF S = 0 THEN [num |-> v, den |-> 1]
               ELSE [num |-> v * D + (w - v) * S, den |-> D]
  <2> DEFINE c == [time |-> o % Week, value |-> v]
             d == [time |-> n % Week, value |-> w]
  <2>1. value = Interpolation(c, d, t)
    BY <1>6
  <2>2. c.time = o % Week /\ c.value = v /\ d.time = n % Week /\ d.value = w
    OBVIOUS
  <2> HIDE DEF c, d, S, D
  <2>3. Interpolation(c, d, t) = IF S = 0 THEN [num |-> v, den |-> 1]
                                 ELSE [num |-> v * D + (w - v) * S, den |-> D]
    BY <1>9, <2>2 DEF Interpolation
  <2> QED BY <2>1, <2>3
<1> HIDE DEF S, D, value
<1>11. value.den > 0 /\ (value.num - v * value.den) * D = (w - v) * S * value.den
  <2>1. CASE S = 0
    <3>1. value.num = v /\ value.den = 1
      BY <1>10, <2>1
    <3>2. (w - v) * S = 0
      BY <2>1
    <3> HIDE DEF value
    <3> QED BY <1>9, <3>1, <3>2
  <2>2. CASE S # 0
    <3>1. value.num = v * D + (w - v) * S /\ value.den = D
      BY <1>10, <2>2
    <3> DEFINE a == v * D
               b == (w - v) * S
    <3>2. a \in Int /\ b \in Int
      BY <1>9
    <3> HIDE DEF value, a, b
    <3>3. value.num - a = b
      BY <3>1, <3>2 DEF a, b
    <3>4. value.num - v * value.den = b
      BY <3>1, <3>3 DEF a
    <3> QED BY <1>9, <3>1, <3>4 DEF b
  <2> QED BY <2>1, <2>2
<1>12. S = moment - o /\ D = n - o
  BY DEF S, D
<1>13. o = Occurrence(events, moment) /\ n = NextOccurrence(events, moment)
       /\ t = moment % Week
  BY DEF o, n, t
<1>14. value.den > 0 /\ (value.num - v * value.den) * (n - o)
                          = (w - v) * (moment - o) * value.den
  BY <1>11, <1>12
<1> QED BY <1>13, <1>14 DEF value
=============================================================================
