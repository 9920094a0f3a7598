----------------------------- MODULE DaySchedule -----------------------------
(***************************************************************************)
(* DaySchedule (utils/time/day_schedule.h) as it is stored, an array of    *)
(* time points kept sorted by time, and what the trackers (utils/time/     *)
(* schedule_tracker.h, schedule_tracker_types.h) make of it: the value of  *)
(* a channel at a time of the week.  ScheduleDriver knows the events as    *)
(* sets; here the searches run over the array.                             *)
(***************************************************************************)
EXTENDS WeekSchedule, Functions

CONSTANTS
  Points,       \* TimePointsPerDay, 12 in the code
  DayChannels,  \* the channels a time point can have a value for
  PointData,    \* the data of the time points that are inserted
  NoValue       \* a channel without a value

ASSUME DayAssumption ==
  /\ Points \in Nat \ {0}
  /\ \A d \in PointData, c \in DayChannels : d[c] \in Int \cup {NoValue}
  /\ NoValue \notin Int

VARIABLES
  datapoints,  \* the array
  moment,      \* the local time, counted from a Sunday as in ScheduleDriver
  points       \* history: the data that was inserted for a time and not removed

dayVars == <<datapoints, moment, points>>

\* A minute later than the day has; no time point can be given it.
InvalidTime == Slots

Empty == [c \in DayChannels |-> NoValue]
Unused == [time |-> InvalidTime, data |-> Empty]
Indices == 1 .. Points

DayInit ==
  /\ datapoints = [i \in Indices |-> Unused]
  /\ moment \in Week .. 2 * Week - 1
  /\ points = [t \in TimesOfDay |-> Empty]

-----------------------------------------------------------------------------
\* Mutant: the array stays as it is.
AsItIs(array) == {array}
\* reorderSchedule: sorted by time, and no order promised where times are equal.
Reordered(array) ==
  { [i \in Indices |-> array[order[i]]] :
      order \in {p \in Bijection(Indices, Indices) :
                   \A i, j \in Indices : i < j => array[p[i]].time <= array[p[j]].time} }

SlotsWith(time) == {i \in Indices : datapoints[i].time = time}

\* insertTimePoint: the first unused place, if the time is not there yet.
Insert(time, data) ==
  /\ SlotsWith(InvalidTime) # {} /\ SlotsWith(time) = {}
  /\ datapoints' \in Reordered([datapoints EXCEPT
       ![EarliestOf(SlotsWith(InvalidTime))] = [time |-> time, data |-> data]])
  /\ points' = [points EXCEPT ![time] = data]
  /\ UNCHANGED moment

\* removeTimePoint: the data stays in the place that becomes unused.
RemovePoint(time) ==
  /\ SlotsWith(time) # {}
  /\ datapoints' \in Reordered([datapoints EXCEPT
       ![EarliestOf(SlotsWith(time))].time = InvalidTime])
  /\ points' = [points EXCEPT ![time] = Empty]
  /\ UNCHANGED moment

TimePasses ==
  /\ moment' = IF moment = 2 * Week - 1 THEN Week ELSE moment + 1
  /\ UNCHANGED <<datapoints, points>>

DayNext ==
  \/ \E time \in TimesOfDay :
       \/ \E data \in PointData : Insert(time, data)
       \/ RemovePoint(time)
  \/ TimePasses

DaySpec == DayInit /\ [][DayNext]_dayVars

-----------------------------------------------------------------------------
\* The searches of one channel's time points: the places they look at, and
\* whether what they find counts.
With(c) == {i \in Indices : datapoints[i].data[c] # NoValue}
Given(c) == {i \in With(c) : datapoints[i].time # InvalidTime}

\* getCurrentTimePointOfDay, from the back; getLastTimePointOfDay.
BegunPlaces(c, time) == {i \in With(c) : datapoints[i].time <= time % Slots}
\* getNextTimePointOfDay, from the front: it may meet an unused place that
\* still has data, and finds nothing then.
LaterPlaces(c, time) == {i \in With(c) : datapoints[i].time > time % Slots}
FindsNext(c, time) ==
  /\ LaterPlaces(c, time) # {}
  /\ datapoints[EarliestOf(LaterPlaces(c, time))].time # InvalidTime

Status(day, i, c) == [time  |-> day * Slots + datapoints[i].time,
                      value |-> datapoints[i].data[c]]

\* findEventStatus, for channels with a time point at all.
CurrentStatus(c, time) ==
  IF BegunPlaces(c, time) # {}
  THEN Status(time \div Slots, LatestOf(BegunPlaces(c, time)), c)
  ELSE Status(PreviousDay(time \div Slots), LatestOf(Given(c)), c)

NextStatus(c, time) ==
  IF FindsNext(c, time)
  THEN Status(time \div Slots, EarliestOf(LaterPlaces(c, time)), c)
  ELSE Status(NextDay(time \div Slots), EarliestOf(Given(c)), c)

\* InterpolationTracker.
Interpolated(c, time) ==
  Interpolation(CurrentStatus(c, time), NextStatus(c, time), time)

-----------------------------------------------------------------------------
DayTypeOK ==
  /\ datapoints \in [Indices -> [time : TimesOfDay \cup {InvalidTime},
                                 data : PointData \cup {Empty}]]
  /\ moment \in Week .. 2 * Week - 1
  /\ points \in [TimesOfDay -> PointData \cup {Empty}]

Events(c) == {t \in TimesOfDay : points[t][c] # NoValue}

\* Whatever was inserted and removed in whatever order, the searches over the
\* array find the events in effect and next of the time points that are there,
\* with their values, and none exactly for a channel without one.
SearchFinds ==
  \A c \in DayChannels :
    /\ Given(c) = {} <=> Events(c) = {}
    /\ Events(c) # {} =>
         LET occurred == Occurrence(Events(c), moment)
             next     == NextOccurrence(Events(c), moment)
         IN  /\ CurrentStatus(c, moment % Week) =
                  [time |-> occurred % Week, value |-> points[occurred % Slots][c]]
             /\ NextStatus(c, moment % Week) =
                  [time |-> next % Week, value |-> points[next % Slots][c]]

Size(n) == IF n < 0 THEN - n ELSE n

\* The interpolated value is on the line from the event in effect to the next
\* one.  Between the week's last event and its first it is not: it runs away
\* from the next value, by less than the share of the difference that the gap
\* has of the rest of the week.
Interpolates ==
  \A c \in DayChannels : Events(c) # {} =>
    LET occurred == Occurrence(Events(c), moment)
        next     == NextOccurrence(Events(c), moment)
        from     == points[occurred % Slots][c]
        change   == points[next % Slots][c] - from
        value    == Interpolated(c, moment % Week)
        moved    == value.num - from * value.den    \* times value.den
    IN  IF occurred \div Week = next \div Week
        THEN moved * (next - occurred) = change * (moment - occurred) * value.den
        ELSE /\ moved * value.den * change <= 0
             /\ Size(moved) * (Week - (next - occurred))
                  <= Size(change) * (next - occurred) * Size(value.den)
=============================================================================
