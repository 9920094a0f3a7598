---------------------------- MODULE WeekSchedule ----------------------------
(***************************************************************************)
(* WeekSchedule (utils/time/schedule.h, day_schedule.h): the event of one  *)
(* channel in effect at a time of the week, and the next one.  The only    *)
(* schedule the driver can be given is a repeating one, so every day has   *)
(* the same events.  The seconds of a day are cut down to Slots of them; a *)
(* time of the week counts slots from Sunday's first.                      *)
(***************************************************************************)
EXTENDS Integers

CONSTANTS
  Days,   \* the days of a week, 7 in the code
  Slots   \* the times of a day an event can have

ASSUME WeekAssumption == Days \in Nat \ {0} /\ Slots \in Nat \ {0}

Week       == Days * Slots
WeekTimes  == 0 .. Week - 1
TimesOfDay == 0 .. Slots - 1

\* The last and the first of some times of the day.
LatestOf(times)   == CHOOSE t \in times : \A u \in times : u <= t
EarliestOf(times) == CHOOSE t \in times : \A u \in times : t <= u

\* Mutant: Sunday is forgotten.
DayBefore(day) == day - 1
PreviousDay(day) == IF day = 0 THEN Days - 1 ELSE day - 1

\* Mutant: the search goes on in the day it began in.
SameDay(day) == day
NextDay(day) == IF day = Days - 1 THEN 0 ELSE day + 1

\* The events of today that have begun, and those still to come, in a day's
\* slots.
Begun(events, time)  == {e \in events : e <= time % Slots}
ToCome(events, time) == {e \in events : e > time % Slots}

\* The current event at a time of the week, as a time of the week: the last
\* one begun today, or else the last one of the day before.
CurrentEvent(events, time) ==
  LET day == time \div Slots
  IN  IF Begun(events, time) # {}
      THEN day * Slots + LatestOf(Begun(events, time))
      ELSE PreviousDay(day) * Slots + LatestOf(events)

\* The next event: the first one to come today, or else the first one of the
\* day after.  It is earlier in the week than the current one when the week
\* ends between them.
NextEvent(events, time) ==
  LET day == time \div Slots
  IN  IF ToCome(events, time) # {}
      THEN day * Slots + EarliestOf(ToCome(events, time))
      ELSE NextDay(day) * Slots + EarliestOf(events)

\* diffWithDurationSinceWeekBeginning, of two times of the week.
InEffectSince(time, event) ==
  IF time >= event THEN time - event ELSE time - event + Week

\* The value an InterpolationTracker asks for, as a fraction.  The distance to
\* the next event is negative when the week ends between the two.
Interpolation(current, next, time) ==
  LET since    == InEffectSince(time, current.time)
      distance == next.time - current.time
  IN  IF since = 0
      THEN [num |-> current.value, den |-> 1]
      ELSE [num |-> current.value * distance
                      + (next.value - current.value) * since,
            den |-> distance]

\* What the searches are to find, on the time line that does not wrap: when the
\* event in effect at a moment occurred, and when the next one will.
Occurrence(events, moment) ==
  LatestOf({o \in moment - Slots + 1 .. moment : o % Slots \in events})
NextOccurrence(events, moment) ==
  EarliestOf({o \in moment + 1 .. moment + Slots : o % Slots \in events})
=============================================================================
