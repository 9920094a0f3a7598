-------------------------- MODULE SampleContainer --------------------------
(***************************************************************************)
(* SampleContainer (utils/container/sample_container.h): the last samples  *)
(* of a sensor, and the check that rejects one that lies too far from the  *)
(* last.  How far is too far is configured or else taken, once, from the   *)
(* first samples, which are accepted unchecked.                            *)
(*                                                                         *)
(* Samples are integers, a tick is a second, and rates of change are       *)
(* counted in parts of 1 / Unit per tick, so that no division is needed.   *)
(***************************************************************************)
EXTENDS RingBuffer

CONSTANTS
  Limits,    \* configured rates of change
  Unset,     \* no limit yet: infinity
  Scale,     \* a number every gap between the first samples divides
  FirstGaps, \* bound on the ticks between the first samples
  MaxAge     \* bound on the ticks since the last sample

ASSUME SampleAssumption ==
  /\ Items \subseteq Int
  /\ Capacity >= 5
  /\ Limits \subseteq Nat /\ Unset \notin Nat
  /\ Scale \in Nat \ {0} /\ FirstGaps \in Nat \ {0} /\ MaxAge \in Nat
  /\ \A gap \in 1 .. FirstGaps : Scale % gap = 0

VARIABLES
  age,     \* ticks since the last sample
  change,  \* the rates of change between the samples, summed up
  limit,   \* mMaxRateOfChange
  flat     \* history: all samples had the same absolute value

sampleVars == <<ring, age, change, limit, flat>>

Abs(n) == IF n < 0 THEN -n ELSE n

\* The number of samples that are accepted unchecked ...
Early == IF Capacity \div 2 < 2 THEN 2 ELSE Capacity \div 2
\* ... among which the limit's average is taken.
Unit == Scale * (Early - 1)

SampleInit ==
  /\ RingInit
  /\ age = 0 /\ change = 0
  /\ limit \in Limits \cup {Unset}
  /\ flat = (limit = Unset)

\* calculateTimeDifference.
Gap == IF age < 1 THEN 1 ELSE age

\* The rate of change that recalculateInternalValues adds for a sample: the
\* difference is one of absolute values.
Change(value) ==
  IF size = 0 \/ size >= Early THEN 0
  ELSE Abs(Abs(value) - Abs(Back)) * (Scale \div Gap)

\* checkSampleViability, which sets the limit at the first check: twice the
\* average rate.
LimitNow == IF limit = Unset /\ size >= Early THEN 2 * change ELSE limit

\* Mutant: the time since the last sample does not count.
CloseAtOnce(value) == Abs(value - Back) * Unit < LimitNow
Close(value) == Abs(value - Back) * Unit < LimitNow * Gap

Viable(value) == size >= Early => Close(value)

PutSample(value) ==
  /\ limit' = LimitNow
  /\ \/ /\ Viable(value)
        /\ AppendItem(value)
        /\ age' = 0
        /\ change' = change + Change(value)
        /\ flat' = (flat /\ (size > 0 => Abs(value) = Abs(Back)))
     \/ /\ ~ Viable(value)
        /\ UNCHANGED <<ring, age, change, flat>>

Wait ==
  /\ age < IF size < Early THEN FirstGaps ELSE MaxAge
  /\ age' = age + 1
  /\ UNCHANGED <<ring, change, limit, flat>>

SampleNext == (\E value \in Items : PutSample(value)) \/ Wait

SampleSpec == SampleInit /\ [][SampleNext]_sampleVars

-----------------------------------------------------------------------------

SampleTypeOK ==
  /\ RingTypeOK
  /\ age \in 0 .. FirstGaps + MaxAge
  /\ change \in Nat
  /\ limit \in Nat \cup {Unset}
  /\ flat \in BOOLEAN

\* A sensor whose value has moved away is accepted again after a while, wherever
\* it is now, unless the limit is zero.
Recovers ==
  limit \notin {0, Unset} /\ size >= Early /\ age = MaxAge
    => \A value \in Items : Viable(value)

\* Where the first samples are equal up to their sign the limit is zero, and a
\* container without a configured limit never accepts another sample, not even
\* one equal to the last: its average is that of the first for good.
FlatStartFreezes == flat => size <= Early
=============================================================================
