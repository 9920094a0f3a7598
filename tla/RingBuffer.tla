----------------------------- MODULE RingBuffer -----------------------------
(***************************************************************************)
(* RingBuffer (utils/container/ring_buffer.h): an array, the place of the  *)
(* first item in it, and the number of items.  What was removed or         *)
(* overwritten stays in the array.                                         *)
(***************************************************************************)
EXTENDS Integers

CONSTANTS
  Items,
  Capacity   \* N

ASSUME RingAssumption == Items # {} /\ Capacity \in Nat /\ Capacity > 1

VARIABLES data, offset, size

ring == <<data, offset, size>>

Places == 0 .. Capacity - 1

\* A fresh buffer; nobody has written its array.
RingInit ==
  /\ data \in [Places -> Items]
  /\ offset = 0 /\ size = 0

\* Mutant: places are counted from the array's beginning.
Unshifted(n) == n % Capacity
\* calculateRealIndex.
RealIndex(n) == (offset + n) % Capacity

\* operator[], front and back.
At(n) == data[RealIndex(n)]
Front == At(0)
Back  == At(size - 1)

Full == size = Capacity

\* Mutant: a full buffer overwrites its first item and leaves it the first.
StaysFirst == offset
NextOffset == RealIndex(1)

AppendItem(item) ==
  \/ /\ Full
     /\ data' = [data EXCEPT ![RealIndex(0)] = item]
     /\ offset' = NextOffset
     /\ UNCHANGED size
  \/ /\ ~ Full
     /\ data' = [data EXCEPT ![RealIndex(size)] = item]
     /\ size' = size + 1
     /\ UNCHANGED offset

\* removeFront and takeFront, removeBack and takeBack; on an empty buffer they
\* do nothing.
RemoveFront ==
  /\ size > 0
  /\ offset' = NextOffset
  /\ size' = size - 1
  /\ UNCHANGED data

RemoveBack ==
  /\ size > 0
  /\ size' = size - 1
  /\ UNCHANGED <<data, offset>>

RingNext == (\E item \in Items : AppendItem(item)) \/ RemoveFront \/ RemoveBack

RingSpec == RingInit /\ [][RingNext]_ring

-----------------------------------------------------------------------------

RingTypeOK ==
  /\ data \in [Places -> Items]
  /\ offset \in Places
  /\ size \in 0 .. Capacity

\* The items as a sequence.
Contents == [i \in 1 .. size |-> At(i - 1)]

Window == INSTANCE SlidingWindow WITH window <- Contents

\* Whatever was appended and removed, the buffer holds the last items, in their
\* order: no index of a wrapped, full or emptied buffer is off by one.
IsWindow == Window!Spec
=============================================================================
