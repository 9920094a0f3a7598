--------------------------- MODULE SlidingWindow ---------------------------
(***************************************************************************)
(* What utils/container/ring_buffer.h promises: the last Capacity items    *)
(* that were appended and not removed, in their order.                     *)
(***************************************************************************)
EXTENDS Sequences, Integers

CONSTANTS Items, Capacity

VARIABLE window

Init == window = <<>>

Push(item) ==
  window' = Append(IF Len(window) = Capacity THEN Tail(window) ELSE window, item)

DropFirst == window # <<>> /\ window' = Tail(window)
DropLast  == window # <<>> /\ window' = SubSeq(window, 1, Len(window) - 1)

Next == (\E item \in Items : Push(item)) \/ DropFirst \/ DropLast

Spec == Init /\ [][Next]_window
=============================================================================
