------------------------------- MODULE Clock -------------------------------
(* The monotonic clock that the in-memory stores read, in whole ticks. *)
EXTENDS Integers

CONSTANT MaxTime   \* bound of the model: when the clock stops

ASSUME MaxTimeAssumption == MaxTime \in Nat

VARIABLE clock

Tick ==
    /\ clock < MaxTime
    /\ clock' = clock + 1
=============================================================================
