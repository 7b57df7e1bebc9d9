----------------------------- MODULE MCCheckout -----------------------------
(* A small instance of Checkout for TLC: one court, one slot of it, which   *)
(* the player may hold, lose and hold again.                                *)
EXTENDS Checkout, TLC

CONSTANT slot1

SameSlot == [b \in Bookings |-> slot1]
SlotBegins == [s \in Slots |-> 1]
SlowOrFast == {-1, 1}

Interchangeable == Permutations(Bookings) \cup Permutations(Loaders)
=============================================================================
