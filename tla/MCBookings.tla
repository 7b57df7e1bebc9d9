----------------------------- MODULE MCBookings -----------------------------
(* Small instances of Bookings for TLC: every request wants the one slot,   *)
(* so that holds, releases and resales of it meet.                          *)
EXTENDS Bookings, TLC

CONSTANT court1

SameSlot == [b \in Bookings |-> court1]

Interchangeable == Permutations(Bookings) \cup Permutations(Deliveries)
                       \cup Permutations(Sweepers)
=============================================================================
