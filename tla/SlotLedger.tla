----------------------------- MODULE SlotLedger -----------------------------
(***************************************************************************)
(* What booking promises about slots, with no word on how: a slot is held  *)
(* for at most one booking, a held slot is sold or given back, and both of *)
(* those are for good.  HoldLedger adds holds and payments to it.          *)
(***************************************************************************)
CONSTANTS Bookings, SlotOf

VARIABLE ledger    \* what each booking has of its slot

Outcomes == {"nothing", "held", "sold", "released"}

Occupies(b) == ledger[b] \in {"held", "sold"}

Init == ledger = [b \in Bookings |-> "nothing"]

\* b takes its slot, which nobody occupies.
Take(b) ==
    /\ ledger[b] = "nothing"
    /\ \A c \in Bookings : SlotOf[c] = SlotOf[b] => ~Occupies(c)
    /\ ledger' = [ledger EXCEPT ![b] = "held"]

Sell(b) ==
    /\ ledger[b] = "held"
    /\ ledger' = [ledger EXCEPT ![b] = "sold"]

\* Any number of held slots go back together.
Release(B) ==
    /\ \A b \in B : ledger[b] = "held"
    /\ ledger' = [b \in Bookings |-> IF b \in B THEN "released" ELSE ledger[b]]

Next ==
    \/ \E b \in Bookings : Take(b) \/ Sell(b)
    \/ \E B \in SUBSET Bookings : Release(B)

Spec == Init /\ [][Next]_ledger

\* No two bookings occupy one slot.
OneOccupant ==
    \A b, c \in Bookings :
        Occupies(b) /\ Occupies(c) /\ SlotOf[b] = SlotOf[c] => b = c

\* What was sold stays sold, and a booking that lost its slot never has it back.
ForGood ==
    [][\A b \in Bookings :
        ledger[b] \in {"sold", "released"} => ledger'[b] = ledger[b]]_ledger
=============================================================================
