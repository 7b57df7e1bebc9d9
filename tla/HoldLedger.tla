----------------------------- MODULE HoldLedger -----------------------------
(***************************************************************************)
(* What booking promises about holds and payments, one level below         *)
(* SlotLedger: when a hold runs out, who may be charged for it and when    *)
(* it may be given back.  There is no request, table, webhook or sweeper   *)
(* here.  Bookings implements it (ImplementsHoldLedger), and it is the     *)
(* server Checkout is written against.                                     *)
(***************************************************************************)
EXTENDS Integers

CONSTANTS
    Bookings, SlotOf,
    PaymentHold,     \* when a hold runs out, counted from when it was asked for
    RequestTimeout,  \* it is taken less than this long after it was asked for
    ClockSkew        \* how far a clock that judges a hold may run ahead

VARIABLES
    now,      \* the clock
    ledger,   \* what each booking has of its slot
    expires,  \* when the hold of a booking runs out, or ran out
    payment   \* whether a booking can be, or has been, paid for

vars == <<now, ledger, expires, payment>>

Slot == INSTANCE SlotLedger

Never == -1

\* What the theorems ask of the constants.
Durations == PaymentHold \in Nat /\ RequestTimeout \in Nat /\ ClockSkew \in Nat

-----------------------------------------------------------------------------
\* b takes its slot, with a hold counted from when it was asked for.
Take(b) ==
    /\ Slot!Take(b)
    /\ \E asked \in 0..now :
          /\ now < asked + RequestTimeout
          /\ expires' = [expires EXCEPT ![b] = asked + PaymentHold]
    /\ UNCHANGED <<now, payment>>

\* From here on b can be paid for, and its hold has time left.
Open(b) ==
    /\ ledger[b] = "held" /\ now < expires[b]
    /\ payment[b] = "none"
    /\ payment' = [payment EXCEPT ![b] = "open"]
    /\ UNCHANGED <<now, ledger, expires>>

\* The money comes in, which no hold running out prevents.
Pay(b) ==
    /\ payment[b] = "open"
    /\ payment' = [payment EXCEPT ![b] = "paid"]
    /\ UNCHANGED <<now, ledger, expires>>

Sell(b) ==
    /\ payment[b] = "paid"
    /\ Slot!Sell(b)
    /\ UNCHANGED <<now, expires, payment>>

\* A hold nobody was given a way to pay for can go back at any time.
Undo(b) ==
    /\ payment[b] = "none"
    /\ Slot!Release({b})
    /\ UNCHANGED <<now, expires, payment>>

\* Any other has to run out first, on some clock.
Lapse(B) ==
    /\ \A b \in B : expires[b] <= now + ClockSkew
    /\ Slot!Release(B)
    /\ UNCHANGED <<now, expires, payment>>

Tick ==
    /\ now' = now + 1
    /\ UNCHANGED <<ledger, expires, payment>>

Init ==
    /\ now = 0
    /\ Slot!Init
    /\ expires = [b \in Bookings |-> Never]
    /\ payment = [b \in Bookings |-> "none"]

Next ==
    \/ Tick
    \/ \E b \in Bookings : Take(b) \/ Open(b) \/ Pay(b) \/ Sell(b) \/ Undo(b)
    \/ \E B \in SUBSET Bookings : Lapse(B)

Spec == Init /\ [][Next]_vars

-----------------------------------------------------------------------------
\* Every variable keeps its type.
HoldTypeOK ==
    /\ now \in Nat
    /\ ledger \in [Bookings -> Slot!Outcomes]
    /\ expires \in [Bookings -> Nat \cup {Never}]
    /\ payment \in [Bookings -> {"none", "open", "paid"}]

\* Nothing is sold before its money is in.
SoldIsPaid == \A b \in Bookings : ledger[b] = "sold" => payment[b] = "paid"

\* A booking somebody can pay for, or has paid for, loses its slot only to the
\* clock: if it was released, its hold has run out on some clock by now.
OpenIsKept ==
    \A b \in Bookings :
        payment[b] # "none" /\ ledger[b] = "released" => expires[b] <= now + ClockSkew

\* Money is for bookings that took their slot.
OpenIsTaken == \A b \in Bookings : payment[b] # "none" => ledger[b] # "nothing"

\* No hold is dated further ahead than PaymentHold: from then on a sweep may take
\* it.  Until one does it keeps its slot.
DatedWithinHold == \A b \in Bookings : expires[b] <= now + PaymentHold
=============================================================================
