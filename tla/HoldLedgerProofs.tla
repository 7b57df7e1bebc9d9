-------------------------- MODULE HoldLedgerProofs --------------------------
(***************************************************************************)
(* What the two ledgers promise, proved from their actions alone for any   *)
(* set of bookings and any durations.  Whatever implements HoldLedger has  *)
(* these promises too: BookingsProofs and CheckoutProofs take them over.   *)
(***************************************************************************)
EXTENDS HoldLedger, TLAPS

-----------------------------------------------------------------------------
(* SlotLedger.                                                             *)

SlotInv == ledger \in [Bookings -> Slot!Outcomes] /\ Slot!OneOccupant

\* What each step does to one booking's entry, read off field by field.
LEMMA SlotSteps ==
    ASSUME SlotInv, [Slot!Next]_ledger
    PROVE  /\ ledger' \in [Bookings -> Slot!Outcomes]
           /\ \A b \in Bookings :
                \/ ledger'[b] = ledger[b]
                \/ ledger[b] = "nothing" /\ ledger'[b] = "held" /\ Slot!Take(b)
                \/ ledger[b] = "held" /\ ledger'[b] \in {"sold", "released"}
<1> USE DEF SlotInv, Slot!Outcomes
<1>1. ASSUME NEW b \in Bookings, Slot!Take(b) \/ Slot!Sell(b)
      PROVE  /\ ledger' \in [Bookings -> Slot!Outcomes]
             /\ \A c \in Bookings :
                  \/ ledger'[c] = ledger[c]
                  \/ ledger[c] = "nothing" /\ ledger'[c] = "held" /\ Slot!Take(c)
                  \/ ledger[c] = "held" /\ ledger'[c] \in {"sold", "released"}
  <2>1. CASE Slot!Take(b)
    <3>1. /\ ledger[b] = "nothing" /\ ledger'[b] = "held"
          /\ \A c \in Bookings : c # b => ledger'[c] = ledger[c]
          /\ ledger' \in [Bookings -> Slot!Outcomes]
      BY <2>1 DEF Slot!Take
    <3> QED
      BY <2>1, <3>1
  <2>2. CASE Slot!Sell(b)
    BY <2>2 DEF Slot!Sell
  <2> QED
    BY <1>1, <2>1, <2>2
<1>2. ASSUME NEW B \in SUBSET Bookings, Slot!Release(B)
      PROVE  /\ ledger' \in [Bookings -> Slot!Outcomes]
             /\ \A c \in Bookings :
                  \/ ledger'[c] = ledger[c]
                  \/ ledger[c] = "held" /\ ledger'[c] \in {"sold", "released"}
  BY <1>2 DEF Slot!Release
<1>3. CASE UNCHANGED ledger
  BY <1>3
<1> QED
  BY <1>1, <1>2, <1>3 DEF Slot!Next

\* Only a Take makes a booking occupy its slot, and it finds the slot free.
LEMMA SlotStep ==
    ASSUME SlotInv, [Slot!Next]_ledger
    PROVE  SlotInv'
<1>1. ledger' \in [Bookings -> Slot!Outcomes]
  BY SlotSteps
<1>2. ASSUME NEW b \in Bookings, NEW c \in Bookings,
             Slot!Occupies(b)', Slot!Occupies(c)', SlotOf[b] = SlotOf[c]
      PROVE  b = c
  <2>1. CASE Slot!Occupies(b) /\ Slot!Occupies(c)
    BY <1>2, <2>1 DEF SlotInv, Slot!OneOccupant
  <2>2. ASSUME NEW e \in {b, c}, ~Slot!Occupies(e)
        PROVE  Slot!Take(e)
    BY <1>2, <2>2, SlotSteps DEF Slot!Occupies
  <2>3. ASSUME NEW e \in {b, c}, Slot!Take(e), NEW f \in {b, c}, f # e
        PROVE  FALSE
    <3>1. ~Slot!Occupies(f)
      BY <1>2, <2>3 DEF Slot!Take
    <3>2. ledger'[f] = ledger[f]
      BY <2>3, <1>2 DEF Slot!Take, SlotInv
    <3> QED
      BY <1>2, <2>3, <3>1, <3>2 DEF Slot!Occupies
  <2> QED
    BY <2>1, <2>2, <2>3
<1> QED
  BY <1>1, <1>2 DEF SlotInv, Slot!OneOccupant

\* No two bookings ever occupy one slot: what the unique index of the bookings
\* table is for (bookings_active_slot_unique).
THEOREM OneOccupantAlways == Slot!Spec => []Slot!OneOccupant
<1>1. Slot!Init => SlotInv
  BY DEF Slot!Init, SlotInv, Slot!Outcomes, Slot!OneOccupant, Slot!Occupies
<1>2. SlotInv /\ [Slot!Next]_ledger => SlotInv'
  BY SlotStep
<1>3. SlotInv => Slot!OneOccupant
  BY DEF SlotInv
<1> QED
  BY <1>1, <1>2, <1>3, PTL DEF Slot!Spec

\* What was sold stays sold, and what was released stays released
\* (ConfirmBooking, ReleaseLapsedHolds).
THEOREM SoldAndReleasedForGood == Slot!Spec => Slot!ForGood
<1>1. Slot!Init => SlotInv
  BY DEF Slot!Init, SlotInv, Slot!Outcomes, Slot!OneOccupant, Slot!Occupies
<1>2. SlotInv /\ [Slot!Next]_ledger => SlotInv'
  BY SlotStep
<1>3. SlotInv /\ [Slot!Next]_ledger =>
        [\A b \in Bookings :
            ledger[b] \in {"sold", "released"} => ledger'[b] = ledger[b]]_ledger
  BY SlotSteps
<1> QED
  BY <1>1, <1>2, <1>3, PTL DEF Slot!Spec, Slot!ForGood

-----------------------------------------------------------------------------
(* HoldLedger.                                                             *)

HoldInv == HoldTypeOK /\ SoldIsPaid /\ OpenIsKept /\ OpenIsTaken /\ DatedWithinHold

\* What a step can do to one booking, field by field.
HoldMove(b) ==
    \/ UNCHANGED <<ledger[b], expires[b], payment[b]>>
    \/ /\ ledger[b] = "nothing" /\ ledger'[b] = "held"
       /\ expires'[b] <= now' + PaymentHold
       /\ UNCHANGED payment[b]
    \/ /\ ledger[b] = "held" /\ payment'[b] = "open"
       /\ UNCHANGED <<ledger[b], expires[b]>>
    \/ /\ payment[b] = "open" /\ payment'[b] = "paid"
       /\ UNCHANGED <<ledger[b], expires[b]>>
    \/ /\ ledger[b] = "held" /\ ledger'[b] = "sold" /\ payment[b] = "paid"
       /\ UNCHANGED <<expires[b], payment[b]>>
    \/ /\ ledger[b] = "held" /\ ledger'[b] = "released"
       /\ payment[b] = "none" \/ expires[b] <= now' + ClockSkew
       /\ UNCHANGED <<expires[b], payment[b]>>

Moves ==
    /\ HoldTypeOK'
    /\ now' \in {now, now + 1}
    /\ \A b \in Bookings : HoldMove(b)

LEMMA HoldSteps ==
    ASSUME Durations, HoldTypeOK, [Next]_vars
    PROVE  Moves
<1> USE DEF HoldTypeOK, Slot!Outcomes, Moves, HoldMove
<1>1. ASSUME NEW b \in Bookings, Take(b)
      PROVE  Moves
  <2>1. PICK asked \in 0..now : expires' = [expires EXCEPT ![b] = asked + PaymentHold]
    BY <1>1 DEF Take
  <2>2. asked + PaymentHold \in Nat /\ asked + PaymentHold <= now + PaymentHold
    BY <2>1 DEF Durations
  <2> QED
    BY <1>1, <2>1, <2>2 DEF Take, Slot!Take
<1>2. ASSUME NEW b \in Bookings, Open(b) \/ Pay(b)
      PROVE  Moves
  BY <1>2 DEF Open, Pay
<1>3. ASSUME NEW b \in Bookings, Sell(b)
      PROVE  Moves
  BY <1>3 DEF Sell, Slot!Sell
<1>4. ASSUME NEW B \in SUBSET Bookings, Slot!Release(B),
             UNCHANGED <<now, expires, payment>>,
             \A b \in B : payment[b] = "none" \/ expires[b] <= now + ClockSkew
      PROVE  Moves
  BY <1>4 DEF Slot!Release
<1>5. CASE Tick
  BY <1>5 DEF Tick
<1>6. CASE UNCHANGED vars
  BY <1>6 DEF vars
<1>7. ASSUME NEW b \in Bookings, Undo(b)
      PROVE  Moves
  BY <1>4, <1>7 DEF Undo
<1>8. ASSUME NEW B \in SUBSET Bookings, Lapse(B)
      PROVE  Moves
  BY <1>4, <1>8 DEF Lapse
<1> QED
  BY <1>1, <1>2, <1>3, <1>5, <1>6, <1>7, <1>8 DEF Next

\* The clock only makes a hold that has run out run out further.
LEMMA LapsedStays ==
    ASSUME Durations, HoldTypeOK, now' \in {now, now + 1}, NEW b \in Bookings,
           NEW D \in Nat, expires[b] <= now + D
    PROVE  expires[b] <= now' + D
BY DEF HoldTypeOK, Never

\* Every step keeps the promises: holds with a way to pay them go back only
\* once they have run out, and a hold that went back gets no way to be paid.
LEMMA HoldStep ==
    ASSUME Durations, HoldInv, [Next]_vars
    PROVE  HoldInv'
<1>1. HoldTypeOK'
  BY HoldSteps DEF HoldInv, Moves, HoldMove
<1>2. SoldIsPaid'
  BY HoldSteps DEF HoldInv, Moves, HoldMove, SoldIsPaid
<1>3. OpenIsTaken'
  BY HoldSteps DEF HoldInv, Moves, HoldMove, OpenIsTaken
<1>4. OpenIsKept'
  <2> SUFFICES ASSUME NEW b \in Bookings, payment'[b] # "none", ledger'[b] = "released"
               PROVE  expires'[b] <= now' + ClockSkew
    BY DEF OpenIsKept
  <2>1. expires[b] <= now + ClockSkew => expires[b] <= now' + ClockSkew
    BY HoldSteps, LapsedStays DEF HoldInv, Moves, HoldMove, Durations
  <2> QED
    BY <2>1, HoldSteps DEF HoldInv, Moves, HoldMove, OpenIsKept
<1>5. DatedWithinHold'
  <2> SUFFICES ASSUME NEW b \in Bookings
               PROVE  expires'[b] <= now' + PaymentHold
    BY DEF DatedWithinHold
  <2>1. expires[b] <= now' + PaymentHold
    BY HoldSteps, LapsedStays DEF HoldInv, Moves, HoldMove, DatedWithinHold, Durations
  <2> QED
    BY <2>1, HoldSteps DEF HoldInv, Moves, HoldMove
<1> QED
  BY <1>1, <1>2, <1>3, <1>4, <1>5 DEF HoldInv

\* What HoldLedger promises holds: nothing is sold unpaid (ConfirmPaid), a hold
\* that can be paid for goes back only once it has run out (CancelBooking,
\* ReleaseLapsedHolds), money is for taken slots only, and none is dated more
\* than PaymentHold ahead (NewBooking).  How soon a sweep comes is not said here.
THEOREM HoldsKept == ASSUME Durations PROVE Spec => []HoldInv
<1>1. Init => HoldInv
  BY DEF Init, Slot!Init, Slot!Outcomes, HoldInv, HoldTypeOK, SoldIsPaid, OpenIsKept,
     OpenIsTaken, DatedWithinHold, Durations, Never
<1>2. HoldInv /\ [Next]_vars => HoldInv'
  BY HoldStep
<1> QED
  BY <1>1, <1>2, PTL DEF Spec

\* Seen from the slots alone, HoldLedger does what SlotLedger allows.
THEOREM HoldsImplementSlots == Spec => Slot!Spec
<1>1. Init => Slot!Init
  BY DEF Init
<1>2. [Next]_vars => [Slot!Next]_ledger
  <2>1. ASSUME NEW b \in Bookings, Take(b) \/ Open(b) \/ Pay(b) \/ Sell(b) \/ Undo(b)
        PROVE  [Slot!Next]_ledger
    BY <2>1 DEF Take, Open, Pay, Sell, Undo, Slot!Next
  <2>2. ASSUME NEW B \in SUBSET Bookings, Lapse(B)
        PROVE  [Slot!Next]_ledger
    BY <2>2 DEF Lapse, Slot!Next
  <2> QED
    BY <2>1, <2>2 DEF Next, Tick, vars
<1> QED
  BY <1>1, <1>2, PTL DEF Spec, Slot!Spec
=============================================================================
