--------------------------- MODULE CheckoutProofs ---------------------------
(***************************************************************************)
(* Proofs about Checkout, for every set of bookings and slots, every       *)
(* number of loads and attempts, every length of hold and request, skew of *)
(* clocks and interval of the countdown, and any browser's clock.          *)
(***************************************************************************)
EXTENDS Checkout, TLAPS

-----------------------------------------------------------------------------
(* The server behind the page is HoldLedger: its promises are proved once, *)
(* in HoldLedgerProofs, and hold here too.                                 *)

Promises == INSTANCE HoldLedgerProofs

serverVars == <<now, ledger, expires, payment>>

\* A step of the page leaves the server alone or is one HoldLedger allows.
LEMMA ServerStep ==
    ASSUME [Next]_vars
    PROVE  [Server!Next]_serverVars
<1> USE DEF server, serverVars
<1>1. CASE UNCHANGED serverVars
  BY <1>1
<1>2. CASE Tick
  BY <1>2 DEF Tick, Server!Next
<1>3. ASSUME NEW b \in Bookings, HoldSlot(b)
      PROVE  Server!Next
  BY <1>3, Zenon DEF HoldSlot, Server!Next
<1>4. ASSUME NEW b \in Bookings, Checkout(b), ~HoldSlot(b)
      PROVE  UNCHANGED serverVars
  BY <1>4, Zenon DEF Checkout, ClickSlot, AnswerBook, OpenPayment, ResumePayment, Submit, Cancel,
     Succeeded, NotSucceeded, AnsweredInBackground
<1>5. ASSUME NEW b \in Bookings,
             Charge(b) \/ AttachPayment(b) \/ CancelBooking(b) \/ Confirm(b)
      PROVE  Server!Next
  BY <1>5, Zenon DEF Charge, AttachPayment, CancelBooking, Confirm, Server!Next
<1>6. ASSUME NEW B \in SUBSET Bookings, Sweep(B)
      PROVE  Server!Next
  BY <1>6, Zenon DEF Sweep, Server!Next
<1>7. ASSUME NEW l \in Loaders, Load(l)
      PROVE  UNCHANGED serverVars
  BY <1>7, Zenon DEF Load, Poll, ListForPlayer, ShowList, LoadFails
<1> QED
  BY <1>1, <1>2, <1>3, <1>4, <1>5, <1>6, <1>7, Zenon DEF Next, Elsewhere, Countdown, ShowBookings,
     ShowBook, vars

\* Whatever the page asks for and whatever happens elsewhere, the server does
\* what HoldLedger allows.
THEOREM CheckoutKeepsHolds == Spec => Server!Spec
<1>1. Init => Server!Init
  BY DEF Init
<1>2. [Next]_vars => [Server!Next]_serverVars
  BY ServerStep
<1> QED
  BY <1>1, <1>2, PTL DEF Spec, Server!Spec, Server!vars, serverVars

\* The two instances of HoldLedger are the same.
LEMMA SameServer ==
    /\ Server!Init <=> Promises!Init
    /\ [Server!Next]_serverVars <=> [Promises!Next]_(Promises!vars)
    /\ Server!HoldTypeOK <=> Promises!HoldTypeOK
    /\ Server!Slot!OneOccupant <=> Promises!Slot!OneOccupant
    /\ Promises!Durations
<1>1. Server!Init <=> Promises!Init
  BY DEF Server!Init, Promises!Init, Server!Slot!Init, Promises!Slot!Init, Server!Never,
     Promises!Never
<1>2. [Server!Next]_serverVars <=> [Promises!Next]_(Promises!vars)
  BY Zenon DEF serverVars, Promises!vars, Server!Next, Promises!Next, Server!Take, Promises!Take,
     Server!Open, Promises!Open, Server!Pay, Promises!Pay, Server!Sell, Promises!Sell,
     Server!Undo, Promises!Undo, Server!Lapse, Promises!Lapse, Server!Tick, Promises!Tick,
     Server!Slot!Take, Promises!Slot!Take, Server!Slot!Sell, Promises!Slot!Sell,
     Server!Slot!Release, Promises!Slot!Release, Server!Slot!Occupies, Promises!Slot!Occupies
<1>3. Server!HoldTypeOK <=> Promises!HoldTypeOK
  BY DEF Server!HoldTypeOK, Promises!HoldTypeOK, Server!Slot!Outcomes, Promises!Slot!Outcomes,
     Server!Never, Promises!Never
<1>4. Server!Slot!OneOccupant <=> Promises!Slot!OneOccupant
  BY DEF Server!Slot!OneOccupant, Promises!Slot!OneOccupant, Server!Slot!Occupies,
     Promises!Slot!Occupies
<1>5. Promises!Durations
  BY CheckoutTimeAssumption DEF Promises!Durations
<1> QED
  BY <1>1, <1>2, <1>3, <1>4, <1>5

\* What the page relies on.
Kept == Promises!HoldInv /\ Promises!Slot!OneOccupant

LEMMA PromisesKept == Spec => []Kept
<1>1. Spec => Promises!Spec
  <2>1. Server!Init => Promises!Init
    BY SameServer
  <2>2. [Server!Next]_serverVars => [Promises!Next]_(Promises!vars)
    BY SameServer
  <2> QED
    BY <2>1, <2>2, CheckoutKeepsHolds, PTL DEF Server!Spec, Promises!Spec, Server!vars, serverVars
<1>2. Promises!Spec => []Promises!HoldInv
  BY SameServer, Promises!HoldsKept
<1>3. Promises!Spec => []Promises!Slot!OneOccupant
  <2>1. Promises!Spec => Promises!Slot!Spec
    BY Promises!HoldsImplementSlots
  <2>2. Promises!Slot!Spec => []Promises!Slot!OneOccupant
    BY Promises!OneOccupantAlways
  <2> QED
    BY <2>1, <2>2, PTL
<1>4. Promises!HoldInv /\ Promises!Slot!OneOccupant => Kept
  BY DEF Kept
<1> QED
  BY <1>1, <1>2, <1>3, <1>4, PTL

\* What was taken is not untaken, what became of it is for good, and a way to
\* pay for it is not taken back.
Onward(b) ==
    /\ \/ ledger'[b] = ledger[b]
       \/ ledger[b] = "nothing" /\ ledger'[b] = "held"
       \/ ledger[b] = "held" /\ ledger'[b] \in {"sold", "released"}
    /\ payment[b] # "none" => payment'[b] # "none"

LEMMA RowsGoOnward ==
    ASSUME Server!HoldTypeOK, [Next]_vars
    PROVE  /\ Server!HoldTypeOK'
           /\ now \in Nat /\ now' \in {now, now + 1}
           /\ \A b \in Bookings : Onward(b)
<1>1. Promises!Moves
  BY SameServer, ServerStep, Promises!HoldSteps
<1>2. \A b \in Bookings : Onward(b)
  BY <1>1 DEF Promises!Moves, Promises!HoldMove, Onward
<1>3. Server!HoldTypeOK'
  BY <1>1 DEF Promises!Moves, Promises!HoldTypeOK, Server!HoldTypeOK, Server!Slot!Outcomes,
     Promises!Slot!Outcomes, Server!Never, Promises!Never
<1>4. now \in Nat /\ now' \in {now, now + 1}
  BY <1>1 DEF Promises!Moves, Server!HoldTypeOK
<1> QED
  BY <1>2, <1>3, <1>4

-----------------------------------------------------------------------------
(* The inductive invariant of the page.                                    *)

\* A form is for a booking that can be paid for.
Payable(b) == form[b] \in {"open", "paying"} => payment[b] # "none"

\* An answer of the server, on its way or shown, tells no sale that is not one.
RowsTrue(rows) == \A b \in Bookings : rows[b] = "confirmed" => ledger[b] = "sold"

\* A poll is for a booking that was taken, and once its answer says anything but
\* pending, that booking is settled or its slot has begun.
Watching(load) == \A b \in Bookings : load.awaits = b =>
    /\ ledger[b] # "nothing"
    /\ load.pc = "read" /\ load.rows[b] # "pending_payment" =>
          ledger[b] # "held" \/ now > StartsAt[SlotOf[b]]

\* A poll that waits has an attempt left.
Counted(load) == load.pc = "waiting" => load.left > 0

\* An answer lists at most one hold of a slot to pay for.
RowsApart(rows) ==
    \A b, c \in Bookings :
        /\ rows[b] = "pending_payment" /\ rows[c] = "pending_payment"
        /\ SlotOf[b] = SlotOf[c]
        => b = c

\* At most one hold of a slot has a checkout in the section that is up, the
\* list has none but under the holds it shows, and on a card only the form
\* that is up has its card under way.
OneForm ==
    \A b, c \in Bookings :
        form[b] # "none" /\ form[c] # "none" /\ SlotOf[b] = SlotOf[c] => b = c
FormsListed ==
    section = "bookings" =>
        \A b \in Bookings : form[b] # "none" => list.rows[b] = "pending_payment"
CardsPaying == section = "book" => \A b \in confirming : form[b] = "paying"

\* Nothing loads while the list is not up.
Quiet == section = "book" => resuming = {} /\ \A l \in Loaders : loader[l].pc = "idle"

Inv ==
    /\ CheckoutTypeOK
    /\ now + drift <= reading + Lag
    /\ \A b \in Bookings : Payable(b)
    /\ OneForm /\ FormsListed /\ CardsPaying
    /\ RowsTrue(list.rows) /\ RowsApart(list.rows)
    /\ \A l \in Loaders :
          /\ RowsTrue(loader[l].rows) /\ RowsApart(loader[l].rows)
          /\ Watching(loader[l]) /\ Counted(loader[l])
    /\ Quiet

-----------------------------------------------------------------------------
(* Types.                                                                  *)

LEMMA IdleTyped == Idle \in Loading /\ Empty \in [rows: [Bookings -> Statuses], failed: BOOLEAN]
<1>1. Idle.rows \in [Bookings -> Statuses]
  BY DEF Idle, Statuses
<1> QED  BY <1>1, AttemptsAssumption DEF Idle, Empty, Loading, Statuses

LEMMA PlayerBookingsTyped == PlayerBookings \in [Bookings -> Statuses]
BY Zenon DEF PlayerBookings, StatusOf, Statuses

\* The parts of the type invariant about the list.
ListTyped ==
    /\ list \in [rows: [Bookings -> Statuses], failed: BOOLEAN]
    /\ loader \in [Loaders -> Loading]
FormTyped == form \in [Bookings -> Forms]
AwaitedTyped ==
    /\ posted \subseteq Bookings /\ resuming \subseteq Bookings
    /\ confirming \subseteq Bookings /\ background \subseteq Bookings
    /\ section \in {"book", "bookings"}
ServerTyped == Server!HoldTypeOK /\ charging \subseteq Bookings
ClocksTyped == drift \in Drifts /\ reading \in Int

LEMMA TypeParts ==
    CheckoutTypeOK <=> ListTyped /\ FormTyped /\ AwaitedTyped /\ ServerTyped /\ ClocksTyped
BY Zenon DEF CheckoutTypeOK, ListTyped, FormTyped, AwaitedTyped, ServerTyped, ClocksTyped

LEMMA ReloadTyped ==
    ASSUME ListTyped, NEW l \in Loaders, Reload(l)
    PROVE  ListTyped'
<1>1. [Idle EXCEPT !.pc = "sent"] \in Loading
  BY IdleTyped DEF Loading
<1> QED  BY <1>1 DEF ListTyped, Reload

LEMMA ReloadIfUpTyped ==
    ASSUME ListTyped, ReloadIfUp
    PROVE  ListTyped'
BY ReloadTyped DEF ReloadIfUp, ListTyped

LEMMA CheckoutKeepsListTyped ==
    ASSUME ListTyped, NEW b \in Bookings, Checkout(b)
    PROVE  ListTyped'
<1>1. CASE UNCHANGED <<list, loader>>
  BY <1>1 DEF ListTyped
<1>2. CASE ResumePayment(b)
  BY <1>2, <1>1, ReloadTyped, Zenon DEF ResumePayment
<1>3. CASE Succeeded(b)
  <2>1. ASSUME NEW l \in Loaders, Watch(b, l), UNCHANGED list  PROVE ListTyped'
    <3>1. [Idle EXCEPT !.pc = "waiting", !.awaits = b, !.left = ConfirmAttempts] \in Loading
      <4>1. ConfirmAttempts \in 0..ConfirmAttempts
        BY AttemptsAssumption
      <4> QED  BY <4>1, IdleTyped, Zenon DEF Loading, Idle
    <3> QED  BY <2>1, <3>1 DEF ListTyped, Watch
  <2>2. UNCHANGED list /\ (UNCHANGED loader \/ \E l \in Loaders : Watch(b, l))
    BY <1>3, Zenon DEF Succeeded
  <2> QED  BY <2>1, <2>2, <1>1
<1>4. CASE AnsweredInBackground(b)
  BY <1>4, <1>1, ReloadIfUpTyped, Zenon DEF AnsweredInBackground
<1> QED
  BY <1>1, <1>2, <1>3, <1>4, Zenon DEF Checkout, ClickSlot, HoldSlot, AnswerBook, OpenPayment,
     Submit, Cancel, NotSucceeded

LEMMA LoadKeepsListTyped ==
    ASSUME ListTyped, NEW l \in Loaders, Load(l), Counted(loader[l])
    PROVE  ListTyped'
<1> USE DEF ListTyped
<1>0. loader[l] \in Loading
  OBVIOUS
<1>1. CASE Poll(l)
  <2>1. loader[l].left - 1 \in 0..ConfirmAttempts
    BY <1>0, <1>1, AttemptsAssumption DEF Loading, Counted, Poll
  <2>2. [loader[l] EXCEPT !.pc = "sent", !.left = @ - 1] \in Loading
    BY <1>0, <2>1 DEF Loading
  <2> QED  BY <1>1, <2>2 DEF Poll
<1>2. CASE ListForPlayer(l)
  <2>1. [loader[l] EXCEPT !.pc = "read", !.rows = PlayerBookings] \in Loading
    BY <1>0, PlayerBookingsTyped DEF Loading
  <2> QED  BY <1>2, <2>1 DEF ListForPlayer
<1>3. CASE ShowList(l)
  <2>1. [Idle EXCEPT !.pc = "waiting", !.awaits = loader[l].awaits, !.left = loader[l].left]
            \in Loading
    BY <1>0, IdleTyped DEF Loading
  <2>2. loader' \in [Loaders -> Loading]
    BY <1>3, <2>1, IdleTyped DEF ShowList
  <2>3. loader[l].rows \in [Bookings -> Statuses]
    BY <1>0 DEF Loading
  <2> QED  BY <1>3, <2>2, <2>3 DEF ShowList
<1>4. CASE LoadFails(l)
  BY <1>4, IdleTyped DEF LoadFails
<1> QED  BY <1>1, <1>2, <1>3, <1>4 DEF Load

LEMMA FormsKeptTyped ==
    ASSUME FormTyped, Next
    PROVE  FormTyped'
<1> USE DEF FormTyped, Forms
<1>1. CASE UNCHANGED form
  BY <1>1
<1>2. CASE ShowBookings \/ ShowBook
  BY <1>2 DEF ShowBookings, ShowBook
<1>3. ASSUME NEW b \in Bookings, Checkout(b) PROVE FormTyped'
  <2>1. CASE \E f \in Forms : form' = [form EXCEPT ![b] = f]
    BY <2>1
  <2>2. CASE \E f \in Forms : Answered(b, f)
    BY <2>2 DEF Answered
  <2>3. CASE \E f \in Forms : form' = [form EXCEPT ![b] = IF @ = "paying" THEN f ELSE @]
    BY <2>3
  <2>4. ClickSlot(b) \/ OpenPayment(b) \/ Submit(b) \/ Cancel(b) => FormTyped'
    BY <2>1 DEF ClickSlot, OpenPayment, Submit, Cancel
  <2>5. AnswerBook(b) \/ ResumePayment(b) => FormTyped'
    BY <2>2 DEF AnswerBook, ResumePayment
  <2>6. Succeeded(b) \/ NotSucceeded(b) => FormTyped'
    BY <2>1, <2>3 DEF Succeeded, NotSucceeded
  <2>7. HoldSlot(b) \/ AnsweredInBackground(b) => UNCHANGED form
    BY DEF HoldSlot, AnsweredInBackground
  <2> QED  BY <1>1, <1>3, <2>4, <2>5, <2>6, <2>7, Zenon DEF Checkout
<1>4. ASSUME NEW l \in Loaders, Load(l) PROVE FormTyped'
  <2>1. CASE ShowList(l) \/ LoadFails(l)
    BY <2>1 DEF ShowList, FormsIn, LoadFails
  <2>2. CASE Poll(l) \/ ListForPlayer(l)
    BY <2>2 DEF Poll, ListForPlayer
  <2> QED  BY <1>4, <2>1, <2>2, Zenon DEF Load
<1>5. Tick \/ Countdown \/ Elsewhere => UNCHANGED form
  BY Zenon DEF Tick, Countdown, Elsewhere, Charge, AttachPayment, CancelBooking, Confirm, Sweep,
     page
<1> QED  BY <1>1, <1>2, <1>3, <1>4, <1>5, Zenon DEF Next

LEMMA AwaitedKeptTyped ==
    ASSUME AwaitedTyped, Next
    PROVE  AwaitedTyped'
<1> USE DEF AwaitedTyped
<1>1. CASE UNCHANGED <<awaited, section>>
  BY <1>1, Zenon DEF awaited
<1>2. CASE ShowBookings \/ ShowBook
  BY <1>2 DEF ShowBookings, ShowBook
<1>3. ASSUME NEW b \in Bookings, Checkout(b) PROVE AwaitedTyped'
  BY <1>3, <1>1 DEF Checkout, ClickSlot, HoldSlot, AnswerBook, OpenPayment, ResumePayment, Submit,
     Cancel, Succeeded, NotSucceeded, AnsweredInBackground
<1> QED
  BY <1>1, <1>2, <1>3, Zenon DEF Next, Tick, Countdown, Elsewhere, Charge, AttachPayment,
     CancelBooking, Confirm, Sweep, page, Load, Poll, ListForPlayer, ShowList, LoadFails

LEMMA ServerKeptTyped ==
    ASSUME ServerTyped, Next
    PROVE  ServerTyped'
<1>1. Server!HoldTypeOK'
  BY RowsGoOnward DEF ServerTyped
<1>2. charging' \subseteq Bookings
  <2> USE DEF ServerTyped
  <2>1. CASE UNCHANGED charging
    BY <2>1
  <2>2. ASSUME NEW b \in Bookings, Submit(b) \/ NotSucceeded(b) \/ Charge(b)
        PROVE  charging' \subseteq Bookings
    BY <2>2 DEF Submit, NotSucceeded, Charge
  <2> QED
    BY <2>1, <2>2, Zenon DEF Next, server, Tick, Countdown, ShowBookings, ShowBook, Elsewhere,
       AttachPayment, CancelBooking, Confirm, Sweep, Checkout, ClickSlot, HoldSlot, AnswerBook,
       OpenPayment, ResumePayment, Cancel, Succeeded, AnsweredInBackground, Load, Poll,
       ListForPlayer, ShowList, LoadFails
<1> QED  BY <1>1, <1>2 DEF ServerTyped

\* The countdowns lag by no more than their interval.
LEMMA ClocksKept ==
    ASSUME ClocksTyped, now \in Nat, now + drift <= reading + Lag, Next
    PROVE  ClocksTyped' /\ (now + drift <= reading + Lag)'
<1> USE CheckoutTimeAssumption DEF ClocksTyped
<1>1. drift \in Int
  OBVIOUS
<1>2. CASE UNCHANGED <<now, clocks>>
  BY <1>2 DEF clocks
<1>3. CASE Tick
  BY <1>1, <1>3 DEF Tick, Server!Tick, clocks
<1>4. CASE Countdown
  BY <1>1, <1>4 DEF Countdown, server
<1> QED
  BY <1>2, <1>3, <1>4, Zenon DEF Next, server, ShowBookings, ShowBook, Elsewhere, Charge,
     AttachPayment, CancelBooking, Confirm, Sweep, Server!Pay, Server!Open, Server!Undo,
     Server!Sell, Server!Lapse, Server!Take, Checkout, ClickSlot, HoldSlot, AnswerBook,
     OpenPayment, ResumePayment, Submit, Cancel, Succeeded, NotSucceeded, AnsweredInBackground,
     Load, Poll, ListForPlayer, ShowList, LoadFails

LEMMA ListKeptTyped ==
    ASSUME ListTyped, \A l \in Loaders : Counted(loader[l]), Next
    PROVE  ListTyped'
<1>1. CASE UNCHANGED <<list, loader>>
  BY <1>1 DEF ListTyped
<1>2. CASE ShowBookings
  BY <1>2, ReloadTyped, Zenon DEF ShowBookings
<1>3. CASE ShowBook
  BY <1>3, IdleTyped DEF ShowBook, ListTyped
<1> QED
  BY <1>1, <1>2, <1>3, CheckoutKeepsListTyped, LoadKeepsListTyped, Zenon DEF Next, Tick, Countdown,
     Elsewhere, Charge, AttachPayment, CancelBooking, Confirm, Sweep, page

LEMMA TypesKept ==
    ASSUME Inv, [Next]_vars
    PROVE  CheckoutTypeOK'
<1>1. CASE Next
  <2>1. ListTyped /\ FormTyped /\ AwaitedTyped /\ ServerTyped /\ ClocksTyped
    BY TypeParts, Zenon DEF Inv
  <2>2. now \in Nat /\ now + drift <= reading + Lag /\ \A l \in Loaders : Counted(loader[l])
    BY Zenon DEF Inv, CheckoutTypeOK, Server!HoldTypeOK
  <2>3. ListTyped' /\ FormTyped' /\ AwaitedTyped' /\ ServerTyped' /\ ClocksTyped'
    BY <1>1, <2>1, <2>2, ListKeptTyped, FormsKeptTyped, AwaitedKeptTyped, ServerKeptTyped,
       ClocksKept, Zenon DEF Inv
  <2> QED
    BY <2>3, Zenon DEF CheckoutTypeOK, ListTyped, FormTyped, AwaitedTyped, ServerTyped, ClocksTyped
<1>2. CASE UNCHANGED vars
  BY <1>2, Zenon DEF Inv, CheckoutTypeOK, Server!HoldTypeOK, vars, server, clocks, page, awaited
<1> QED  BY <1>1, <1>2

-----------------------------------------------------------------------------
(* The forms.                                                              *)

\* A form is put up with a secret, and later steps only take it down.
LEMMA PayableKept ==
    ASSUME Inv, [Next]_vars, NEW b \in Bookings
    PROVE  Payable(b)'
<1>1. /\ form \in [Bookings -> Forms] /\ Payable(b)
      /\ payment[b] # "none" => payment'[b] # "none"
  BY RowsGoOnward, Zenon DEF Inv, CheckoutTypeOK, Onward
<1> DEFINE Paid == form'[b] \in {"open", "paying"} => payment[b] # "none"
<1>2. SUFFICES Paid
  BY <1>1, Zenon DEF Payable
<1>3. CASE UNCHANGED form
  BY <1>1, <1>3 DEF Payable
<1>4. ASSUME NEW c \in Bookings, Checkout(c)
      PROVE  Paid
  <2>1. ASSUME Answered(c, "none") \/ (Answered(c, "open") /\ payment[c] # "none")
        PROVE  Paid
    BY <1>1, <2>1 DEF Answered, Payable
  <2>2. CASE AnswerBook(c) \/ ResumePayment(c)
    <3>1. Answered(c, "none") \/ (Answered(c, "open") /\ payment[c] # "none")
      BY <2>2 DEF AnswerBook, ResumePayment
    <3> QED  BY <2>1, <3>1
  <2>3. CASE ClickSlot(c) \/ OpenPayment(c) \/ Cancel(c)
    BY <1>1, <2>3 DEF ClickSlot, OpenPayment, Cancel, Payable
  <2>4. CASE Submit(c) \/ NotSucceeded(c) \/ Succeeded(c)
    BY <1>1, <2>4 DEF Submit, NotSucceeded, Succeeded, Payable
  <2>5. CASE HoldSlot(c) \/ AnsweredInBackground(c)
    BY <1>3, <2>5, Zenon DEF HoldSlot, AnsweredInBackground
  <2> QED  BY <1>4, <2>2, <2>3, <2>4, <2>5, Zenon DEF Checkout
<1>5. ASSUME NEW l \in Loaders, Load(l)
      PROVE  Paid
  BY <1>1, <1>5 DEF Load, Poll, ListForPlayer, ShowList, FormsIn, LoadFails, Payable
<1>6. CASE ShowBookings \/ ShowBook
  BY <1>6 DEF ShowBookings, ShowBook
<1> QED
  BY <1>3, <1>4, <1>5, <1>6, Zenon DEF Next, vars, Tick, Countdown, Elsewhere, Charge,
     AttachPayment, CancelBooking, Confirm, Sweep, page

\* A checkout is begun only where the slot has none: on a card that is free,
\* or under a hold the list shows.
Begins(c) ==
    /\ form' = [form EXCEPT ![c] = "asking"]
    /\ UNCHANGED <<section, list, confirming>>
    /\ \/ section = "book" /\ CardFree(c)
       \/ section = "bookings" /\ list.rows[c] = "pending_payment"
Stays == \A b \in Bookings : form'[b] # "none" => form[b] # "none"

LEMMA FormsBegin ==
    ASSUME Inv, [Next]_vars
    PROVE  Stays \/ \E c \in Bookings : Begins(c)
<1>1. form \in [Bookings -> Forms] /\ CardsPaying
  BY Zenon DEF Inv, CheckoutTypeOK
<1>2. CASE UNCHANGED form
  BY <1>2, Zenon DEF Stays
<1>3. ASSUME NEW c \in Bookings, Checkout(c)
      PROVE  Stays \/ Begins(c)
  <2>1. ASSUME NEW f, Answered(c, f) PROVE Stays
    BY <1>1, <2>1 DEF Answered, Stays
  <2>2. AnswerBook(c) \/ ResumePayment(c) => Stays
    BY <2>1, Zenon DEF AnswerBook, ResumePayment
  <2>3. ClickSlot(c) \/ OpenPayment(c) => Begins(c)
    BY Zenon DEF ClickSlot, OpenPayment, Begins, Listed
  <2>4. Submit(c) \/ Cancel(c) \/ NotSucceeded(c) => Stays
    BY <1>1 DEF Submit, Cancel, NotSucceeded, Stays
  <2>5. Succeeded(c) => Stays
    BY <1>1 DEF Succeeded, CardsPaying, Stays
  <2>6. HoldSlot(c) \/ AnsweredInBackground(c) => Stays
    BY Zenon DEF HoldSlot, AnsweredInBackground, Stays
  <2> QED  BY <1>3, <2>2, <2>3, <2>4, <2>5, <2>6, Zenon DEF Checkout
<1>4. ASSUME NEW l \in Loaders, Load(l)
      PROVE  Stays
  BY <1>1, <1>4 DEF Load, Poll, ListForPlayer, ShowList, FormsIn, LoadFails, Stays
<1>5. ShowBookings \/ ShowBook => Stays
  BY DEF ShowBookings, ShowBook, Stays
<1> QED
  BY <1>2, <1>3, <1>4, <1>5, Zenon DEF Next, vars, Tick, Countdown, Elsewhere, Charge,
     AttachPayment, CancelBooking, Confirm, Sweep, page

LEMMA OneFormKept ==
    ASSUME Inv, [Next]_vars
    PROVE  OneForm'
<1>1. /\ form \in [Bookings -> Forms]
      /\ OneForm /\ FormsListed /\ RowsApart(list.rows)
  BY Zenon DEF Inv, CheckoutTypeOK
<1>2. CASE Stays
  BY <1>1, <1>2, Zenon DEF OneForm, Stays
<1>3. ASSUME NEW c \in Bookings, Begins(c)
      PROVE  OneForm'
  <2>1. ASSUME NEW b \in Bookings, b # c, SlotOf[b] = SlotOf[c]
        PROVE  form[b] = "none"
    BY <1>1, <1>3, <2>1, Zenon DEF Begins, CardFree, FormsListed, RowsApart
  <2>2. \A b \in Bookings : b # c => form'[b] = form[b]
    BY <1>1, <1>3 DEF Begins
  <2> QED  BY <1>1, <2>1, <2>2, Zenon DEF OneForm
<1> QED  BY <1>2, <1>3, FormsBegin, Zenon

LEMMA FormsListedKept ==
    ASSUME Inv, [Next]_vars
    PROVE  FormsListed'
<1>1. /\ form \in [Bookings -> Forms] /\ list \in [rows: [Bookings -> Statuses], failed: BOOLEAN]
      /\ FormsListed
  BY Zenon DEF Inv, CheckoutTypeOK
<1> DEFINE Fresh == section' = "bookings" =>
               \A b \in Bookings : form'[b] # "none" => list'.rows[b] = "pending_payment"
<1>2. SUFFICES Fresh
  BY Zenon DEF FormsListed
<1>3. ASSUME NEW c \in Bookings, Begins(c) PROVE Fresh
  BY <1>1, <1>3 DEF Begins, FormsListed
<1>4. CASE Stays /\ UNCHANGED section /\ list'.rows = list.rows
  BY <1>1, <1>4, Zenon DEF Stays, FormsListed
<1>5. CASE \E l \in Loaders : ShowList(l)
  BY <1>1, <1>5 DEF ShowList, FormsIn
<1>6. CASE ShowBook
  BY <1>6 DEF ShowBook
<1>7. CASE ShowBookings
  BY <1>7 DEF ShowBookings
<1>8. \/ UNCHANGED section /\ list'.rows = list.rows
      \/ ShowBook \/ ShowBookings \/ \E l \in Loaders : ShowList(l)
  <2>1. ASSUME NEW l \in Loaders, Reload(l) PROVE list'.rows = list.rows
    BY <1>1, <2>1 DEF Reload
  <2>2. ASSUME NEW l \in Loaders, Poll(l) \/ LoadFails(l) PROVE list'.rows = list.rows
    BY <1>1, <2>2 DEF Poll, LoadFails
  <2>3. ASSUME NEW b \in Bookings, Checkout(b)
        PROVE  UNCHANGED section /\ list'.rows = list.rows
    BY <2>1, <2>3, Zenon DEF Checkout, ClickSlot, HoldSlot, AnswerBook, OpenPayment,
       ResumePayment, Submit, Cancel, Succeeded, NotSucceeded, AnsweredInBackground, ReloadIfUp
  <2>4. ASSUME NEW l \in Loaders, Load(l), ~ShowList(l)
        PROVE  UNCHANGED section /\ list'.rows = list.rows
    BY <2>2, <2>4, Zenon DEF Load, Poll, ListForPlayer, LoadFails
  <2> QED
    BY <2>3, <2>4, Zenon DEF Next, vars, page, Tick, Countdown, Elsewhere, Charge,
       AttachPayment, CancelBooking, Confirm, Sweep
<1> QED  BY <1>3, <1>4, <1>5, <1>6, <1>7, <1>8, FormsBegin, Zenon

LEMMA CardsPayingKept ==
    ASSUME Inv, [Next]_vars
    PROVE  CardsPaying'
<1>1. /\ form \in [Bookings -> Forms] /\ confirming \subseteq Bookings
      /\ section \in {"book", "bookings"}
      /\ CardsPaying /\ Quiet
  BY Zenon DEF Inv, CheckoutTypeOK
<1>2. CASE UNCHANGED <<section, form, confirming>>
  BY <1>1, <1>2, Zenon DEF CardsPaying
<1>3. ASSUME NEW c \in Bookings, Checkout(c)
      PROVE  CardsPaying'
  <2>1. CASE ClickSlot(c)
    BY <1>1, <2>1 DEF ClickSlot, CardFree, CardsPaying
  <2>2. CASE AnswerBook(c)
    BY <1>1, <2>2 DEF AnswerBook, Answered, CardsPaying
  <2>3. CASE OpenPayment(c) \/ ResumePayment(c)
    BY <1>1, <2>3 DEF OpenPayment, ResumePayment, Quiet, CardsPaying
  <2>4. CASE Submit(c)
    BY <1>1, <2>4 DEF Submit, CardsPaying
  <2>5. CASE Cancel(c)
    <3>1. section = "book" => c \notin confirming
      BY <1>1, <2>5 DEF Cancel, CardsPaying
    <3>2. /\ form' = [form EXCEPT ![c] = "none"]
          /\ UNCHANGED <<section, confirming>>
      BY <2>5, Zenon DEF Cancel, awaited
    <3> QED  BY <1>1, <3>1, <3>2 DEF CardsPaying
  <2>6. CASE Succeeded(c) \/ NotSucceeded(c)
    BY <1>1, <2>6 DEF Succeeded, NotSucceeded, CardsPaying
  <2>7. CASE HoldSlot(c) \/ AnsweredInBackground(c)
    BY <1>2, <2>7, Zenon DEF HoldSlot, AnsweredInBackground
  <2> QED  BY <1>3, <2>1, <2>2, <2>3, <2>4, <2>5, <2>6, <2>7, Zenon DEF Checkout
<1>4. ASSUME NEW l \in Loaders, Load(l)
      PROVE  CardsPaying'
  <2>1. section = "bookings" /\ UNCHANGED section
    BY <1>1, <1>4 DEF Load, Poll, ListForPlayer, ShowList, LoadFails, Quiet
  <2> QED  BY <2>1 DEF CardsPaying
<1>5. ShowBookings \/ ShowBook => CardsPaying'
  BY DEF ShowBookings, ShowBook, CardsPaying
<1> QED
  BY <1>2, <1>3, <1>4, <1>5, Zenon DEF Next, vars, page, awaited, Tick, Countdown, Elsewhere,
     Charge, AttachPayment, CancelBooking, Confirm, Sweep

-----------------------------------------------------------------------------
(* The list and the polls.                                                 *)

LEMMA NothingIsSoldTwice ==
    ASSUME Inv, [Next]_vars, NEW rows, RowsTrue(rows)
    PROVE  \A b \in Bookings : rows[b] = "confirmed" => ledger'[b] = "sold"
<1>1. \A b \in Bookings : Onward(b)
  BY RowsGoOnward, Zenon DEF Inv, CheckoutTypeOK
<1> QED  BY <1>1 DEF RowsTrue, Onward

LEMMA AnswersAreTrue ==
    /\ RowsTrue(PlayerBookings)
    /\ RowsTrue(Idle.rows)
    /\ \A b \in Bookings : PlayerBookings[b] # "pending_payment" =>
          ledger[b] # "held" \/ ~(StartsAt[SlotOf[b]] >= now)
<1>1. RowsTrue(Idle.rows)
  BY DEF RowsTrue, Idle
<1>2. ASSUME NEW b \in Bookings
      PROVE  /\ PlayerBookings[b] = "confirmed" => ledger[b] = "sold"
             /\ PlayerBookings[b] # "pending_payment" =>
                    ledger[b] # "held" \/ ~(StartsAt[SlotOf[b]] >= now)
  <2>1. PlayerBookings[b] = IF StartsAt[SlotOf[b]] >= now THEN StatusOf(b) ELSE "absent"
    BY Zenon DEF PlayerBookings
  <2>2. StatusOf(b) = "confirmed" => ledger[b] = "sold"
    BY DEF StatusOf
  <2>3. ledger[b] = "held" => StatusOf(b) = "pending_payment"
    BY DEF StatusOf
  <2> QED  BY <2>1, <2>2, <2>3
<1> QED  BY <1>1, <1>2, Zenon DEF RowsTrue

\* One read of the table finds one hold of a slot (bookings_no_double_booking).
LEMMA AnswersAreApart ==
    ASSUME Kept
    PROVE  RowsApart(PlayerBookings) /\ RowsApart(Idle.rows)
<1>1. RowsApart(Idle.rows)
  BY DEF RowsApart, Idle
<1>2. ASSUME NEW b \in Bookings, PlayerBookings[b] = "pending_payment"
      PROVE  Promises!Slot!Occupies(b)
  <2>1. PlayerBookings[b] = IF StartsAt[SlotOf[b]] >= now THEN StatusOf(b) ELSE "absent"
    BY Zenon DEF PlayerBookings
  <2>2. StatusOf(b) = "pending_payment"
    BY <1>2, <2>1
  <2>3. ledger[b] = "held"
    BY <2>2 DEF StatusOf
  <2> QED  BY <2>3 DEF Promises!Slot!Occupies
<1> QED  BY <1>1, <1>2, Zenon DEF RowsApart, Kept, Promises!Slot!OneOccupant

\* Nothing loads while the list is not up.
LEMMA QuietKept ==
    ASSUME Inv, [Next]_vars
    PROVE  Quiet'
<1>1. CheckoutTypeOK /\ Quiet
  BY Zenon DEF Inv
<1> USE DEF CheckoutTypeOK, Quiet
<1>2. CASE UNCHANGED <<section, resuming, loader>>
  BY <1>1, <1>2, Zenon
<1>3. CASE ShowBook
  BY <1>3 DEF ShowBook, Idle
<1>4. CASE section' = "bookings"
  BY <1>4
<1>5. ASSUME NEW l \in Loaders, Load(l) PROVE section = "bookings"
  BY <1>1, <1>5 DEF Load, Poll, ListForPlayer, ShowList, LoadFails
<1>6. ASSUME NEW l \in Loaders, Load(l) PROVE UNCHANGED section
  BY <1>6, Zenon DEF Load, Poll, ListForPlayer, ShowList, LoadFails
<1>7. ASSUME NEW b \in Bookings, Checkout(b) PROVE Quiet'
  <2>1. CASE UNCHANGED <<section, resuming, loader>>
    BY <2>1, <1>2
  <2>2. CASE OpenPayment(b) \/ ResumePayment(b)
    <3>1. section' = "bookings"
      BY <1>1, <2>2 DEF OpenPayment, ResumePayment
    <3> QED  BY <3>1, <1>4
  <2>3. CASE Succeeded(b)
    <3>1. section' = section /\ UNCHANGED resuming /\ (section = "book" => UNCHANGED loader)
      BY <2>3 DEF Succeeded
    <3> QED  BY <1>1, <3>1
  <2>4. CASE AnsweredInBackground(b)
    <3>1. section' = section /\ UNCHANGED resuming /\ (section = "book" => UNCHANGED loader)
      BY <2>4 DEF AnsweredInBackground, ReloadIfUp
    <3> QED  BY <1>1, <3>1
  <2> QED
    BY <1>7, <2>1, <2>2, <2>3, <2>4, Zenon DEF Checkout, ClickSlot, HoldSlot, AnswerBook, Submit,
       Cancel, NotSucceeded, awaited
<1>8. CASE ShowBookings
  BY <1>8, <1>4, Zenon DEF ShowBookings
<1>9. ASSUME NEW l \in Loaders, Load(l) PROVE Quiet'
  BY <1>4, <1>5, <1>6, <1>9, Zenon
<1> QED
  BY <1>2, <1>3, <1>7, <1>8, <1>9, Zenon DEF Next, vars, page, awaited, Tick, Countdown, Elsewhere,
     Charge, AttachPayment, CancelBooking, Confirm, Sweep

\* What a step makes of one load.
Continued(l) ==
    \/ loader'[l] = loader[l]
    \/ loader'[l] = Idle
    \/ loader'[l] = [Idle EXCEPT !.pc = "sent"]
    \/ \E b \in Bookings :
          /\ payment[b] = "paid"
          /\ loader'[l] = [Idle EXCEPT !.pc = "waiting", !.awaits = b, !.left = ConfirmAttempts]
    \/ loader[l].pc = "waiting" /\ loader'[l] = [loader[l] EXCEPT !.pc = "sent", !.left = @ - 1]
    \/ /\ loader[l].pc = "sent"
       /\ loader'[l] = [loader[l] EXCEPT !.pc = "read", !.rows = PlayerBookings]
       /\ UNCHANGED <<now, ledger>>
    \/ /\ PollsOn(l)
       /\ loader'[l] = [Idle EXCEPT !.pc = "waiting", !.awaits = loader[l].awaits,
                                    !.left = loader[l].left]

LEMMA ReloadContinues ==
    ASSUME loader \in [Loaders -> Loading], NEW l \in Loaders, NEW k \in Loaders, Reload(l)
    PROVE  Continued(k)
BY DEF Reload, Continued

LEMMA LoadsContinue ==
    ASSUME [Next]_vars, CheckoutTypeOK, NEW k \in Loaders
    PROVE  Continued(k)
<1>0. loader \in [Loaders -> Loading]
  BY Zenon DEF CheckoutTypeOK
<1>1. CASE UNCHANGED loader
  BY <1>1, Zenon DEF Continued
<1>2. ASSUME NEW l \in Loaders, Reload(l) PROVE Continued(k)
  BY <1>0, <1>2, ReloadContinues, Zenon
<1>3. CASE ShowBookings \/ ShowBook
  <2>1. ShowBook => loader'[k] = Idle
    BY DEF ShowBook
  <2> QED  BY <1>2, <1>3, <2>1, Zenon DEF ShowBookings, Continued
<1>4. ASSUME NEW b \in Bookings, Checkout(b) PROVE Continued(k)
  <2>1. CASE Succeeded(b)
    <3>1. ASSUME NEW l \in Loaders, Watch(b, l) PROVE Continued(k)
      <4>1. CASE k = l
        <5>1. loader'[l] = [Idle EXCEPT !.pc = "waiting", !.awaits = b, !.left = ConfirmAttempts]
          BY <1>0, <3>1 DEF Watch
        <5> QED  BY <2>1, <4>1, <5>1, Zenon DEF Continued, Succeeded
      <4>2. CASE k # l
        <5>1. loader'[k] = loader[k]
          BY <1>0, <3>1, <4>2 DEF Watch
        <5> QED  BY <5>1, Zenon DEF Continued
      <4> QED  BY <4>1, <4>2
    <3> QED  BY <1>1, <2>1, <3>1, Zenon DEF Succeeded
  <2>2. CASE ResumePayment(b) \/ AnsweredInBackground(b)
    BY <1>1, <1>2, <2>2, Zenon DEF ResumePayment, AnsweredInBackground, ReloadIfUp
  <2> QED
    BY <1>1, <1>4, <2>1, <2>2, Zenon DEF Checkout, ClickSlot, HoldSlot, AnswerBook, OpenPayment,
       Submit, Cancel, NotSucceeded
<1>5. ASSUME NEW l \in Loaders, Load(l) PROVE Continued(k)
  <2>1. CASE k # l
    <3>1. loader'[k] = loader[k]
      BY <1>0, <1>5, <2>1 DEF Load, Poll, ListForPlayer, ShowList, LoadFails
    <3> QED  BY <3>1, Zenon DEF Continued
  <2>2. CASE k = l
    <3>1. Poll(l) => Continued(l)
      BY <1>0 DEF Poll, Continued
    <3>2. ListForPlayer(l) => Continued(l)
      BY <1>0 DEF ListForPlayer, Continued, server
    <3>3. ShowList(l) => Continued(l)
      BY <1>0 DEF ShowList, Continued
    <3>4. LoadFails(l) => Continued(l)
      BY <1>0 DEF LoadFails, Continued
    <3> QED  BY <1>5, <2>2, <3>1, <3>2, <3>3, <3>4, Zenon DEF Load
  <2> QED  BY <2>1, <2>2
<1> QED
  BY <1>1, <1>3, <1>4, <1>5, Zenon DEF Next, vars, page, Tick, Countdown, Elsewhere, Charge,
     AttachPayment, CancelBooking,
     Confirm, Sweep

\* The same, field by field.
Fields(l) ==
    \/ loader'[l] = loader[l]
    \/ /\ loader'[l].pc # "waiting" /\ loader'[l].awaits = NoBooking
       /\ loader'[l].rows = Idle.rows
    \/ /\ \E b \in Bookings : payment[b] = "paid" /\ loader'[l].awaits = b
       /\ loader'[l].pc = "waiting" /\ loader'[l].left = ConfirmAttempts
       /\ loader'[l].rows = Idle.rows
    \/ /\ loader'[l].pc = "sent" /\ loader'[l].awaits = loader[l].awaits
       /\ loader'[l].rows = loader[l].rows
    \/ /\ loader'[l].pc = "read" /\ loader'[l].awaits = loader[l].awaits
       /\ loader'[l].rows = PlayerBookings
       /\ UNCHANGED <<now, ledger>>
    \/ /\ PollsOn(l)
       /\ loader'[l].pc = "waiting" /\ loader'[l].awaits = loader[l].awaits
       /\ loader'[l].left = loader[l].left /\ loader'[l].rows = Idle.rows

LEMMA LoadFields ==
    ASSUME NEW l \in Loaders, loader[l] \in Loading, Continued(l)
    PROVE  Fields(l)
<1>1. CASE loader'[l] = loader[l]
  BY <1>1, Zenon DEF Fields
<1>2. CASE loader'[l] = Idle \/ loader'[l] = [Idle EXCEPT !.pc = "sent"]
  BY <1>2 DEF Fields, Idle
<1>3. ASSUME NEW b \in Bookings, payment[b] = "paid",
             loader'[l] = [Idle EXCEPT !.pc = "waiting", !.awaits = b, !.left = ConfirmAttempts]
      PROVE  Fields(l)
  <2>1. /\ loader'[l].pc = "waiting" /\ loader'[l].awaits = b
        /\ loader'[l].left = ConfirmAttempts /\ loader'[l].rows = Idle.rows
    BY <1>3 DEF Idle
  <2> QED  BY <1>3, <2>1, Zenon DEF Fields
<1>4. CASE loader'[l] = [loader[l] EXCEPT !.pc = "sent", !.left = @ - 1]
  <2>1. /\ loader'[l].pc = "sent" /\ loader'[l].awaits = loader[l].awaits
        /\ loader'[l].rows = loader[l].rows
    BY <1>4 DEF Loading
  <2> QED  BY <2>1, Zenon DEF Fields
<1>5. CASE /\ loader'[l] = [loader[l] EXCEPT !.pc = "read", !.rows = PlayerBookings]
           /\ UNCHANGED <<now, ledger>>
  <2>1. /\ loader'[l].pc = "read" /\ loader'[l].awaits = loader[l].awaits
        /\ loader'[l].rows = PlayerBookings
    BY <1>5 DEF Loading
  <2> QED  BY <1>5, <2>1, Zenon DEF Fields
<1>6. CASE /\ PollsOn(l)
           /\ loader'[l] = [Idle EXCEPT !.pc = "waiting", !.awaits = loader[l].awaits,
                                        !.left = loader[l].left]
  <2>1. /\ loader'[l].pc = "waiting" /\ loader'[l].awaits = loader[l].awaits
        /\ loader'[l].left = loader[l].left /\ loader'[l].rows = Idle.rows
    BY <1>6 DEF Idle
  <2> QED  BY <1>6, <2>1, Zenon DEF Fields
<1> QED  BY <1>1, <1>2, <1>3, <1>4, <1>5, <1>6, Zenon DEF Continued

LEMMA LoadsKept ==
    ASSUME Kept, Inv, [Next]_vars, NEW l \in Loaders
    PROVE  (/\ RowsTrue(loader[l].rows) /\ RowsApart(loader[l].rows)
            /\ Watching(loader[l]) /\ Counted(loader[l]))'
<1>1. /\ CheckoutTypeOK /\ RowsTrue(loader[l].rows) /\ RowsApart(loader[l].rows)
      /\ Watching(loader[l]) /\ Counted(loader[l])
  BY Zenon DEF Inv
<1>2. Fields(l)
  <2>1. loader[l] \in Loading
    BY <1>1 DEF CheckoutTypeOK
  <2> QED  BY <1>1, <2>1, LoadsContinue, LoadFields, Zenon
<1>3. \A b \in Bookings : Onward(b) /\ (payment[b] # "none" => ledger[b] # "nothing")
  BY <1>1, RowsGoOnward, Zenon DEF CheckoutTypeOK, Kept, Promises!HoldInv, Promises!OpenIsTaken
<1>4. now \in Nat /\ now' \in {now, now + 1} /\ \A b \in Bookings : StartsAt[SlotOf[b]] \in Nat
  BY <1>1, RowsGoOnward, SlotAssumption DEF CheckoutTypeOK
<1>5. (RowsTrue(loader[l].rows))'
  <2>1. RowsTrue(loader'[l].rows)
    BY <1>1, <1>2, AnswersAreTrue, Zenon DEF Fields
  <2> QED  BY <2>1, NothingIsSoldTwice, Zenon DEF RowsTrue
<1>6. Counted(loader[l])'
  <2>1. ConfirmAttempts > 0
    BY AttemptsAssumption
  <2> QED  BY <1>1, <1>2, <2>1 DEF Fields, Counted, PollsOn
<1>7. ASSUME NEW b \in Bookings, loader'[l].awaits = b
      PROVE  /\ ledger'[b] # "nothing"
             /\ loader'[l].pc = "read" /\ loader'[l].rows[b] # "pending_payment" =>
                   ledger'[b] # "held" \/ now' > StartsAt[SlotOf[b]]
  <2>1. CASE loader[l].awaits = b
    <3>1. ledger[b] # "nothing" /\ ledger'[b] # "nothing"
      BY <1>1, <1>3, <2>1 DEF Watching, Onward
    <3>2. ledger[b] # "held" => ledger'[b] # "held"
      BY <1>3, <3>1 DEF Onward
    <3>3. now > StartsAt[SlotOf[b]] => now' > StartsAt[SlotOf[b]]
      BY <1>4
    <3>4. ~(StartsAt[SlotOf[b]] >= now) => now > StartsAt[SlotOf[b]]
      BY <1>4
    <3>5. loader'[l].pc = "read" /\ loader'[l].rows[b] # "pending_payment" =>
             ledger[b] # "held" \/ now > StartsAt[SlotOf[b]]
      <4>1. CASE loader'[l] = loader[l]
        BY <1>1, <2>1, <4>1 DEF Watching
      <4>2. CASE loader'[l].rows = PlayerBookings
        BY <4>2, <3>4, AnswersAreTrue, Zenon
      <4> QED  BY <1>2, <1>7, <4>1, <4>2, NoBookingAssumption DEF Fields
    <3> QED  BY <3>1, <3>2, <3>3, <3>5, Zenon
  <2>2. CASE loader[l].awaits # b
    <3>1. payment[b] = "paid" /\ loader'[l].pc = "waiting"
      BY <1>2, <1>7, <2>2, NoBookingAssumption DEF Fields
    <3>2. ledger[b] # "nothing" /\ ledger'[b] # "nothing"
      BY <1>3, <3>1 DEF Onward
    <3> QED  BY <3>1, <3>2
  <2> QED  BY <2>1, <2>2
<1>8. Watching(loader[l])'
  BY <1>7, Zenon DEF Watching
<1>9. (RowsApart(loader[l].rows))'
  <2>1. RowsApart(loader'[l].rows)
    BY <1>1, <1>2, AnswersAreApart, Zenon DEF Fields
  <2> QED  BY <2>1, Zenon DEF RowsApart
<1> QED  BY <1>5, <1>6, <1>8, <1>9, Zenon

LEMMA ListKept ==
    ASSUME Kept, Inv, [Next]_vars
    PROVE  RowsTrue(list.rows)' /\ RowsApart(list.rows)'
<1>1. /\ CheckoutTypeOK /\ RowsTrue(list.rows) /\ RowsApart(list.rows)
      /\ \A l \in Loaders : RowsTrue(loader[l].rows) /\ RowsApart(loader[l].rows)
  BY Zenon DEF Inv
<1>2. list \in [rows: [Bookings -> Statuses], failed: BOOLEAN]
  BY <1>1, Zenon DEF CheckoutTypeOK
<1> DEFINE From == \/ list'.rows = list.rows
                   \/ list'.rows = Idle.rows
                   \/ \E l \in Loaders : list'.rows = loader[l].rows
<1>3. UNCHANGED list => From
  OBVIOUS
<1>4. ASSUME NEW l \in Loaders, Reload(l) PROVE From
  BY <1>2, <1>4 DEF Reload
<1>5. ASSUME NEW l \in Loaders, Load(l) PROVE From
  BY <1>2, <1>5 DEF Load, Poll, ListForPlayer, ShowList, LoadFails
<1>6. ASSUME NEW b \in Bookings, Checkout(b) PROVE From
  BY <1>3, <1>4, <1>6, Zenon DEF Checkout, ClickSlot, HoldSlot, AnswerBook, OpenPayment,
     ResumePayment, Submit, Cancel, Succeeded, NotSucceeded, AnsweredInBackground, ReloadIfUp
<1>7. ShowBook => From
  BY DEF ShowBook, Empty, Idle
<1>8. ShowBookings => From
  BY <1>4, Zenon DEF ShowBookings
<1>9. From
  BY <1>3, <1>5, <1>6, <1>7, <1>8, Zenon DEF Next, vars, page, Tick, Countdown, Elsewhere, Charge,
     AttachPayment, CancelBooking, Confirm, Sweep
<1>10. RowsTrue(list'.rows)
  BY <1>1, <1>9, AnswersAreTrue, Zenon
<1>11. RowsApart(list'.rows)
  BY <1>1, <1>9, AnswersAreApart, Zenon
<1> QED  BY <1>10, <1>11, NothingIsSoldTwice, Zenon DEF RowsTrue, RowsApart

-----------------------------------------------------------------------------
LEMMA InvInitially == Init => Inv
<1> SUFFICES ASSUME Init PROVE Inv
  OBVIOUS
<1>1. ListTyped
  BY IdleTyped DEF Init, ListTyped
<1>2. FormTyped /\ AwaitedTyped
  BY DEF Init, FormTyped, AwaitedTyped, Forms
<1>3. ServerTyped
  BY DEF Init, ServerTyped, Server!Init, Server!Slot!Init, Server!HoldTypeOK, Server!Slot!Outcomes,
     Server!Never
<1>4. ClocksTyped /\ now + drift <= reading + Lag
  <2>1. drift \in Int /\ now = 0 /\ reading = drift
    BY CheckoutTimeAssumption DEF Init, Server!Init
  <2> QED  BY <2>1, CheckoutTimeAssumption DEF Init, ClocksTyped
<1>5. CheckoutTypeOK
  BY <1>1, <1>2, <1>3, <1>4, TypeParts, Zenon
<1>6. \A b \in Bookings : Payable(b)
  BY DEF Init, Payable
<1>7. OneForm /\ FormsListed /\ CardsPaying
  BY DEF Init, OneForm, FormsListed, CardsPaying
<1>8. RowsTrue(list.rows) /\ RowsApart(list.rows)
  BY DEF Init, Empty, RowsTrue, RowsApart
<1>9. \A l \in Loaders :
          /\ RowsTrue(loader[l].rows) /\ RowsApart(loader[l].rows)
          /\ Watching(loader[l]) /\ Counted(loader[l])
  BY NoBookingAssumption DEF Init, Idle, RowsTrue, RowsApart, Watching, Counted
<1>10. Quiet
  BY DEF Init, Idle, Quiet
<1> QED  BY <1>4, <1>5, <1>6, <1>7, <1>8, <1>9, <1>10, Zenon DEF Inv

LEMMA InvKept == Kept /\ Inv /\ [Next]_vars => Inv'
<1> SUFFICES ASSUME Kept, Inv, [Next]_vars PROVE Inv'
  OBVIOUS
<1>1. (now + drift <= reading + Lag)'
  <2>1. ClocksTyped /\ now \in Nat /\ now + drift <= reading + Lag
    BY TypeParts, Zenon DEF Inv, CheckoutTypeOK, Server!HoldTypeOK
  <2>2. CASE Next
    BY <2>1, <2>2, ClocksKept, Zenon
  <2>3. CASE UNCHANGED vars
    BY <2>1, <2>3, Zenon DEF vars, server, clocks
  <2> QED  BY <2>2, <2>3
<1> QED
  BY <1>1, TypesKept, PayableKept, OneFormKept, FormsListedKept, CardsPayingKept, ListKept,
     LoadsKept, QuietKept, Zenon DEF Inv

\* What the theorems below rest on.
THEOREM CheckoutInvariance == Spec => [](Kept /\ Inv)
BY PromisesKept, InvInitially, InvKept, PTL DEF Spec

-----------------------------------------------------------------------------
(* What the player can rely on.                                            *)

\* Every variable keeps its type, and no poll uses more than its attempts.
THEOREM CheckoutTyped == Spec => []CheckoutTypeOK
<1>1. Inv => CheckoutTypeOK
  BY Zenon DEF Inv
<1> QED  BY <1>1, CheckoutInvariance, PTL

\* A booking the list calls confirmed has its slot for good, in whatever order
\* answers to GET /bookings arrive (MyBookings.tsx:28).
THEOREM ConfirmedMeansSold == Spec => []ShownConfirmedIsSold
<1>1. Inv => ShownConfirmedIsSold
  BY Zenon DEF Inv, RowsTrue, ShownConfirmedIsSold
<1> QED  BY <1>1, CheckoutInvariance, PTL

\* The arithmetic of CountdownsAreHonest.
LEMMA LagBounds ==
    ASSUME NEW t \in Nat, NEW d \in Int, NEW r \in Int, NEW e \in Int,
           t + d <= r + Lag, ~(e <= r)
    PROVE  t + d < e + Lag
BY CheckoutTimeAssumption

\* A payment form stands on a hold that is kept, and goes soon after it ends
\* (useCountdown, CourtResult.tsx:30, PendingBooking.tsx:26).
THEOREM CountdownsAreHonest == Spec => []FormsEndWithHolds
<1>1. Kept /\ Inv => FormsEndWithHolds
  <2> SUFFICES ASSUME Kept, Inv, NEW b \in Bookings, FormUp(b)
               PROVE  /\ now + drift < expires[b] + Lag
                      /\ now + ClockSkew < expires[b] => Server!Slot!Occupies(b)
    BY Zenon DEF FormsEndWithHolds
  <2>1. /\ now \in Nat /\ drift \in Int /\ reading \in Int /\ expires[b] \in Int
        /\ ledger[b] \in Server!Slot!Outcomes
    BY CheckoutTimeAssumption DEF Inv, CheckoutTypeOK, Server!HoldTypeOK, Server!Never
  <2>2. now + drift <= reading + Lag /\ ~(expires[b] <= reading)
    BY Zenon DEF Inv, FormUp, Lapsed
  <2>3. now + drift < expires[b] + Lag
    BY <2>1, <2>2, LagBounds
  <2>4. payment[b] # "none"
    BY DEF Inv, Payable, FormUp
  <2>5. ledger[b] # "nothing"
    BY <2>4 DEF Kept, Promises!HoldInv, Promises!OpenIsTaken
  <2>6. ledger[b] = "released" => expires[b] <= now + ClockSkew
    BY <2>4 DEF Kept, Promises!HoldInv, Promises!OpenIsKept
  <2>7. now + ClockSkew < expires[b] => ~(expires[b] <= now + ClockSkew)
    BY <2>1, CheckoutTimeAssumption
  <2> QED
    BY <2>1, <2>3, <2>5, <2>6, <2>7 DEF Server!Slot!Occupies, Server!Slot!Outcomes
<1> QED  BY <1>1, CheckoutInvariance, PTL

\* Of the holds a player has had of a slot, one at most has a form up that
\* takes money (CourtResult.tsx:71, MyBookings.tsx:82).
THEOREM OneFormAtATime == Spec => []OneFormPerSlot
<1>1. Inv => OneFormPerSlot
  BY Zenon DEF Inv, OneForm, OneFormPerSlot, FormUp
<1> QED  BY <1>1, CheckoutInvariance, PTL

\* A poll stops on an answer only when there is nothing left to wait for
\* (awaitConfirmation, MyBookings.tsx:54).
THEOREM PollsStopForGoodReason == Spec => PollsStopOnNews
<1>1. Inv /\ [Next]_vars => [\A l \in Loaders : \A b \in Bookings :
        /\ loader[l].pc = "read" /\ loader[l].awaits = b /\ loader[l].left > 0
        /\ loader'[l].pc = "idle" /\ section' = section
        => ledger[b] # "held" \/ now > StartsAt[SlotOf[b]]]_vars
  <2> SUFFICES ASSUME Inv, Next, NEW l \in Loaders, NEW b \in Bookings,
                      loader[l].pc = "read", loader[l].awaits = b, loader[l].left > 0,
                      loader'[l].pc = "idle", section' = section
               PROVE  ledger[b] # "held" \/ now > StartsAt[SlotOf[b]]
    BY Zenon
  <2>1. loader \in [Loaders -> Loading] /\ section = "bookings"
    BY DEF Inv, CheckoutTypeOK, Quiet
  <2>2. Watching(loader[l])
    BY Zenon DEF Inv
  <2>3. SUFFICES loader[l].rows[b] # "pending_payment"
    BY <2>2, Zenon DEF Watching
  <2>4. loader'[l] # loader[l]
    OBVIOUS
  <2>5. ~ShowBook
    BY <2>1 DEF ShowBook
  <2>6. ASSUME NEW k \in Loaders, Reload(k) PROVE FALSE
    BY <2>1, <2>4, <2>6 DEF Reload
  <2>7. ASSUME NEW c \in Bookings, Checkout(c) PROVE FALSE
    <3>1. ASSUME NEW k \in Loaders, Watch(c, k) PROVE FALSE
      BY <2>1, <2>4, <3>1 DEF Watch
    <3> QED
      BY <2>4, <2>6, <2>7, <3>1, Zenon DEF Checkout, ClickSlot, HoldSlot, AnswerBook, OpenPayment,
         ResumePayment, Submit, Cancel, Succeeded, NotSucceeded, AnsweredInBackground, ReloadIfUp
  <2>8. ASSUME NEW k \in Loaders, Load(k) PROVE k = l /\ ShowList(l)
    <3>1. k = l
      BY <2>1, <2>4, <2>8 DEF Load, Poll, ListForPlayer, ShowList, LoadFails
    <3> QED  BY <2>8, <3>1 DEF Load, Poll, ListForPlayer, LoadFails
  <2>9. ShowList(l)
    BY <2>4, <2>5, <2>6, <2>7, <2>8, Zenon DEF Next, Tick, Countdown, ShowBookings, Elsewhere,
       Charge, AttachPayment, CancelBooking, Confirm, Sweep, page
  <2>10. ~PollsOn(l)
    <3>1. CASE PollsOn(l)
      <4>1. loader'[l].pc = "waiting"
        BY <2>1, <2>9, <3>1 DEF ShowList, Idle
      <4> QED  BY <4>1
    <3> QED  BY <3>1
  <2> QED  BY <2>10, Zenon DEF PollsOn, StillPending
<1> QED  BY <1>1, CheckoutInvariance, PTL DEF Spec, PollsStopOnNews
=============================================================================
