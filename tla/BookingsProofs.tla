--------------------------- MODULE BookingsProofs ---------------------------
(***************************************************************************)
(* Proofs about Bookings, for every set of requests, slots, deliveries and *)
(* sweepers, every hold, time limit and clock skew that keeps to           *)
(* TimeoutAssumption, and every kind of fault.                             *)
(***************************************************************************)
EXTENDS Bookings, TLAPS

-----------------------------------------------------------------------------
(* The inductive invariant.                                                *)

\* A request, its row and its intent move together; only a row that carries
\* its intent is ever paid for.
Linked ==
    \A b \in Bookings :
        /\ booking[b].intent \in {b, NoIntent}
        /\ booking[b].status = "none" => booking[b].intent = NoIntent
        /\ request[b].pc \in {"idle", "checked"} => booking[b].status = "none"
        /\ b \in secrets \cup resuming => booking[b].intent = b
        /\ payment[b] = "paid" => b \in secrets

\* While Book is under way its row is the hold it inserted, and no sweep can
\* have reached it without the hold having run out.
Holding ==
    /\ \A s \in Sweepers : sweep[s] <= now + ClockSkew
    /\ \A b \in Bookings : request[b].pc \in InFlight =>
          /\ request[b].start <= now
          /\ request[b].pc # "checked" =>
                /\ booking[b].status = "pending_payment"
                /\ booking[b].intent = NoIntent
                /\ booking[b].expires = request[b].start + PaymentHold
                /\ booking[b].cancelled => booking[b].expires <= now + ClockSkew

\* A delivery is about an intent some row carries, and two never have the same
\* event inserted at once.
Serial ==
    \A d \in Deliveries : delivery[d].pc # "idle" =>
        /\ delivery[d].intent \in Bookings
        /\ booking[delivery[d].intent].intent = delivery[d].intent
        /\ delivery[d].pc \in {"recorded", "updated"} =>
              /\ delivery[d].intent \notin stripeEvents
              /\ \A e \in Deliveries :
                    delivery[e].pc \in {"recorded", "updated"}
                        /\ delivery[e].intent = delivery[d].intent => e = d

\* The two tables a confirmation writes agree.
Settled ==
    \A b \in Bookings :
        /\ b \in stripeEvents <=> booking[b].status = "confirmed"
        /\ booking[b].status = "confirmed" => booking[b].intent = b

\* Until it is confirmed a row's hold is counted from the clock its request
\* read, whatever became of the request.
Dated ==
    \A b \in Bookings :
        booking[b].expires = IF booking[b].status = "pending_payment"
                             THEN request[b].start + PaymentHold ELSE Never

\* Only payments that came in are delivered.
Owed ==
    \A d \in Deliveries :
        delivery[d].pc # "idle" => payment[delivery[d].intent] = "paid"

\* What a person is asked to refund has lost its slot, and a row that lost its
\* slot never has it back.
Refunded ==
    \A i \in reported : booking[i].intent = i /\ booking[i].cancelled

Inv == TypeOK /\ Linked /\ Holding /\ Serial /\ Settled
           /\ OneHoldPerSlot /\ AckedIsSettled /\ Dated /\ Owed /\ Refunded

-----------------------------------------------------------------------------
(* Types.                                                                  *)

\* The types hold at the start.
LEMMA TypeInit == Init => TypeOK
BY TimeAssumption DEF Init, TypeOK, InFlight, NoRow, IdleDelivery, Request, Delivery,
   Row, Times, Never

\* A request only ever moves to a known pc and keeps its reading of the clock.
LEMMA MoveType ==
    ASSUME TypeOK, NEW b \in Bookings,
           NEW pc \in InFlight \cup {"answered", "refused"},
           Step(b, pc) \/ Finish(b, pc)
    PROVE  request' \in [Bookings -> Request]
BY DEF TypeOK, Request, Step, Finish

\* Every step of a booking request keeps the types.
LEMMA TypeBook ==
    ASSUME TypeOK, NEW b \in Bookings, Book(b)
    PROVE  TypeOK'
<1> USE DEF vars, requestVars, gatewayVars, webhookVars
<1>1. CASE CheckSlot(b)
  <2>1. request' \in [Bookings -> Request]
    BY <1>1 DEF CheckSlot, TypeOK, Request, InFlight
  <2> QED
    BY <1>1, <2>1 DEF CheckSlot, TypeOK
<1>2. CASE HoldSlot(b)
  <2>1. request' \in [Bookings -> Request]
    BY <1>2, MoveType DEF HoldSlot, InFlight
  <2>2. ASSUME InsertHold(b)
        PROVE  booking' \in [Bookings -> Row]
    <3>1. request[b].start + PaymentHold \in Times
      BY TimeAssumption DEF TypeOK, Request, Times
    <3> QED
      BY <2>2, <3>1 DEF InsertHold, TypeOK, Row
  <2>3. booking' \in [Bookings -> Row]
    BY <1>2, <2>2 DEF HoldSlot, TypeOK
  <2> QED
    BY <1>2, <2>1, <2>3 DEF HoldSlot, TypeOK
<1>3. CASE CreatePayment(b)
  <2>1. request' \in [Bookings -> Request]
    BY <1>3, MoveType DEF CreatePayment, InFlight
  <2> QED
    BY <1>3, <2>1 DEF CreatePayment, TypeOK
<1>4. CASE CancelBooking(b)
  <2>1. request' \in [Bookings -> Request]
    BY <1>4, MoveType DEF CancelBooking, InFlight
  <2>2. ASSUME NEW row \in Row
        PROVE  [row EXCEPT !.cancelled = TRUE] \in Row
    BY DEF Row
  <2>3. booking' \in [Bookings -> Row]
    BY <1>4, <2>2 DEF CancelBooking, TypeOK
  <2> QED
    BY <1>4, <2>1, <2>3 DEF CancelBooking, TypeOK
<1>5. CASE AttachPayment(b)
  <2>1. request' \in [Bookings -> Request]
    BY <1>5, MoveType DEF AttachPayment, InFlight
  <2>2. booking' \in [Bookings -> Row]
    BY <1>5 DEF AttachPayment, TypeOK, Row
  <2> QED
    BY <1>5, <2>1, <2>2 DEF AttachPayment, TypeOK
<1>6. CASE ClientLeaves(b)
  <2>1. request' \in [Bookings -> Request]
    BY <1>6 DEF ClientLeaves, TypeOK, Request
  <2> QED
    BY <1>6, <2>1 DEF ClientLeaves, TypeOK
<1>7. CASE CrashBook(b)
  <2>1. request' \in [Bookings -> Request]
    BY <1>7, MoveType DEF CrashBook, InFlight
  <2> QED
    BY <1>7, <2>1 DEF CrashBook, TypeOK
<1> QED
  BY <1>1, <1>2, <1>3, <1>4, <1>5, <1>6, <1>7 DEF Book

\* So does every step of a resumed payment, of the gateway and of the clock.
LEMMA TypeResume ==
    ASSUME TypeOK, Linked, NEW b \in Bookings, Resume(b) \/ Gateway(b) \/ Tick
    PROVE  TypeOK'
<1> USE DEF vars, requestVars, gatewayVars, webhookVars
<1>1. CASE ReadForResume(b)
  BY <1>1 DEF ReadForResume, TypeOK
<1>2. CASE ResumePayment(b)
  <2>1. booking[b].intent \in Bookings
    BY <1>2 DEF ResumePayment, Linked
  <2> QED
    BY <1>2, <2>1 DEF ResumePayment, TypeOK
<1>3. CASE PayCard(b)
  BY <1>3 DEF PayCard, TypeOK
<1>4. CASE DeclineCard(b)
  BY <1>4 DEF DeclineCard, TypeOK
<1>5. CASE IgnoreEvent(b)
  BY <1>5 DEF IgnoreEvent, TypeOK
<1>6. CASE Tick
  BY <1>6 DEF Tick, TypeOK
<1> QED
  BY <1>1, <1>2, <1>3, <1>4, <1>5, <1>6 DEF Resume, Gateway

\* Ending a delivery or moving it on keeps the type of delivery.
LEMMA DeliveryType ==
    ASSUME TypeOK, NEW d \in Deliveries,
           \/ EndDelivery(d)
           \/ \E pc \in {"found", "recorded", "updated"} :
                delivery' = [delivery EXCEPT ![d].pc = pc]
    PROVE  delivery' \in [Deliveries -> Delivery]
BY DEF TypeOK, Delivery, EndDelivery, IdleDelivery

\* And every step of a delivery.
LEMMA TypeDelivery ==
    ASSUME TypeOK, Serial, NEW d \in Deliveries,
           HandlePaymentEvent(d) \/ \E i \in Bookings : ReceiveEvent(d, i)
    PROVE  TypeOK'
<1> USE DEF vars, requestVars, gatewayVars, webhookVars
<1>0. delivery[d].pc # "idle" => delivery[d].intent \in Bookings
  BY DEF Serial
<1>1. CASE GetBookingByPayment(d)
  <2>1. delivery' \in [Deliveries -> Delivery]
    BY <1>1, DeliveryType DEF GetBookingByPayment
  <2> QED
    BY <1>0, <1>1, <2>1 DEF GetBookingByPayment, TypeOK
<1>2. CASE RecordStripeEvent(d)
  <2>1. delivery' \in [Deliveries -> Delivery]
    BY <1>2, DeliveryType DEF RecordStripeEvent
  <2> QED
    BY <1>0, <1>2, <2>1 DEF RecordStripeEvent, TypeOK
<1>3. CASE ConfirmBooking(d)
  <2>1. delivery' \in [Deliveries -> Delivery]
    BY <1>3, DeliveryType DEF ConfirmBooking
  <2> QED
    BY <1>3, <2>1 DEF ConfirmBooking, TypeOK
<1>4. CASE CommitConfirm(d)
  <2>1. delivery' \in [Deliveries -> Delivery]
    BY <1>4, DeliveryType DEF CommitConfirm
  <2>2. booking' \in [Bookings -> Row]
    <3>1. ASSUME NEW row \in Row
          PROVE  [row EXCEPT !.status = "confirmed", !.expires = Never] \in Row
      BY DEF Row, Times, Never
    <3> QED
      BY <1>4, <3>1 DEF CommitConfirm, Confirmed, TypeOK
  <2> QED
    BY <1>0, <1>4, <2>1, <2>2 DEF CommitConfirm, TypeOK
<1>5. CASE AbandonDelivery(d)
  <2>1. delivery' \in [Deliveries -> Delivery]
    BY <1>5, DeliveryType DEF AbandonDelivery
  <2> QED
    BY <1>5, <2>1 DEF AbandonDelivery, TypeOK
<1>6. ASSUME NEW i \in Bookings, ReceiveEvent(d, i)
      PROVE  TypeOK'
  <2>1. delivery' \in [Deliveries -> Delivery]
    BY <1>6 DEF ReceiveEvent, TypeOK, Delivery
  <2> QED
    BY <1>6, <2>1 DEF ReceiveEvent, TypeOK
<1> QED
  BY <1>1, <1>2, <1>3, <1>4, <1>5, <1>6 DEF HandlePaymentEvent

\* And every step of a sweeper.
LEMMA TypeSweep ==
    ASSUME TypeOK, NEW s \in Sweepers, Sweep(s)
    PROVE  TypeOK'
<1> USE DEF vars, requestVars, gatewayVars, webhookVars
<1>1. CASE StartSweep(s)
  BY <1>1, TimeAssumption DEF StartSweep, TypeOK, Times
<1>2. CASE ReleaseLapsedHolds(s)
  <2>1. booking' \in [Bookings -> Row]
    BY <1>2 DEF ReleaseLapsedHolds, TypeOK, Row
  <2> QED
    BY <1>2, <2>1 DEF ReleaseLapsedHolds, TypeOK, Times
<1>3. CASE AbandonSweep(s)
  BY <1>3 DEF AbandonSweep, TypeOK, Times
<1> QED
  BY <1>1, <1>2, <1>3 DEF Sweep

\* Every step keeps them.
LEMMA TypeStep == TypeOK /\ Linked /\ Serial /\ [Next]_vars => TypeOK'
<1> SUFFICES ASSUME TypeOK, Linked, Serial, [Next]_vars
             PROVE  TypeOK'
  OBVIOUS
<1>1. CASE UNCHANGED vars
  BY <1>1 DEF vars, requestVars, gatewayVars, webhookVars, TypeOK
<1>2. CASE Tick
  BY <1>2 DEF Tick, TypeOK, requestVars, gatewayVars, webhookVars
<1> QED
  BY <1>1, <1>2, TypeBook, TypeResume, TypeDelivery, TypeSweep DEF Next

-----------------------------------------------------------------------------
(* Requests, rows and intents.                                             *)

\* What the insert of a booking request does to the rows, field by field.
LEMMA InsertHoldRows ==
    ASSUME TypeOK, NEW b \in Bookings, InsertHold(b)
    PROVE  /\ booking'[b].status = "pending_payment"
           /\ booking'[b].cancelled = FALSE
           /\ booking'[b].expires = request[b].start + PaymentHold
           /\ booking'[b].intent = NoIntent
           /\ \A c \in Bookings : c # b => booking'[c] = booking[c]
BY DEF TypeOK, InsertHold

\* The same of an undo...
LEMMA CancelRows ==
    ASSUME TypeOK, NEW b \in Bookings,
           booking' = [booking EXCEPT ![b].cancelled = TRUE]
    PROVE  /\ booking'[b].status = booking[b].status
           /\ booking'[b].cancelled = TRUE
           /\ booking'[b].expires = booking[b].expires
           /\ booking'[b].intent = booking[b].intent
           /\ \A c \in Bookings : c # b => booking'[c] = booking[c]
BY DEF TypeOK, Row

\* ... of an attachment...
LEMMA AttachRows ==
    ASSUME TypeOK, NEW b \in Bookings,
           booking' = [booking EXCEPT ![b].intent = b]
    PROVE  /\ booking'[b].status = booking[b].status
           /\ booking'[b].cancelled = booking[b].cancelled
           /\ booking'[b].expires = booking[b].expires
           /\ booking'[b].intent = b
           /\ \A c \in Bookings : c # b => booking'[c] = booking[c]
BY DEF TypeOK, Row

\* ... of a confirmation...
LEMMA ConfirmRows ==
    ASSUME TypeOK, Linked, NEW i \in Bookings, booking' = Confirmed(i),
           booking[i].intent = i
    PROVE  /\ booking'[i].status = "confirmed"
           /\ booking'[i].cancelled = booking[i].cancelled
           /\ booking'[i].expires = Never
           /\ booking'[i].intent = i
           /\ \A c \in Bookings : c # i => booking'[c] = booking[c]
<1>1. ASSUME NEW row \in Row
      PROVE  LET new == [row EXCEPT !.status = "confirmed", !.expires = Never]
             IN  /\ new.status = "confirmed" /\ new.expires = Never
                 /\ new.cancelled = row.cancelled /\ new.intent = row.intent
  BY DEF Row
<1>2. \A c \in Bookings : booking[c].intent = i <=> c = i
  BY NoIntentAssumption DEF Linked
<1>3. booking'[i] = [booking[i] EXCEPT !.status = "confirmed", !.expires = Never]
  BY DEF Confirmed
<1>4. \A c \in Bookings : c # i => booking'[c] = booking[c]
  BY <1>2 DEF Confirmed
<1>5. booking[i] \in Row
  BY DEF TypeOK
<1> QED
  BY <1>1, <1>3, <1>4, <1>5

\* ... and of a sweep.
LEMMA ReleaseRows ==
    ASSUME TypeOK, NEW s \in Sweepers, ReleaseLapsedHolds(s), NEW c \in Bookings
    PROVE  /\ booking'[c].status = booking[c].status
           /\ booking'[c].expires = booking[c].expires
           /\ booking'[c].intent = booking[c].intent
           /\ booking'[c].cancelled =
                (booking[c].cancelled \/ c \in LapsedHolds(sweep[s]))
<1>1. CASE c \in LapsedHolds(sweep[s])
  <2>1. booking'[c] = [booking[c] EXCEPT !.cancelled = TRUE]
    BY <1>1 DEF ReleaseLapsedHolds
  <2>2. booking[c] \in Row
    BY DEF TypeOK
  <2> QED
    BY <1>1, <2>1, <2>2 DEF Row
<1>2. CASE c \notin LapsedHolds(sweep[s])
  BY <1>2 DEF ReleaseLapsedHolds, TypeOK, Row
<1> QED
  BY <1>1, <1>2

\* Linked survives every step of a booking request.
LEMMA LinkedBook ==
    ASSUME TypeOK, Linked, NEW b \in Bookings, Book(b), Holding
    PROVE  Linked'
<1> USE DEF Linked, TypeOK, Request, Row, requestVars, gatewayVars, webhookVars, InFlight
<1>1. CASE CheckSlot(b)
  BY <1>1 DEF CheckSlot
<1>2. CASE HoldSlot(b)
  <2>1. b \notin secrets \cup resuming
    BY <1>2, NoIntentAssumption DEF HoldSlot
  <2>2. /\ request'[b].pc \in {"held", "refused"}
        /\ \A c \in Bookings : c # b => request'[c] = request[c]
        /\ UNCHANGED <<secrets, resuming, payment>>
    BY <1>2 DEF HoldSlot, Step, Finish
  <2>3. CASE InsertHold(b)
    <3>1. /\ booking'[b].status = "pending_payment" /\ booking'[b].intent = NoIntent
          /\ \A c \in Bookings : c # b => booking'[c] = booking[c]
      BY <2>3, InsertHoldRows
    <3> QED
      BY <2>1, <2>2, <3>1
  <2>4. CASE UNCHANGED booking
    BY <2>2, <2>4
  <2> QED
    BY <1>2, <2>3, <2>4 DEF HoldSlot
<1>3. CASE CreatePayment(b)
  BY <1>3, NoIntentAssumption DEF CreatePayment, Step, Holding
<1>4. CASE CancelBooking(b)
  BY <1>4, CancelRows DEF CancelBooking, Finish
<1>5. CASE AttachPayment(b)
  <2>1. booking[b].status = "pending_payment"
    BY <1>5 DEF AttachPayment, Holding
  <2>2. CASE UNCHANGED booking
    BY <1>5, <2>2 DEF AttachPayment, Finish
  <2>3. CASE booking' = [booking EXCEPT ![b].intent = b]
    BY <1>5, <2>1, <2>3, AttachRows DEF AttachPayment, Finish
  <2> QED
    BY <1>5, <2>2, <2>3 DEF AttachPayment
<1>6. CASE ClientLeaves(b)
  BY <1>6 DEF ClientLeaves
<1>7. CASE CrashBook(b)
  BY <1>7 DEF CrashBook, Finish
<1> QED
  BY <1>1, <1>2, <1>3, <1>4, <1>5, <1>6, <1>7 DEF Book

\* And every other step.
LEMMA LinkedStep ==
    ASSUME TypeOK, Linked, Holding, Serial, [Next]_vars
    PROVE  Linked'
<1> USE DEF Linked, TypeOK, Row, vars, requestVars, gatewayVars, webhookVars
<1>1. CASE Tick \/ UNCHANGED vars
  BY <1>1 DEF Tick
<1>2. ASSUME NEW b \in Bookings, Resume(b)
      PROVE  Linked'
  BY <1>2, NoIntentAssumption DEF Resume, ReadForResume, ResumePayment
<1>3. ASSUME NEW b \in Bookings, Gateway(b)
      PROVE  Linked'
  BY <1>3 DEF Gateway, PayCard, DeclineCard, IgnoreEvent
<1>4. ASSUME NEW d \in Deliveries, CommitConfirm(d)
      PROVE  Linked'
  <2> DEFINE i == delivery[d].intent
  <2>1. i \in Bookings /\ booking[i].intent = i
    BY <1>4 DEF CommitConfirm, Serial
  <2>2. booking[i].status # "none"
    BY <2>1, NoIntentAssumption
  <2>3. request[i].pc \notin {"idle", "checked"}
    BY <2>1, <2>2
  <2> QED
    BY <1>4, <2>1, <2>2, <2>3, ConfirmRows DEF CommitConfirm
<1>5. ASSUME NEW d \in Deliveries,
             HandlePaymentEvent(d) \/ \E i \in Bookings : ReceiveEvent(d, i)
      PROVE  Linked'
  BY <1>4, <1>5 DEF HandlePaymentEvent, GetBookingByPayment, RecordStripeEvent,
     ConfirmBooking, AbandonDelivery, ReceiveEvent
<1>6. ASSUME NEW s \in Sweepers, Sweep(s)
      PROVE  Linked'
  <2>1. CASE ReleaseLapsedHolds(s)
    BY <2>1, ReleaseRows DEF ReleaseLapsedHolds
  <2> QED
    BY <1>6, <2>1 DEF Sweep, StartSweep, AbandonSweep
<1> QED
  BY <1>1, <1>2, <1>3, <1>5, <1>6, LinkedBook DEF Next

-----------------------------------------------------------------------------
(* The hold of a request under way.                                        *)

\* Steps of a booking request touch no row but its own, and leave its hold as
\* it was until the request is over.
LEMMA HoldingBook ==
    ASSUME TypeOK, Holding, Linked, NEW b \in Bookings, Book(b)
    PROVE  Holding'
<1>1. UNCHANGED <<now, sweep>>
  BY DEF Book, CheckSlot, HoldSlot, CreatePayment, CancelBooking, AttachPayment,
     ClientLeaves, CrashBook
<1>2. \A c \in Bookings : c # b => request'[c] = request[c] /\ booking'[c] = booking[c]
  BY DEF Book, CheckSlot, HoldSlot, CreatePayment, CancelBooking, AttachPayment,
     ClientLeaves, CrashBook, Step, Finish, InsertHold, TypeOK, webhookVars,
     requestVars, gatewayVars
<1>3. SUFFICES ASSUME request'[b].pc \in InFlight
               PROVE  /\ request'[b].start <= now
                      /\ request'[b].pc # "checked" =>
                            /\ booking'[b].status = "pending_payment"
                            /\ booking'[b].intent = NoIntent
                            /\ booking'[b].expires = request'[b].start + PaymentHold
                            /\ booking'[b].cancelled =>
                                  booking'[b].expires <= now + ClockSkew
  BY <1>1, <1>2 DEF Holding
<1> USE DEF TypeOK, Request, InFlight
<1>4. CASE CheckSlot(b)
  BY <1>4 DEF CheckSlot
<1>5. CASE HoldSlot(b)
  <2>1. Step(b, "held") /\ InsertHold(b)
    BY <1>3, <1>5 DEF HoldSlot, Finish
  <2>2. request'[b].start = request[b].start
    BY <2>1 DEF Step
  <2> QED
    BY <1>5, <2>1, <2>2, InsertHoldRows DEF HoldSlot, Holding
<1>6. CASE CreatePayment(b)
  <2>1. /\ request'[b].start = request[b].start
        /\ UNCHANGED booking
        /\ request[b].pc = "held"
    BY <1>6 DEF CreatePayment, Step
  <2> QED
    BY <2>1 DEF Holding
<1>7. CASE CancelBooking(b) \/ AttachPayment(b) \/ CrashBook(b)
  BY <1>3, <1>7 DEF CancelBooking, AttachPayment, CrashBook, Finish
<1>8. CASE ClientLeaves(b)
  <2>1. /\ request'[b].start = request[b].start
        /\ request'[b].pc = request[b].pc
        /\ UNCHANGED booking
    BY <1>8 DEF ClientLeaves
  <2> QED
    BY <1>3, <2>1 DEF Holding
<1> QED
  BY <1>4, <1>5, <1>6, <1>7, <1>8 DEF Book

\* No confirmation reaches such a row, for it carries no intent, and a sweep
\* reaches it only once its hold has run out.
LEMMA HoldingStep ==
    ASSUME TypeOK, Holding, Linked, Serial, [Next]_vars
    PROVE  Holding'
<1> USE DEF vars, requestVars, gatewayVars, webhookVars
<1>1. CASE Tick
  BY <1>1, TimeAssumption DEF Tick, Holding, TypeOK, Request, Row, Times, InFlight, Never
<1>2. CASE UNCHANGED vars
  BY <1>2 DEF Holding
<1>3. ASSUME NEW b \in Bookings, Resume(b) \/ Gateway(b)
      PROVE  Holding'
  BY <1>3 DEF Resume, ReadForResume, ResumePayment, Gateway, PayCard, DeclineCard,
     IgnoreEvent, Holding
<1>4. ASSUME NEW d \in Deliveries, CommitConfirm(d)
      PROVE  Holding'
  <2> DEFINE i == delivery[d].intent
  <2>1. i \in Bookings /\ booking[i].intent = i
    BY <1>4 DEF CommitConfirm, Serial
  <2>2. \A c \in Bookings : c # i => booking'[c] = booking[c]
    BY <1>4, <2>1, ConfirmRows DEF CommitConfirm
  <2>3. request[i].pc \in InFlight => request[i].pc = "checked"
    BY <2>1, NoIntentAssumption DEF Holding
  <2> QED
    BY <1>4, <2>1, <2>2, <2>3 DEF CommitConfirm, Holding
<1>5. ASSUME NEW d \in Deliveries,
             HandlePaymentEvent(d) \/ \E i \in Bookings : ReceiveEvent(d, i)
      PROVE  Holding'
  BY <1>4, <1>5 DEF HandlePaymentEvent, GetBookingByPayment, RecordStripeEvent,
     ConfirmBooking, AbandonDelivery, ReceiveEvent, Holding
<1>6. ASSUME NEW s \in Sweepers, Sweep(s)
      PROVE  Holding'
  <2>1. CASE StartSweep(s)
    BY <2>1, TimeAssumption DEF StartSweep, Holding, TypeOK
  <2>2. CASE ReleaseLapsedHolds(s)
    <3>1. /\ UNCHANGED <<now, request>>
          /\ sweep' = [sweep EXCEPT ![s] = Never]
      BY <2>2 DEF ReleaseLapsedHolds
    <3>2. \A t \in Sweepers : sweep'[t] <= now + ClockSkew
      BY <3>1, TimeAssumption DEF Holding, TypeOK, Never, Times
    <3>3. ASSUME NEW c \in LapsedHolds(sweep[s])
          PROVE  booking[c].expires <= now + ClockSkew
      <4>1. booking[c].expires <= sweep[s]
        BY <3>3 DEF LapsedHolds, HoldHasLapsed
      <4>2. /\ booking[c].expires \in Int /\ sweep[s] \in Int
            /\ now + ClockSkew \in Int
        BY <3>3, TimeAssumption DEF LapsedHolds, TypeOK, Row, Times, Never
      <4> QED
        BY <4>1, <4>2 DEF Holding
    <3>4. \A c \in Bookings :
            /\ booking'[c].status = booking[c].status
            /\ booking'[c].expires = booking[c].expires
            /\ booking'[c].intent = booking[c].intent
            /\ booking'[c].cancelled => booking[c].cancelled \/ c \in LapsedHolds(sweep[s])
      BY <2>2, ReleaseRows
    <3> QED
      BY <3>1, <3>2, <3>3, <3>4 DEF Holding
  <2>3. CASE AbandonSweep(s)
    BY <2>3, TimeAssumption DEF AbandonSweep, Holding, TypeOK, Never, Times
  <2> QED
    BY <1>6, <2>1, <2>2, <2>3 DEF Sweep
<1> QED
  BY <1>1, <1>2, <1>3, <1>5, <1>6, HoldingBook DEF Next

-----------------------------------------------------------------------------
(* Deliveries.                                                             *)

\* A row keeps the intent it carries through every step.
LEMMA IntentKept ==
    ASSUME TypeOK, Linked, Holding, Serial, [Next]_vars,
           NEW i \in Bookings, booking[i].intent = i
    PROVE  booking'[i].intent = i
<1> USE DEF vars, requestVars, gatewayVars, webhookVars
<1>1. ASSUME NEW b \in Bookings, Book(b)
      PROVE  booking'[i].intent = i
  <2>1. CASE HoldSlot(b)
    <3>1. booking[b].intent = NoIntent
      BY <2>1 DEF HoldSlot, Linked
    <3> QED
      BY <2>1, <3>1, InsertHoldRows, NoIntentAssumption DEF HoldSlot
  <2>2. CASE CancelBooking(b)
    BY <2>2, CancelRows DEF CancelBooking
  <2>3. CASE AttachPayment(b)
    BY <2>3, AttachRows DEF AttachPayment
  <2> QED
    BY <1>1, <2>1, <2>2, <2>3 DEF Book, CheckSlot, CreatePayment, ClientLeaves, CrashBook
<1>2. ASSUME NEW d \in Deliveries, CommitConfirm(d)
      PROVE  booking'[i].intent = i
  <2>1. /\ delivery[d].intent \in Bookings
        /\ booking[delivery[d].intent].intent = delivery[d].intent
    BY <1>2 DEF CommitConfirm, Serial
  <2> QED
    BY <1>2, <2>1, ConfirmRows DEF CommitConfirm
<1>3. ASSUME NEW s \in Sweepers, ReleaseLapsedHolds(s)
      PROVE  booking'[i].intent = i
  BY <1>3, ReleaseRows
<1> QED
  BY <1>1, <1>2, <1>3 DEF Next, Tick, Resume, ReadForResume, ResumePayment, Gateway,
     PayCard, DeclineCard, IgnoreEvent, ReceiveEvent, HandlePaymentEvent,
     GetBookingByPayment, RecordStripeEvent, ConfirmBooking, AbandonDelivery,
     Sweep, StartSweep, AbandonSweep

\* The event lock keeps two transactions from inserting one event, and the
\* table's key keeps an inserted event from being inserted again.
LEMMA SerialStep ==
    ASSUME TypeOK, Linked, Holding, Serial, [Next]_vars
    PROVE  Serial'
<1> USE DEF vars, requestVars, gatewayVars, webhookVars
<1>1. ASSUME UNCHANGED <<delivery, stripeEvents>>
      PROVE  Serial'
  BY <1>1, IntentKept DEF Serial
<1>2. ASSUME NEW d \in Deliveries, NEW i \in Bookings, ReceiveEvent(d, i)
      PROVE  Serial'
  <2>1. booking[i].intent = i
    BY <1>2 DEF ReceiveEvent, Linked
  <2>2. /\ delivery'[d] = [pc |-> "received", intent |-> i]
        /\ \A e \in Deliveries : e # d => delivery'[e] = delivery[e]
        /\ UNCHANGED <<booking, stripeEvents>>
    BY <1>2 DEF ReceiveEvent, TypeOK
  <2> QED
    BY <2>1, <2>2 DEF Serial
<1>3. ASSUME NEW d \in Deliveries, EndDelivery(d), UNCHANGED stripeEvents
      PROVE  Serial'
  <2>1. /\ delivery'[d].pc = "idle"
        /\ \A e \in Deliveries : e # d => delivery'[e] = delivery[e]
    BY <1>3 DEF EndDelivery, IdleDelivery, TypeOK
  <2> QED
    BY <1>3, <2>1, IntentKept DEF Serial
<1>4. ASSUME NEW d \in Deliveries, GetBookingByPayment(d)
      PROVE  Serial'
  <2>1. CASE delivery' = [delivery EXCEPT ![d].pc = "found"]
    <3>1. /\ delivery'[d].pc = "found"
          /\ delivery'[d].intent = delivery[d].intent
          /\ \A e \in Deliveries : e # d => delivery'[e] = delivery[e]
          /\ UNCHANGED <<booking, stripeEvents>>
          /\ delivery[d].pc = "received"
      BY <1>4, <2>1 DEF GetBookingByPayment, TypeOK, Delivery
    <3> QED
      BY <3>1 DEF Serial
  <2> QED
    BY <1>3, <1>4, <2>1 DEF GetBookingByPayment
<1>5. ASSUME NEW d \in Deliveries, RecordStripeEvent(d)
      PROVE  Serial'
  <2>1. CASE /\ delivery[d].intent \notin stripeEvents
             /\ delivery' = [delivery EXCEPT ![d].pc = "recorded"]
    <3>1. /\ delivery'[d].pc = "recorded"
          /\ delivery'[d].intent = delivery[d].intent
          /\ \A e \in Deliveries : e # d => delivery'[e] = delivery[e]
          /\ UNCHANGED <<booking, stripeEvents>>
          /\ delivery[d].pc = "found"
      BY <1>5, <2>1 DEF RecordStripeEvent, TypeOK, Delivery
    <3>2. \A e \in Deliveries :
            delivery[e].intent = delivery[d].intent
                => delivery[e].pc \notin {"recorded", "updated"}
      BY <1>5 DEF RecordStripeEvent, EventLocked
    <3> QED
      BY <2>1, <3>1, <3>2 DEF Serial
  <2> QED
    BY <1>3, <1>5, <2>1 DEF RecordStripeEvent
<1>6. ASSUME NEW d \in Deliveries, ConfirmBooking(d)
      PROVE  Serial'
  <2>1. /\ delivery'[d].pc = "updated"
        /\ delivery'[d].intent = delivery[d].intent
        /\ \A e \in Deliveries : e # d => delivery'[e] = delivery[e]
        /\ UNCHANGED <<booking, stripeEvents>>
        /\ delivery[d].pc = "recorded"
    BY <1>6 DEF ConfirmBooking, TypeOK, Delivery
  <2> QED
    BY <2>1 DEF Serial
<1>7. ASSUME NEW d \in Deliveries, CommitConfirm(d)
      PROVE  Serial'
  <2>1. /\ delivery'[d].pc = "idle"
        /\ \A e \in Deliveries : e # d => delivery'[e] = delivery[e]
        /\ stripeEvents' = stripeEvents \cup {delivery[d].intent}
        /\ delivery[d].pc = "updated"
    BY <1>7 DEF CommitConfirm, EndDelivery, IdleDelivery, TypeOK
  <2> QED
    BY <2>1, IntentKept DEF Serial
<1>8. ASSUME NEW d \in Deliveries, HandlePaymentEvent(d)
      PROVE  Serial'
  BY <1>3, <1>4, <1>5, <1>6, <1>7, <1>8 DEF HandlePaymentEvent, AbandonDelivery
<1>9. ASSUME NEW b \in Bookings, Book(b) \/ Resume(b) \/ Gateway(b)
      PROVE  Serial'
  BY <1>1, <1>9 DEF Book, CheckSlot, HoldSlot, CreatePayment, CancelBooking,
     AttachPayment, ClientLeaves, CrashBook, Resume, ReadForResume, ResumePayment,
     Gateway, PayCard, DeclineCard, IgnoreEvent
<1>10. ASSUME NEW s \in Sweepers, Sweep(s)
       PROVE  Serial'
  BY <1>1, <1>10 DEF Sweep, StartSweep, ReleaseLapsedHolds, AbandonSweep
<1>11. CASE Tick \/ UNCHANGED vars
  BY <1>1, <1>11 DEF Tick
<1> QED
  BY <1>2, <1>8, <1>9, <1>10, <1>11 DEF Next

-----------------------------------------------------------------------------
(* What the steps do to a row, seen from any row.                          *)

\* A step confirms a row only by committing a delivery of its intent, and
\* makes it stand only by inserting it into a free slot.
LEMMA RowStep ==
    ASSUME TypeOK, Linked, Holding, Serial, [Next]_vars, NEW b \in Bookings
    PROVE  \/ /\ booking'[b].status = booking[b].status
              /\ booking[b].cancelled => booking'[b].cancelled
           \/ /\ HoldSlot(b) /\ InsertHold(b)
           \/ \E d \in Deliveries : CommitConfirm(d) /\ delivery[d].intent = b
<1> DEFINE Kept == /\ booking'[b].status = booking[b].status
                   /\ booking[b].cancelled => booking'[b].cancelled
<1> USE DEF vars, requestVars, gatewayVars, webhookVars
<1>1. ASSUME NEW c \in Bookings, Book(c)
      PROVE  Kept \/ (HoldSlot(b) /\ InsertHold(b))
  <2>1. CASE UNCHANGED booking
    BY <2>1
  <2>2. CASE HoldSlot(c) /\ InsertHold(c)
    <3>1. b # c => booking'[b] = booking[b]
      BY <2>2, InsertHoldRows
    <3> QED
      BY <2>2, <3>1
  <2>3. CASE booking' = [booking EXCEPT ![c].cancelled = TRUE]
    <3>1. b # c => booking'[b] = booking[b]
      BY <2>3, CancelRows
    <3>2. b = c => booking'[b].status = booking[b].status /\ booking'[b].cancelled
      BY <2>3, CancelRows
    <3> QED
      BY <3>1, <3>2
  <2>4. CASE booking' = [booking EXCEPT ![c].intent = c]
    <3>1. b # c => booking'[b] = booking[b]
      BY <2>4, AttachRows
    <3>2. b = c => /\ booking'[b].status = booking[b].status
                   /\ booking'[b].cancelled = booking[b].cancelled
      BY <2>4, AttachRows
    <3> QED
      BY <3>1, <3>2
  <2>5. \/ UNCHANGED booking
        \/ HoldSlot(c) /\ InsertHold(c)
        \/ booking' = [booking EXCEPT ![c].cancelled = TRUE]
        \/ booking' = [booking EXCEPT ![c].intent = c]
    BY <1>1 DEF Book, CheckSlot, HoldSlot, CreatePayment, CancelBooking, AttachPayment,
       ClientLeaves, CrashBook
  <2> QED
    BY <2>1, <2>2, <2>3, <2>4, <2>5
<1>2. ASSUME NEW d \in Deliveries, CommitConfirm(d)
      PROVE  Kept \/ delivery[d].intent = b
  <2>1. /\ delivery[d].intent \in Bookings
        /\ booking[delivery[d].intent].intent = delivery[d].intent
    BY <1>2 DEF CommitConfirm, Serial
  <2> QED
    BY <1>2, <2>1, ConfirmRows DEF CommitConfirm
<1>3. ASSUME NEW s \in Sweepers, ReleaseLapsedHolds(s)
      PROVE  Kept
  BY <1>3, ReleaseRows
<1> QED
  BY <1>1, <1>2, <1>3 DEF Next, Tick, Resume, ReadForResume, ResumePayment, Gateway,
     PayCard, DeclineCard, IgnoreEvent, ReceiveEvent, HandlePaymentEvent,
     GetBookingByPayment, RecordStripeEvent, ConfirmBooking, AbandonDelivery,
     Sweep, StartSweep, AbandonSweep

\* A commit, seen from the row it confirms and from every other.
LEMMA CommitRows ==
    ASSUME TypeOK, Linked, Serial, NEW d \in Deliveries, CommitConfirm(d)
    PROVE  /\ delivery[d].intent \in Bookings
           /\ booking'[delivery[d].intent].status = "confirmed"
           /\ booking'[delivery[d].intent].cancelled = booking[delivery[d].intent].cancelled
           /\ booking[delivery[d].intent].status # "none"
           /\ \A c \in Bookings : c # delivery[d].intent => booking'[c] = booking[c]
           /\ stripeEvents' = stripeEvents \cup {delivery[d].intent}
<1>1. /\ delivery[d].intent \in Bookings
      /\ booking[delivery[d].intent].intent = delivery[d].intent
  BY DEF CommitConfirm, Serial
<1>2. booking[delivery[d].intent].status # "none"
  BY <1>1, NoIntentAssumption DEF Linked
<1> QED
  BY <1>1, <1>2, ConfirmRows DEF CommitConfirm

\* Only a commit writes stripe_events.
LEMMA EventsStep ==
    ASSUME [Next]_vars
    PROVE  \/ UNCHANGED stripeEvents
           \/ \E d \in Deliveries : CommitConfirm(d)
BY DEF Next, Tick, Book, CheckSlot, HoldSlot, CreatePayment, CancelBooking,
   AttachPayment, ClientLeaves, CrashBook, Resume, ReadForResume, ResumePayment,
   Gateway, PayCard, DeclineCard, IgnoreEvent, ReceiveEvent, HandlePaymentEvent,
   GetBookingByPayment, RecordStripeEvent, ConfirmBooking, AbandonDelivery,
   Sweep, StartSweep, ReleaseLapsedHolds, AbandonSweep, vars, requestVars,
   gatewayVars, webhookVars

\* The two tables go on agreeing.
LEMMA SettledStep ==
    ASSUME TypeOK, Linked, Holding, Serial, Settled, [Next]_vars
    PROVE  Settled'
<1>1. ASSUME NEW d \in Deliveries, CommitConfirm(d)
      PROVE  Settled'
  <2>1. booking[delivery[d].intent].intent = delivery[d].intent
    BY <1>1 DEF CommitConfirm, Serial
  <2> QED
    BY <1>1, <2>1, CommitRows, IntentKept DEF Settled
<1>2. ASSUME ~\E d \in Deliveries : CommitConfirm(d), NEW b \in Bookings
      PROVE  /\ b \in stripeEvents' <=> booking'[b].status = "confirmed"
             /\ booking'[b].status = "confirmed" => booking'[b].intent = b
  <2>1. UNCHANGED stripeEvents
    BY <1>2, EventsStep
  <2>2. CASE booking'[b].status = booking[b].status
    BY <2>1, <2>2, IntentKept DEF Settled
  <2>3. CASE HoldSlot(b) /\ InsertHold(b)
    <3>1. b \notin stripeEvents
      BY <2>3 DEF HoldSlot, Linked, Settled
    <3> QED
      BY <2>1, <2>3, <3>1, InsertHoldRows
  <2> QED
    BY <1>2, <2>2, <2>3, RowStep
<1> QED
  BY <1>1, <1>2 DEF Settled

\* Only an insert makes a row stand, and it finds its slot free.
LEMMA OneHoldStep ==
    ASSUME TypeOK, Linked, Holding, Serial, OneHoldPerSlot, [Next]_vars
    PROVE  OneHoldPerSlot'
<1>1. ASSUME NEW b \in Bookings, HoldSlot(b), InsertHold(b)
      PROVE  OneHoldPerSlot'
  <2>1. CASE ~SlotTaken(SlotOf[b])
    <3>1. \A c \in Bookings : c # b => booking'[c] = booking[c]
      BY <1>1, InsertHoldRows
    <3>2. \A c \in Bookings : SlotOf[c] = SlotOf[b] => ~StillHolding(c)
      BY <2>1 DEF SlotTaken
    <3> QED
      BY <3>1, <3>2 DEF OneHoldPerSlot, StillHolding
  <2>2. CASE UNCHANGED booking
    BY <2>2 DEF OneHoldPerSlot, StillHolding
  <2> QED
    BY <1>1, <2>1, <2>2 DEF HoldSlot
<1>2. ASSUME ~\E b \in Bookings : HoldSlot(b) /\ InsertHold(b), NEW b \in Bookings
      PROVE  StillHolding(b)' => StillHolding(b)
  <2>1. CASE /\ booking'[b].status = booking[b].status
             /\ booking[b].cancelled => booking'[b].cancelled
    BY <2>1 DEF StillHolding
  <2>2. ASSUME NEW d \in Deliveries, CommitConfirm(d), delivery[d].intent = b
        PROVE  StillHolding(b)' => StillHolding(b)
    BY <2>2, CommitRows DEF StillHolding
  <2> QED
    BY <1>2, <2>1, <2>2, RowStep
<1> QED
  BY <1>1, <1>2 DEF OneHoldPerSlot

\* An event is answered 204 only with its person told or its record there.
LEMMA AckedStep ==
    ASSUME TypeOK, Linked, Holding, Serial, AckedIsSettled, [Next]_vars
    PROVE  AckedIsSettled'
<1> USE DEF AckedIsSettled, vars, requestVars, gatewayVars, webhookVars
<1>1. ASSUME NEW d \in Deliveries, HandlePaymentEvent(d)
      PROVE  AckedIsSettled'
  BY <1>1 DEF HandlePaymentEvent, GetBookingByPayment, RecordStripeEvent,
     ConfirmBooking, CommitConfirm, AbandonDelivery
<1>2. CASE UNCHANGED <<acked, reported, stripeEvents>>
  BY <1>2
<1> QED
  BY <1>1, <1>2 DEF Next, Tick, Book, CheckSlot, HoldSlot, CreatePayment, CancelBooking,
     AttachPayment, ClientLeaves, CrashBook, Resume, ReadForResume, ResumePayment,
     Gateway, PayCard, DeclineCard, IgnoreEvent, ReceiveEvent, Sweep, StartSweep,
     ReleaseLapsedHolds, AbandonSweep

\* A request reads the clock once, before there is a row.
LEMMA StartStep ==
    ASSUME TypeOK, [Next]_vars, NEW b \in Bookings, ~CheckSlot(b)
    PROVE  request'[b].start = request[b].start
<1> USE DEF vars, requestVars, gatewayVars, webhookVars
<1>1. ASSUME NEW c \in Bookings, Book(c)
      PROVE  request'[b].start = request[b].start
  <2>1. CASE CheckSlot(c)
    <3>1. b # c
      BY <2>1
    <3> QED
      BY <2>1, <3>1 DEF CheckSlot, TypeOK
  <2>2. ASSUME NEW pc, Step(c, pc) \/ Finish(c, pc)
        PROVE  request'[b].start = request[b].start
    BY <2>2 DEF Step, Finish, TypeOK, Request
  <2>3. CASE ClientLeaves(c)
    BY <2>3 DEF ClientLeaves, TypeOK, Request
  <2> QED
    BY <1>1, <2>1, <2>2, <2>3 DEF Book, HoldSlot, CreatePayment, CancelBooking,
       AttachPayment, CrashBook
<1> QED
  BY <1>1 DEF Next, Tick, Resume, ReadForResume, ResumePayment, Gateway, PayCard,
     DeclineCard, IgnoreEvent, ReceiveEvent, HandlePaymentEvent, GetBookingByPayment,
     RecordStripeEvent, ConfirmBooking, CommitConfirm, AbandonDelivery, Sweep,
     StartSweep, ReleaseLapsedHolds, AbandonSweep

\* A row's own hold_expires_at is only ever cleared.
LEMMA ExpiresStep ==
    ASSUME TypeOK, Linked, Holding, Serial, [Next]_vars, NEW b \in Bookings
    PROVE  \/ HoldSlot(b) /\ InsertHold(b)
           \/ UNCHANGED <<booking[b].status, booking[b].expires>>
           \/ booking'[b].status = "confirmed" /\ booking'[b].expires = Never
<1> USE DEF vars, requestVars, gatewayVars, webhookVars
<1>1. ASSUME NEW c \in Bookings, Book(c)
      PROVE  \/ HoldSlot(b) /\ InsertHold(b)
             \/ UNCHANGED <<booking[b].status, booking[b].expires>>
  <2>1. CASE HoldSlot(c) /\ InsertHold(c)
    <3>1. b # c => booking'[b] = booking[b]
      BY <2>1, InsertHoldRows
    <3> QED
      BY <2>1, <3>1
  <2>2. CASE booking' = [booking EXCEPT ![c].cancelled = TRUE]
    BY <2>2, CancelRows
  <2>3. CASE booking' = [booking EXCEPT ![c].intent = c]
    BY <2>3, AttachRows
  <2> QED
    BY <1>1, <2>1, <2>2, <2>3 DEF Book, CheckSlot, HoldSlot, CreatePayment,
       CancelBooking, AttachPayment, ClientLeaves, CrashBook
<1>2. ASSUME NEW d \in Deliveries, CommitConfirm(d)
      PROVE  \/ UNCHANGED <<booking[b].status, booking[b].expires>>
             \/ booking'[b].status = "confirmed" /\ booking'[b].expires = Never
  <2>1. /\ delivery[d].intent \in Bookings
        /\ booking[delivery[d].intent].intent = delivery[d].intent
    BY <1>2 DEF CommitConfirm, Serial
  <2> QED
    BY <1>2, <2>1, ConfirmRows DEF CommitConfirm
<1>3. ASSUME NEW s \in Sweepers, ReleaseLapsedHolds(s)
      PROVE  UNCHANGED <<booking[b].status, booking[b].expires>>
  BY <1>3, ReleaseRows
<1> QED
  BY <1>1, <1>2, <1>3 DEF Next, Tick, Resume, ReadForResume, ResumePayment, Gateway,
     PayCard, DeclineCard, IgnoreEvent, ReceiveEvent, HandlePaymentEvent,
     GetBookingByPayment, RecordStripeEvent, ConfirmBooking, AbandonDelivery,
     Sweep, StartSweep, AbandonSweep

\* So holds go on being counted from there.
LEMMA DatedStep ==
    ASSUME TypeOK, Linked, Holding, Serial, Dated, [Next]_vars
    PROVE  Dated'
<1> SUFFICES ASSUME NEW b \in Bookings
             PROVE  booking'[b].expires = IF booking'[b].status = "pending_payment"
                                          THEN request'[b].start + PaymentHold ELSE Never
  BY DEF Dated
<1>1. CASE HoldSlot(b) /\ InsertHold(b)
  <2>1. ~CheckSlot(b)
    BY <1>1 DEF HoldSlot, CheckSlot
  <2> QED
    BY <1>1, <2>1, StartStep, InsertHoldRows
<1>2. CASE UNCHANGED <<booking[b].status, booking[b].expires>>
  <2>1. booking[b].status = "pending_payment" => ~CheckSlot(b)
    BY DEF CheckSlot, Linked
  <2> QED
    BY <1>2, <2>1, StartStep DEF Dated
<1>3. CASE booking'[b].status = "confirmed" /\ booking'[b].expires = Never
  BY <1>3
<1> QED
  BY <1>1, <1>2, <1>3, ExpiresStep

\* No money is ever sent back, and an intent is opened once.
LEMMA PaidStep ==
    ASSUME TypeOK, Linked, Holding, [Next]_vars, NEW i \in Bookings,
           payment[i] = "paid"
    PROVE  payment'[i] = "paid"
<1> USE DEF vars, requestVars, gatewayVars, webhookVars
<1>1. ASSUME NEW b \in Bookings, CreatePayment(b)
      PROVE  payment'[i] = "paid"
  <2>1. payment[b] # "paid"
    BY <1>1, NoIntentAssumption DEF CreatePayment, Linked, Holding, InFlight
  <2> QED
    BY <1>1, <2>1 DEF CreatePayment, TypeOK
<1>2. ASSUME NEW b \in Bookings, PayCard(b)
      PROVE  payment'[i] = "paid"
  BY <1>2 DEF PayCard, TypeOK
<1> QED
  BY <1>1, <1>2 DEF Next, Tick, Book, CheckSlot, HoldSlot, CancelBooking, AttachPayment,
     ClientLeaves, CrashBook, Resume, ReadForResume, ResumePayment, Gateway,
     DeclineCard, IgnoreEvent, ReceiveEvent, HandlePaymentEvent, GetBookingByPayment,
     RecordStripeEvent, ConfirmBooking, CommitConfirm, AbandonDelivery, Sweep,
     StartSweep, ReleaseLapsedHolds, AbandonSweep

\* So what a delivery is of stays paid.
LEMMA OwedStep ==
    ASSUME TypeOK, Linked, Holding, Serial, Owed, [Next]_vars
    PROVE  Owed'
<1> USE DEF vars, requestVars, gatewayVars, webhookVars
<1>1. ASSUME NEW d \in Deliveries, delivery'[d].pc # "idle",
             delivery[d].pc # "idle", delivery'[d].intent = delivery[d].intent
      PROVE  payment'[delivery'[d].intent] = "paid"
  BY <1>1, PaidStep DEF Owed, Serial
<1>2. ASSUME NEW d \in Deliveries, HandlePaymentEvent(d)
      PROVE  \A e \in Deliveries : delivery'[e].pc # "idle" =>
                delivery[e].pc # "idle" /\ delivery'[e].intent = delivery[e].intent
  <2>1. CASE EndDelivery(d)
    BY <2>1 DEF EndDelivery, IdleDelivery, TypeOK
  <2>2. ASSUME NEW pc, delivery' = [delivery EXCEPT ![d].pc = pc], delivery[d].pc # "idle"
        PROVE  \A e \in Deliveries : delivery'[e].pc # "idle" =>
                  delivery[e].pc # "idle" /\ delivery'[e].intent = delivery[e].intent
    BY <2>2 DEF TypeOK, Delivery
  <2> QED
    BY <1>2, <2>1, <2>2 DEF HandlePaymentEvent, GetBookingByPayment, RecordStripeEvent,
       ConfirmBooking, CommitConfirm, AbandonDelivery
<1>3. ASSUME NEW d \in Deliveries, NEW i \in Bookings, ReceiveEvent(d, i)
      PROVE  Owed'
  <2>1. /\ payment[i] = "paid" /\ UNCHANGED payment
        /\ delivery'[d].intent = i
        /\ \A e \in Deliveries : e # d => delivery'[e] = delivery[e]
    BY <1>3 DEF ReceiveEvent, TypeOK
  <2> QED
    BY <2>1 DEF Owed
<1>4. CASE UNCHANGED delivery
  BY <1>1, <1>4 DEF Owed
<1>5. ASSUME NEW d \in Deliveries, HandlePaymentEvent(d)
      PROVE  Owed'
  BY <1>1, <1>2, <1>5 DEF Owed
<1> QED
  BY <1>3, <1>4, <1>5 DEF Next, Tick, Book, CheckSlot, HoldSlot, CreatePayment,
     CancelBooking, AttachPayment, ClientLeaves, CrashBook, Resume, ReadForResume,
     ResumePayment, Gateway, PayCard, DeclineCard, IgnoreEvent, Sweep, StartSweep,
     ReleaseLapsedHolds, AbandonSweep

\* Only reading a booking that lost its slot has it reported.
LEMMA ReportStep ==
    ASSUME [Next]_vars, NEW i \in Bookings, i \notin reported, i \in reported'
    PROVE  \E d \in Deliveries : /\ GetBookingByPayment(d) /\ delivery[d].intent = i
                                 /\ Holder(i) = {}
BY DEF Next, Tick, Book, CheckSlot, HoldSlot, CreatePayment, CancelBooking,
   AttachPayment, ClientLeaves, CrashBook, Resume, ReadForResume, ResumePayment,
   Gateway, PayCard, DeclineCard, IgnoreEvent, ReceiveEvent, HandlePaymentEvent,
   GetBookingByPayment, RecordStripeEvent, ConfirmBooking, CommitConfirm,
   AbandonDelivery, Sweep, StartSweep, ReleaseLapsedHolds, AbandonSweep, vars,
   requestVars, gatewayVars, webhookVars

\* A refund that is due stays due.
LEMMA RefundedStep ==
    ASSUME TypeOK, Linked, Holding, Serial, Refunded, [Next]_vars
    PROVE  Refunded'
<1> SUFFICES ASSUME NEW i \in Bookings, i \in reported'
             PROVE  booking'[i].intent = i /\ booking'[i].cancelled
  BY TypeStep DEF Refunded, TypeOK
<1>1. CASE i \in reported
  <2>1. booking[i].intent = i /\ booking[i].cancelled /\ booking[i].status # "none"
    BY <1>1, NoIntentAssumption DEF Refunded, Linked
  <2>2. ~HoldSlot(i)
    BY <2>1 DEF HoldSlot, Linked
  <2>3. booking'[i].cancelled
    BY <2>1, <2>2, RowStep, CommitRows
  <2> QED
    BY <2>1, <2>3, IntentKept
<1>2. CASE i \notin reported
  <2>1. PICK d \in Deliveries : /\ GetBookingByPayment(d) /\ delivery[d].intent = i
                               /\ Holder(i) = {}
    BY <1>2, ReportStep
  <2>2. booking[i].intent = i /\ booking[i].status # "none" /\ UNCHANGED booking
    BY <2>1, NoIntentAssumption DEF GetBookingByPayment, Serial, Linked
  <2> QED
    BY <2>1, <2>2 DEF Holder, StillHolding, TypeOK, Row
<1> QED
  BY <1>1, <1>2

-----------------------------------------------------------------------------
(* Giving a slot back.                                                     *)

\* Only two statements cancel a row: Book's own undo and a sweep.
LEMMA CancelStep ==
    ASSUME TypeOK, Linked, Holding, Serial, [Next]_vars,
           NEW b \in Bookings, StillHolding(b), ~StillHolding(b)'
    PROVE  \/ CancelBooking(b)
           \/ \E s \in Sweepers : ReleaseLapsedHolds(s) /\ b \in LapsedHolds(sweep[s])
<1> USE DEF vars, requestVars, gatewayVars, webhookVars
<1>1. booking'[b] # booking[b]
  BY DEF StillHolding
<1>2. ASSUME NEW c \in Bookings, Book(c)
      PROVE  CancelBooking(b)
  <2>1. CASE InsertHold(c)
    <3>1. b # c => booking'[b] = booking[b]
      BY <2>1, InsertHoldRows
    <3>2. b = c => StillHolding(b)'
      BY <2>1, InsertHoldRows DEF StillHolding
    <3> QED
      BY <1>1, <3>1, <3>2
  <2>2. CASE CancelBooking(c)
    <3>1. b # c => booking'[b] = booking[b]
      BY <2>2, CancelRows DEF CancelBooking
    <3> QED
      BY <1>1, <2>2, <3>1
  <2>3. CASE booking' = [booking EXCEPT ![c].intent = c]
    <3>1. b # c => booking'[b] = booking[b]
      BY <2>3, AttachRows
    <3>2. b = c => StillHolding(b)'
      BY <2>3, AttachRows DEF StillHolding
    <3> QED
      BY <1>1, <3>1, <3>2
  <2> QED
    BY <1>1, <1>2, <2>1, <2>2, <2>3 DEF Book, CheckSlot, HoldSlot, CreatePayment,
       AttachPayment, ClientLeaves, CrashBook
<1>3. ASSUME NEW d \in Deliveries, CommitConfirm(d)
      PROVE  FALSE
  <2>1. delivery[d].intent = b
    BY <1>1, <1>3, CommitRows
  <2> QED
    BY <1>3, <2>1, CommitRows DEF StillHolding
<1>4. ASSUME NEW s \in Sweepers, ReleaseLapsedHolds(s)
      PROVE  b \in LapsedHolds(sweep[s])
  BY <1>4, ReleaseRows DEF StillHolding
<1> QED
  BY <1>1, <1>2, <1>3, <1>4 DEF Next, Tick, Resume, ReadForResume, ResumePayment,
     Gateway, PayCard, DeclineCard, IgnoreEvent, ReceiveEvent, HandlePaymentEvent,
     GetBookingByPayment, RecordStripeEvent, ConfirmBooking, AbandonDelivery,
     Sweep, StartSweep, AbandonSweep

-----------------------------------------------------------------------------
(* The theorems.                                                           *)

\* All of it holds at the start.
LEMMA InvInit == Init => Inv
BY TypeInit, TimeAssumption DEF Init, Inv, Linked, Holding, Serial, Settled,
   OneHoldPerSlot, AckedIsSettled, Dated, Owed, Refunded, StillHolding, NoRow, IdleDelivery,
   InFlight, Never

\* Every step keeps it.
LEMMA InvStep == Inv /\ [Next]_vars => Inv'
BY TypeStep, LinkedStep, HoldingStep, SerialStep, SettledStep, OneHoldStep, AckedStep,
   DatedStep, OwedStep, RefundedStep DEF Inv

\* The inductive invariant holds throughout.
THEOREM Invariance == Spec => []Inv
BY InvInit, InvStep, PTL DEF Spec

\* Every variable of the booking flow keeps its type.
THEOREM TypeCorrect == Spec => []TypeOK
<1>1. Inv => TypeOK
  BY DEF Inv
<1> QED
  BY <1>1, Invariance, PTL

\* However requests, payments, deliveries, sweeps and faults interleave, two
\* bookings never hold one slot.
THEOREM SlotHeldOnce == Spec => []OneHoldPerSlot
<1>1. Inv => OneHoldPerSlot
  BY DEF Inv
<1> QED
  BY <1>1, Invariance, PTL

\* stripe_events and the confirmed rows always agree.
THEOREM EventsMatchBookings == Spec => []RecordedIffConfirmed
<1>1. Inv => RecordedIffConfirmed
  BY NoIntentAssumption DEF Inv, RecordedIffConfirmed, Settled, Linked
<1> QED
  BY <1>1, Invariance, PTL

\* Every payment that can come in belongs to a row that carries its intent.
THEOREM PaymentsArePlaced == Spec => []PaidIsPlaced
<1>1. Inv => PaidIsPlaced
  BY DEF Inv, PaidIsPlaced, Linked
<1> QED
  BY <1>1, Invariance, PTL

\* No payment is acknowledged without being confirmed or reported.
THEOREM AcksAreSettled == Spec => []AckedIsSettled
<1>1. Inv => AckedIsSettled
  BY DEF Inv
<1> QED
  BY <1>1, Invariance, PTL

\* No payment a person is told of is for a slot that is still the player's: what
\* was reported has lost its slot for good, so an event that comes again for a
\* booking that stands is never reported.
THEOREM RefundsAreAllDue == Spec => []RefundsAreDue
<1>1. Inv => RefundsAreDue
  BY NoIntentAssumption DEF Inv, RefundsAreDue, Refunded, Linked, StillHolding, TypeOK
<1> QED
  BY <1>1, Invariance, PTL

\* Nothing gives back, before its hold runs out, a slot whose payment secret
\* went out: the undo never runs for it, and a sweep reads the hold itself.
THEOREM NeverReleasedEarly == Spec => NoEarlyRelease
<1>1. ASSUME Inv, [Next]_vars, NEW b \in secrets, StillHolding(b), ~StillHolding(b)'
      PROVE  HoldHasLapsed(b, now + ClockSkew)
  <2>1. b \in Bookings /\ booking[b].intent = b
    BY <1>1 DEF Inv, TypeOK, Linked
  <2>2. ~CancelBooking(b)
    BY <1>1, <2>1, NoIntentAssumption DEF Inv, Holding, CancelBooking, InFlight
  <2>3. PICK s \in Sweepers : b \in LapsedHolds(sweep[s])
    BY <1>1, <2>1, <2>2, CancelStep DEF Inv
  <2>4. HoldHasLapsed(b, sweep[s])
    BY <2>3 DEF LapsedHolds
  <2>5. sweep[s] <= now + ClockSkew
    BY <1>1 DEF Inv, Holding
  <2>6. /\ sweep[s] \in Int /\ now + ClockSkew \in Int
        /\ booking[b].expires \in Int
    BY <1>1, <2>1, TimeAssumption DEF Inv, TypeOK, Row, Times, Never
  <2> QED
    BY <2>4, <2>5, <2>6 DEF HoldHasLapsed
<1>2. Inv /\ [Next]_vars =>
        [\A b \in secrets :
            StillHolding(b) /\ ~StillHolding(b)' => HoldHasLapsed(b, now + ClockSkew)]_vars
  BY <1>1
<1> QED
  BY <1>2, Invariance, PTL DEF Spec, NoEarlyRelease

\* A slot that is paid for and standing is never lost again.
THEOREM ConfirmedIsForGood == Spec => ConfirmedStays
<1>1. ASSUME Inv, [Next]_vars, NEW b \in Bookings, StillHolding(b),
             booking[b].status = "confirmed"
      PROVE  booking'[b].status = "confirmed" /\ ~booking'[b].cancelled
  <2>1. ~CancelBooking(b)
    BY <1>1 DEF Inv, Holding, CancelBooking, InFlight
  <2>2. \A s \in Sweepers : b \notin LapsedHolds(sweep[s])
    BY <1>1 DEF LapsedHolds, HoldHasLapsed
  <2>3. StillHolding(b)'
    BY <1>1, <2>1, <2>2, CancelStep DEF Inv
  <2>4. ~HoldSlot(b)
    BY <1>1 DEF Inv, Linked, HoldSlot
  <2>5. booking'[b].status = "confirmed"
    BY <1>1, <2>4, RowStep, CommitRows DEF Inv
  <2> QED
    BY <2>3, <2>5 DEF StillHolding
<1>2. Inv /\ [Next]_vars =>
        [\A b \in Bookings :
            StillHolding(b) /\ booking[b].status = "confirmed"
                => booking'[b].status = "confirmed" /\ ~booking'[b].cancelled]_vars
  BY <1>1
<1> QED
  BY <1>2, Invariance, PTL DEF Spec, ConfirmedStays

\* A player who gets a secret from Book gets it while the slot is theirs and
\* can be paid for, as long as requests die sooner than holds.
THEOREM AnswersComeInTime == Spec => AnsweredWhileHeld
<1>1. ASSUME Inv, [Next]_vars, NEW b \in Bookings,
             request[b].pc # "answered", request'[b].pc = "answered"
      PROVE  ~booking'[b].cancelled /\ now < booking'[b].expires
  <2>1. AttachPayment(b)
    <3>1. ASSUME NEW c \in Bookings, Book(c)
          PROVE  AttachPayment(b)
      <4>1. b # c => request'[b] = request[b]
        BY <1>1, <3>1 DEF Book, CheckSlot, HoldSlot, CreatePayment, CancelBooking,
           AttachPayment, ClientLeaves, CrashBook, Step, Finish, Inv, TypeOK
      <4>2. ASSUME NEW pc, Step(b, pc) \/ Finish(b, pc)
            PROVE  pc = "answered"
        BY <1>1, <4>2 DEF Step, Finish, Inv, TypeOK, Request
      <4>3. ~CheckSlot(b) /\ ~ClientLeaves(b)
        BY <1>1 DEF CheckSlot, ClientLeaves, InFlight, Inv, TypeOK, Request
      <4>4. ~HoldSlot(b) /\ ~CreatePayment(b) /\ ~CancelBooking(b) /\ ~CrashBook(b)
        BY <4>2 DEF HoldSlot, CreatePayment, CancelBooking, CrashBook
      <4> QED
        BY <1>1, <3>1, <4>1, <4>3, <4>4 DEF Book
    <3> QED
      BY <1>1, <3>1 DEF Next, Tick, Resume, ReadForResume, ResumePayment, Gateway,
         PayCard, DeclineCard, IgnoreEvent, ReceiveEvent, HandlePaymentEvent,
         GetBookingByPayment, RecordStripeEvent, ConfirmBooking, CommitConfirm,
         AbandonDelivery, Sweep, StartSweep, ReleaseLapsedHolds, AbandonSweep,
         vars, requestVars
  <2>2. /\ ~ContextDone(b)
        /\ booking' = [booking EXCEPT ![b].intent = b]
    BY <1>1, <2>1 DEF AttachPayment, Finish, Inv, TypeOK, Request
  <2>3. /\ booking[b].expires = request[b].start + PaymentHold
        /\ booking[b].cancelled => booking[b].expires <= now + ClockSkew
    BY <2>1, <1>1 DEF AttachPayment, Inv, Holding, InFlight
  <2>4. now < request[b].start + RequestTimeout
    BY <1>1, <2>2, TimeAssumption DEF ContextDone, Inv, TypeOK, Request
  <2>5. now \in Int /\ request[b].start \in Int
    BY <1>1 DEF Inv, TypeOK, Request
  <2>6. ~booking[b].cancelled /\ now < booking[b].expires
    BY <2>3, <2>4, <2>5, TimeAssumption, TimeoutAssumption
  <2> QED
    BY <1>1, <2>2, <2>6, AttachRows DEF Inv
<1>2. Inv /\ [Next]_vars =>
        [\A b \in Bookings :
            request[b].pc # "answered" /\ request'[b].pc = "answered"
                => ~booking'[b].cancelled /\ now < booking'[b].expires]_vars
  BY <1>1
<1> QED
  BY <1>2, Invariance, PTL DEF Spec, AnsweredWhileHeld

-----------------------------------------------------------------------------
(* What the rows show of the slots: Holds!Slot is SlotLedger.               *)

\* What the ledger shows of a row.
LEMMA ViewOf ==
    ASSUME TypeOK, NEW b \in Bookings
    PROVE  /\ booking[b].status = "none" => LedgerView[b] = "nothing"
           /\ booking[b].status # "none" /\ ~StillHolding(b)
                => LedgerView[b] = "released"
           /\ StillHolding(b) /\ booking[b].status = "pending_payment"
                => LedgerView[b] = "held"
           /\ StillHolding(b) /\ booking[b].status = "confirmed"
                => LedgerView[b] = "sold"
           /\ booking[b].status \in {"none", "pending_payment", "confirmed"}
<1>1. booking[b].status \in {"none", "pending_payment", "confirmed"}
  BY DEF TypeOK, Row
<1>2. booking[b].status = "none" => ~StillHolding(b)
  BY DEF StillHolding
<1> QED
  BY <1>1, <1>2 DEF LedgerView, LedgerOf

\* The ledger of the next state is read the same way.
LEMMA ViewOfNext ==
    ASSUME TypeOK', NEW b \in Bookings
    PROVE  /\ booking'[b].status = "none" => LedgerView'[b] = "nothing"
           /\ booking'[b].status # "none" /\ ~StillHolding(b)'
                => LedgerView'[b] = "released"
           /\ StillHolding(b)' /\ booking'[b].status = "pending_payment"
                => LedgerView'[b] = "held"
           /\ StillHolding(b)' /\ booking'[b].status = "confirmed"
                => LedgerView'[b] = "sold"
<1>1. booking'[b].status \in {"none", "pending_payment", "confirmed"}
  BY DEF TypeOK, Row
<1>2. booking'[b].status = "none" => ~StillHolding(b)'
  BY DEF StillHolding
<1> QED
  BY <1>1, <1>2 DEF LedgerView, LedgerOf

\* A row whose status and standing stay looks the same in the ledger.
LEMMA ViewKept ==
    ASSUME TypeOK, TypeOK', NEW b \in Bookings,
           booking'[b].status = booking[b].status,
           StillHolding(b)' <=> StillHolding(b)
    PROVE  LedgerView'[b] = LedgerView[b]
BY ViewOf, ViewOfNext

\* Two ledgers that agree on every booking are the same ledger.
LEMMA ViewEqual ==
    ASSUME \A b \in Bookings : LedgerView'[b] = LedgerView[b]
    PROVE  UNCHANGED LedgerView
<1>1. LedgerView = [b \in Bookings |-> LedgerView[b]]
  BY DEF LedgerView
<1>2. LedgerView' = [b \in Bookings |-> LedgerView'[b]]
  BY DEF LedgerView
<1> QED
  BY <1>1, <1>2

\* And one that differs in one booking is the other with that entry changed.
LEMMA ViewExcept ==
    ASSUME NEW b \in Bookings, NEW outcome, LedgerView'[b] = outcome,
           \A c \in Bookings : c # b => LedgerView'[c] = LedgerView[c]
    PROVE  LedgerView' = [LedgerView EXCEPT ![b] = outcome]
<1>1. LedgerView = [c \in Bookings |-> LedgerView[c]]
  BY DEF LedgerView
<1>2. LedgerView' = [c \in Bookings |-> LedgerView'[c]]
  BY DEF LedgerView
<1> QED
  BY <1>1, <1>2

\* A slot is taken by an insert...
LEMMA LedgerTake ==
    ASSUME Inv, Inv', NEW b \in Bookings, HoldSlot(b)
    PROVE  Holds!Slot!Take(b) \/ UNCHANGED LedgerView
<1>1. CASE UNCHANGED booking
  BY <1>1 DEF LedgerView, LedgerOf, StillHolding
<1>2. CASE InsertHold(b) /\ ~SlotTaken(SlotOf[b])
  <2>1. LedgerView[b] = "nothing"
    BY <1>2, ViewOf DEF HoldSlot, Inv, Linked
  <2>2. LedgerView'[b] = "held"
    BY <1>2, InsertHoldRows, ViewOfNext DEF Inv, StillHolding
  <2>3. ASSUME NEW c \in Bookings, c # b
        PROVE  LedgerView'[c] = LedgerView[c]
    <3>1. booking'[c] = booking[c]
      BY <1>2, <2>3, InsertHoldRows DEF Inv
    <3> QED
      BY <3>1, ViewKept DEF Inv, StillHolding
  <2>4. LedgerView' = [LedgerView EXCEPT ![b] = "held"]
    BY <2>2, <2>3, ViewExcept
  <2>5. ASSUME NEW c \in Bookings, SlotOf[c] = SlotOf[b]
        PROVE  LedgerView[c] \notin {"held", "sold"}
    <3>1. ~StillHolding(c)
      BY <1>2, <2>5 DEF SlotTaken
    <3> QED
      BY <3>1, ViewOf DEF Inv, StillHolding
  <2> QED
    BY <2>1, <2>4, <2>5 DEF Holds!Slot!Take, Holds!Slot!Occupies
<1> QED
  BY <1>1, <1>2 DEF HoldSlot

\* ... sold by a commit, unless it had been released before...
LEMMA LedgerSell ==
    ASSUME Inv, Inv', NEW d \in Deliveries, CommitConfirm(d)
    PROVE  Holds!Slot!Sell(delivery[d].intent) \/ UNCHANGED LedgerView
<1> DEFINE b == delivery[d].intent
<1>1. /\ b \in Bookings
      /\ booking'[b].status = "confirmed"
      /\ booking'[b].cancelled = booking[b].cancelled
      /\ booking[b].status # "none"
      /\ \A c \in Bookings : c # b => booking'[c] = booking[c]
  BY CommitRows DEF Inv
<1>2. booking[b].status # "confirmed"
  BY <1>1 DEF Inv, Serial, Settled, CommitConfirm
<1>3. \A c \in Bookings : c # b => LedgerView'[c] = LedgerView[c]
  BY <1>1, ViewKept DEF Inv, StillHolding
<1>4. CASE booking[b].cancelled
  <2>1. LedgerView[b] = "released" /\ LedgerView'[b] = "released"
    BY <1>1, <1>4, ViewOf, ViewOfNext DEF Inv, StillHolding
  <2>2. UNCHANGED LedgerView
    BY <1>3, <2>1, ViewEqual
  <2> QED
    BY <2>2
<1>5. CASE ~booking[b].cancelled
  <2>1. LedgerView[b] = "held"
    BY <1>1, <1>2, <1>5, ViewOf DEF Inv, StillHolding
  <2>2. LedgerView'[b] = "sold"
    BY <1>1, <1>5, ViewOfNext DEF Inv, StillHolding
  <2>3. LedgerView' = [LedgerView EXCEPT ![b] = "sold"]
    BY <1>1, <1>3, <2>2, ViewExcept
  <2>4. Holds!Slot!Sell(b)
    BY <2>1, <2>3 DEF Holds!Slot!Sell
  <2> QED
    BY <1>1, <2>4
<1> QED
  BY <1>4, <1>5

\* ... and given back by an undo or, several together, by a sweep.
LEMMA LedgerRelease ==
    ASSUME Inv, Inv',
           \/ \E b \in Bookings : CancelBooking(b)
           \/ \E s \in Sweepers : ReleaseLapsedHolds(s)
    PROVE  Holds!Slot!Release({c \in Bookings : StillHolding(c) /\ booking'[c].cancelled})
<1> DEFINE B == {c \in Bookings : StillHolding(c) /\ booking'[c].cancelled}
<1>1. \A c \in Bookings :
         /\ booking'[c].status = booking[c].status
         /\ booking[c].cancelled => booking'[c].cancelled
         /\ c \in B => booking[c].status = "pending_payment"
  <2>1. ASSUME NEW b \in Bookings, CancelBooking(b),
               booking' = [booking EXCEPT ![b].cancelled = TRUE], NEW c \in Bookings
        PROVE  /\ booking'[c].status = booking[c].status
               /\ booking[c].cancelled => booking'[c].cancelled
               /\ c \in B => booking[c].status = "pending_payment"
    <3>1. booking[b].status = "pending_payment"
      BY <2>1 DEF CancelBooking, Inv, Holding, InFlight
    <3>2. c # b => booking'[c] = booking[c]
      BY <2>1, CancelRows DEF Inv
    <3> QED
      BY <2>1, <3>1, <3>2, CancelRows DEF Inv, StillHolding
  <2>2. ASSUME NEW s \in Sweepers, ReleaseLapsedHolds(s), NEW c \in Bookings
        PROVE  /\ booking'[c].status = booking[c].status
               /\ booking[c].cancelled => booking'[c].cancelled
               /\ c \in B => booking[c].status = "pending_payment"
    BY <2>2, ReleaseRows DEF Inv, StillHolding, LapsedHolds, HoldHasLapsed
  <2>3. CASE UNCHANGED booking
    BY <2>3 DEF StillHolding
  <2> QED
    BY <2>1, <2>2, <2>3 DEF CancelBooking
<1>2. ASSUME NEW c \in Bookings
      PROVE  /\ c \in B => LedgerView[c] = "held" /\ LedgerView'[c] = "released"
             /\ c \notin B => LedgerView'[c] = LedgerView[c]
  <2>1. /\ booking'[c].status = booking[c].status
        /\ booking[c].cancelled => booking'[c].cancelled
        /\ c \in B => booking[c].status = "pending_payment"
    BY <1>1
  <2>2. CASE c \in B
    BY <2>1, <2>2, ViewOf, ViewOfNext DEF Inv, StillHolding
  <2>3. CASE c \notin B
    <3>1. StillHolding(c)' <=> StillHolding(c)
      BY <2>1, <2>3 DEF StillHolding
    <3> QED
      BY <2>1, <2>3, <3>1, ViewKept DEF Inv
  <2> QED
    BY <2>2, <2>3
<1>3. LedgerView' = [c \in Bookings |-> IF c \in B THEN "released" ELSE LedgerView[c]]
  <2>1. LedgerView' = [c \in Bookings |-> LedgerView'[c]]
    BY DEF LedgerView
  <2> QED
    BY <1>2, <2>1
<1> QED
  BY <1>2, <1>3 DEF Holds!Slot!Release

-----------------------------------------------------------------------------
(* Bookings implements HoldLedger.                                         *)

\* What the view of holds shows of a row, now and in the next state.
LEMMA EndsOf ==
    ASSUME NEW b \in Bookings
    PROVE  /\ HoldEndsView[b] =
                IF booking[b].status = "none" THEN Never ELSE request[b].start + PaymentHold
           /\ HoldEndsView'[b] =
                IF booking'[b].status = "none" THEN Never ELSE request'[b].start + PaymentHold
BY DEF HoldEndsView, HoldEnds

\* The same of the view of payments.
LEMMA PaymentsOf ==
    ASSUME NEW b \in Bookings
    PROVE  /\ PaymentView[b] = IF booking[b].intent = NoIntent THEN "none"
                               ELSE IF payment[b] = "paid" THEN "paid" ELSE "open"
           /\ PaymentView'[b] = IF booking'[b].intent = NoIntent THEN "none"
                                ELSE IF payment'[b] = "paid" THEN "paid" ELSE "open"
BY DEF PaymentView, PaymentOf

\* A view that agrees with itself on every booking has not changed, and one that
\* differs in one booking is the other with that entry changed.
LEMMA FunctionsAgree ==
    ASSUME NEW S, NEW f, NEW g, f = [x \in S |-> f[x]], g = [x \in S |-> g[x]]
    PROVE  /\ (\A x \in S : g[x] = f[x]) => g = f
           /\ \A y \in S :
                (\A x \in S : x # y => g[x] = f[x]) => g = [f EXCEPT ![y] = g[y]]
<1>1. ASSUME \A x \in S : g[x] = f[x]
      PROVE  g = f
  BY <1>1
<1>2. ASSUME NEW y \in S, \A x \in S : x # y => g[x] = f[x]
      PROVE  g = [f EXCEPT ![y] = g[y]]
  BY <1>2
<1> QED
  BY <1>1, <1>2

\* A hold ends when it was to end, through every step but an insert.
LEMMA EndsKept ==
    ASSUME Inv, [Next]_vars, \A b \in Bookings : booking'[b].status = "none"
                                <=> booking[b].status = "none"
    PROVE  UNCHANGED HoldEndsView
<1>1. ASSUME NEW b \in Bookings
      PROVE  HoldEndsView'[b] = HoldEndsView[b]
  <2>1. booking[b].status # "none" => ~CheckSlot(b)
    BY DEF CheckSlot, Inv, Linked
  <2> QED
    BY <2>1, EndsOf, StartStep DEF Inv
<1>2. /\ HoldEndsView = [b \in Bookings |-> HoldEndsView[b]]
      /\ HoldEndsView' = [b \in Bookings |-> HoldEndsView'[b]]
  BY DEF HoldEndsView
<1> QED
  BY <1>1, <1>2, FunctionsAgree

\* Only an attachment and a payment that comes in show in the view of payments.
LEMMA PaymentsKept ==
    ASSUME \A b \in Bookings : /\ booking'[b].intent = booking[b].intent
                               /\ payment'[b] = "paid" <=> payment[b] = "paid"
    PROVE  UNCHANGED PaymentView
<1>1. ASSUME NEW b \in Bookings
      PROVE  PaymentView'[b] = PaymentView[b]
  BY PaymentsOf
<1>2. /\ PaymentView = [b \in Bookings |-> PaymentView[b]]
      /\ PaymentView' = [b \in Bookings |-> PaymentView'[b]]
  BY DEF PaymentView
<1> QED
  BY <1>1, <1>2, FunctionsAgree

\* The insert of a booking takes its slot, with a hold that counts from a reading
\* of the clock less than a time limit ago.
LEMMA HoldsTake ==
    ASSUME Inv, Inv', [Next]_vars, NEW b \in Bookings, HoldSlot(b), InsertHold(b),
           ~ContextDone(b), ~SlotTaken(SlotOf[b])
    PROVE  Holds!Take(b)
<1>1. /\ UNCHANGED <<now, payment>>
      /\ request[b].pc = "checked"
  BY DEF HoldSlot, gatewayVars
<1>2. /\ booking[b].status = "none" /\ booking[b].intent = NoIntent
      /\ booking'[b].status = "pending_payment" /\ booking'[b].intent = NoIntent
      /\ \A c \in Bookings : c # b => booking'[c] = booking[c]
  BY <1>1, InsertHoldRows DEF Inv, Linked
<1>3. Holds!Slot!Take(b)
  <2>1. LedgerView' # LedgerView
    <3>1. LedgerView[b] = "nothing" /\ LedgerView'[b] # "nothing"
      BY <1>2, ViewOf, ViewOfNext DEF Inv
    <3> QED
      BY <3>1
  <2> QED
    BY <2>1, LedgerTake
<1>4. request'[b].start = request[b].start
  BY <1>1, StartStep DEF CheckSlot, Inv
<1>5. HoldEndsView' = [HoldEndsView EXCEPT ![b] = request[b].start + PaymentHold]
  <2>1. HoldEndsView'[b] = request[b].start + PaymentHold
    BY <1>2, <1>4, EndsOf
  <2>2. ASSUME NEW c \in Bookings, c # b
        PROVE  HoldEndsView'[c] = HoldEndsView[c]
    <3>1. booking[c].status # "none" => ~CheckSlot(c)
      BY DEF CheckSlot, Inv, Linked
    <3> QED
      BY <1>2, <2>2, <3>1, EndsOf, StartStep DEF Inv
  <2>3. /\ HoldEndsView = [c \in Bookings |-> HoldEndsView[c]]
        /\ HoldEndsView' = [c \in Bookings |-> HoldEndsView'[c]]
    BY DEF HoldEndsView
  <2> QED
    BY <2>1, <2>2, <2>3, FunctionsAgree
<1>6. UNCHANGED PaymentView
  BY <1>1, <1>2, PaymentsKept
<1>7. /\ request[b].start \in 0..now
      /\ now < request[b].start + RequestTimeout
  <2>1. request[b].start <= now
    BY <1>1 DEF Inv, Holding, InFlight
  <2>2. request[b].start \in Nat /\ now \in Nat
    BY DEF Inv, TypeOK, Request
  <2>3. ~(now >= request[b].start + RequestTimeout)
    BY DEF ContextDone
  <2> QED
    BY <2>1, <2>2, <2>3, TimeAssumption
<1> QED
  BY <1>1, <1>3, <1>5, <1>6, <1>7 DEF Holds!Take

\* An attachment makes it payable, before the request's time limit and so while
\* the hold has time left.
LEMMA HoldsOpen ==
    ASSUME Inv, Inv', [Next]_vars, NEW b \in Bookings, AttachPayment(b),
           ~ContextDone(b), booking' = [booking EXCEPT ![b].intent = b]
    PROVE  Holds!Open(b)
<1>1. /\ UNCHANGED <<now, payment>>
      /\ request[b].pc = "opened"
  BY DEF AttachPayment, gatewayVars
<1>2. /\ booking[b].status = "pending_payment" /\ booking[b].intent = NoIntent
      /\ booking[b].expires = request[b].start + PaymentHold
      /\ booking[b].cancelled => booking[b].expires <= now + ClockSkew
  BY <1>1 DEF Inv, Holding, InFlight
<1>3. /\ request[b].start \in Nat /\ now \in Nat
      /\ now < request[b].start + RequestTimeout
  <2>1. request[b].start \in Nat /\ now \in Nat
    BY DEF Inv, TypeOK, Request
  <2> QED
    BY <2>1, TimeAssumption DEF ContextDone
<1>4. ~booking[b].cancelled /\ now < request[b].start + PaymentHold
  BY <1>2, <1>3, TimeAssumption, TimeoutAssumption
<1>5. /\ booking'[b].status = booking[b].status
      /\ booking'[b].cancelled = booking[b].cancelled
      /\ booking'[b].intent = b
      /\ \A c \in Bookings : c # b => booking'[c] = booking[c]
  BY AttachRows DEF Inv
<1>6. LedgerView[b] = "held" /\ HoldEndsView[b] = request[b].start + PaymentHold
  BY <1>2, <1>4, ViewOf, EndsOf DEF Inv, StillHolding
<1>7. UNCHANGED LedgerView
  <2>1. ASSUME NEW c \in Bookings
        PROVE  LedgerView'[c] = LedgerView[c]
    <3>1. /\ booking'[c].status = booking[c].status
          /\ booking'[c].cancelled = booking[c].cancelled
      BY <1>5
    <3> QED
      BY <3>1, ViewKept DEF Inv, StillHolding
  <2> QED
    BY <2>1, ViewEqual
<1>8. UNCHANGED HoldEndsView
  BY <1>5, EndsKept
<1>9. payment[b] # "paid"
  BY <1>2, NoIntentAssumption DEF Inv, Linked
<1>10. PaymentView[b] = "none" /\ PaymentView' = [PaymentView EXCEPT ![b] = "open"]
  <2>1. PaymentView[b] = "none" /\ PaymentView'[b] = "open"
    BY <1>1, <1>2, <1>5, <1>9, PaymentsOf, NoIntentAssumption
  <2>2. \A c \in Bookings : c # b => PaymentView'[c] = PaymentView[c]
    BY <1>1, <1>5, PaymentsOf
  <2>3. /\ PaymentView = [c \in Bookings |-> PaymentView[c]]
        /\ PaymentView' = [c \in Bookings |-> PaymentView'[c]]
    BY DEF PaymentView
  <2> QED
    BY <2>1, <2>2, <2>3, FunctionsAgree
<1> QED
  BY <1>1, <1>4, <1>6, <1>7, <1>8, <1>10 DEF Holds!Open

\* A player pays by a secret, and only an attached intent has one out.
LEMMA HoldsPay ==
    ASSUME Inv, Inv', [Next]_vars, NEW i \in Bookings, PayCard(i)
    PROVE  Holds!Pay(i)
<1>1. /\ UNCHANGED <<now, booking, request>>
      /\ payment[i] = "open" /\ payment' = [payment EXCEPT ![i] = "paid"]
      /\ booking[i].intent = i
  BY DEF PayCard, requestVars, Inv, Linked
<1>2. /\ payment'[i] = "paid"
      /\ \A c \in Bookings : c # i => payment'[c] = payment[c]
  BY <1>1 DEF Inv, TypeOK
<1>3. UNCHANGED <<LedgerView, HoldEndsView>>
  BY <1>1 DEF LedgerView, LedgerOf, StillHolding, HoldEndsView, HoldEnds
<1>4. PaymentView[i] = "open" /\ PaymentView' = [PaymentView EXCEPT ![i] = "paid"]
  <2>1. PaymentView[i] = "open" /\ PaymentView'[i] = "paid"
    BY <1>1, <1>2, PaymentsOf, NoIntentAssumption
  <2>2. \A c \in Bookings : c # i => PaymentView'[c] = PaymentView[c]
    BY <1>1, <1>2, PaymentsOf
  <2>3. /\ PaymentView = [c \in Bookings |-> PaymentView[c]]
        /\ PaymentView' = [c \in Bookings |-> PaymentView'[c]]
    BY DEF PaymentView
  <2> QED
    BY <2>1, <2>2, <2>3, FunctionsAgree
<1> QED
  BY <1>1, <1>3, <1>4 DEF Holds!Pay

\* A delivery is of a payment that came in.
LEMMA HoldsSell ==
    ASSUME Inv, Inv', [Next]_vars, NEW d \in Deliveries, CommitConfirm(d),
           payment[delivery[d].intent] = "paid"
    PROVE  Holds!Sell(delivery[d].intent)
              \/ UNCHANGED <<LedgerView, HoldEndsView, PaymentView>>
<1> DEFINE i == delivery[d].intent
<1>1. /\ i \in Bookings /\ booking[i].intent = i
      /\ UNCHANGED <<now, payment>>
      /\ booking' = Confirmed(i)
  BY DEF CommitConfirm, Inv, Serial, gatewayVars
<1>2. /\ booking'[i].status = "confirmed" /\ booking[i].status # "none"
      /\ booking'[i].intent = i
      /\ \A c \in Bookings : c # i => booking'[c] = booking[c]
  BY <1>1, CommitRows, ConfirmRows DEF Inv
<1>3. UNCHANGED HoldEndsView
  BY <1>2, EndsKept
<1>4. UNCHANGED PaymentView
  BY <1>1, <1>2, PaymentsKept
<1>5. PaymentView[i] = "paid"
  BY <1>1, PaymentsOf, NoIntentAssumption
<1> QED
  BY <1>1, <1>3, <1>4, <1>5, LedgerSell DEF Holds!Sell

\* Book undoes a hold before its intent is attached.
LEMMA HoldsUndo ==
    ASSUME Inv, Inv', [Next]_vars, NEW b \in Bookings, CancelBooking(b),
           booking' = [booking EXCEPT ![b].cancelled = TRUE]
    PROVE  Holds!Undo(b) \/ UNCHANGED <<LedgerView, HoldEndsView, PaymentView>>
<1>1. /\ UNCHANGED <<now, payment>>
      /\ booking[b].status = "pending_payment" /\ booking[b].intent = NoIntent
  BY DEF CancelBooking, gatewayVars, Inv, Holding, InFlight
<1>2. /\ booking'[b].cancelled /\ booking'[b].status = booking[b].status
      /\ booking'[b].intent = booking[b].intent
      /\ \A c \in Bookings : c # b => booking'[c] = booking[c]
  BY CancelRows DEF Inv
<1>3. UNCHANGED HoldEndsView
  BY <1>2, EndsKept
<1>4. UNCHANGED PaymentView /\ PaymentView[b] = "none"
  BY <1>1, <1>2, PaymentsKept, PaymentsOf
<1>5. CASE booking[b].cancelled
  <2>1. ASSUME NEW c \in Bookings
        PROVE  LedgerView'[c] = LedgerView[c]
    <3>1. /\ booking'[c].status = booking[c].status
          /\ booking'[c].cancelled <=> booking[c].cancelled
      BY <1>2, <1>5
    <3> QED
      BY <3>1, ViewKept DEF Inv, StillHolding
  <2> QED
    BY <1>3, <1>4, <2>1, ViewEqual
<1>6. CASE ~booking[b].cancelled
  <2>1. {c \in Bookings : StillHolding(c) /\ booking'[c].cancelled} = {b}
    BY <1>1, <1>2, <1>6 DEF StillHolding
  <2>2. Holds!Slot!Release({b})
    BY <2>1, LedgerRelease
  <2> QED
    BY <1>1, <1>3, <1>4, <2>2 DEF Holds!Undo
<1> QED
  BY <1>5, <1>6

\* A sweep takes holds that end by a clock at most ClockSkew ahead.
LEMMA HoldsLapse ==
    ASSUME Inv, Inv', [Next]_vars, NEW s \in Sweepers, ReleaseLapsedHolds(s)
    PROVE  \E B \in SUBSET Bookings : Holds!Lapse(B)
<1> DEFINE B == {c \in Bookings : StillHolding(c) /\ booking'[c].cancelled}
<1>1. UNCHANGED <<now, payment>>
  BY DEF ReleaseLapsedHolds, gatewayVars
<1>2. \A c \in Bookings :
         /\ booking'[c].status = booking[c].status
         /\ booking'[c].intent = booking[c].intent
         /\ c \in B => c \in LapsedHolds(sweep[s])
  BY ReleaseRows DEF Inv, StillHolding
<1>3. UNCHANGED <<HoldEndsView, PaymentView>>
  BY <1>1, <1>2, EndsKept, PaymentsKept
<1>4. ASSUME NEW c \in B
      PROVE  HoldEndsView[c] <= now + ClockSkew
  <2>1. /\ booking[c].status = "pending_payment"
        /\ booking[c].expires <= sweep[s]
    BY <1>2 DEF LapsedHolds, HoldHasLapsed
  <2>2. HoldEndsView[c] = booking[c].expires
    BY <2>1, EndsOf DEF Inv, Dated
  <2>3. sweep[s] <= now + ClockSkew
    BY DEF Inv, Holding
  <2>4. booking[c].expires \in Int /\ sweep[s] \in Int /\ now + ClockSkew \in Int
    BY TimeAssumption DEF Inv, TypeOK, Row, Times, Never
  <2> QED
    BY <2>1, <2>2, <2>3, <2>4
<1>5. Holds!Slot!Release(B)
  BY LedgerRelease
<1> QED
  BY <1>1, <1>3, <1>4, <1>5 DEF Holds!Lapse

\* No other step shows in the ledger of holds.
LEMMA HoldsStep == Inv /\ Inv' /\ [Next]_vars => [Holds!Next]_Holds!vars
<1> SUFFICES ASSUME Inv, Inv', [Next]_vars
             PROVE  \/ Holds!Next
                    \/ UNCHANGED <<now, LedgerView, HoldEndsView, PaymentView>>
  BY DEF Holds!vars
<1> USE DEF vars, requestVars, gatewayVars, webhookVars
<1> DEFINE Same == UNCHANGED <<LedgerView, HoldEndsView, PaymentView>>
<1>1. ASSUME UNCHANGED booking,
             \A b \in Bookings : payment'[b] = "paid" <=> payment[b] = "paid"
      PROVE  Same
  <2>1. UNCHANGED LedgerView
    BY <1>1 DEF LedgerView, LedgerOf, StillHolding
  <2> QED
    BY <1>1, <2>1, EndsKept, PaymentsKept
<1>2. ASSUME NEW b \in Bookings, Book(b)
      PROVE  Holds!Next \/ (UNCHANGED now /\ Same)
  <2>1. UNCHANGED now
    BY <1>2 DEF Book, CheckSlot, HoldSlot, CreatePayment, CancelBooking, AttachPayment,
       ClientLeaves, CrashBook
  <2>2. CASE CreatePayment(b)
    <3>1. payment[b] # "paid"
      BY <2>2, NoIntentAssumption DEF CreatePayment, Inv, Linked, Holding, InFlight
    <3>2. \A c \in Bookings : payment'[c] = "paid" <=> payment[c] = "paid"
      BY <2>2, <3>1 DEF CreatePayment, Inv, TypeOK
    <3> QED
      BY <1>1, <2>1, <2>2, <3>2 DEF CreatePayment
  <2>3. CASE UNCHANGED <<booking, payment>>
    BY <1>1, <2>1, <2>3
  <2> QED
    BY <1>2, <2>1, <2>2, <2>3, HoldsTake, HoldsOpen, HoldsUndo DEF Book, CheckSlot,
       HoldSlot, CancelBooking, AttachPayment, ClientLeaves, CrashBook, Holds!Next
<1>3. ASSUME NEW b \in Bookings, Resume(b) \/ Gateway(b)
      PROVE  Holds!Next \/ (UNCHANGED now /\ Same)
  <2>1. CASE UNCHANGED <<now, booking, payment>>
    BY <1>1, <2>1
  <2> QED
    BY <1>3, <2>1, HoldsPay DEF Resume, ReadForResume, ResumePayment, Gateway,
       DeclineCard, IgnoreEvent, Holds!Next
<1>4. ASSUME NEW d \in Deliveries,
             HandlePaymentEvent(d) \/ \E i \in Bookings : ReceiveEvent(d, i)
      PROVE  Holds!Next \/ (UNCHANGED now /\ Same)
  <2>1. CASE UNCHANGED <<now, booking, payment>>
    BY <1>1, <2>1
  <2>2. CASE CommitConfirm(d)
    <3>1. UNCHANGED now /\ delivery[d].pc # "idle"
      BY <2>2 DEF CommitConfirm
    <3>2. delivery[d].intent \in Bookings /\ payment[delivery[d].intent] = "paid"
      BY <3>1 DEF Inv, Serial, Owed
    <3> QED
      BY <2>2, <3>1, <3>2, HoldsSell DEF Holds!Next
  <2> QED
    BY <1>4, <2>1, <2>2 DEF HandlePaymentEvent, GetBookingByPayment, RecordStripeEvent,
       ConfirmBooking, AbandonDelivery, ReceiveEvent
<1>5. ASSUME NEW s \in Sweepers, Sweep(s)
      PROVE  Holds!Next \/ (UNCHANGED now /\ Same)
  <2>1. CASE UNCHANGED <<now, booking, payment>>
    BY <1>1, <2>1
  <2> QED
    BY <1>5, <2>1, HoldsLapse DEF Sweep, StartSweep, AbandonSweep, Holds!Next
<1>6. CASE Tick
  <2>1. now' = now + 1 /\ UNCHANGED <<booking, payment>>
    BY <1>6 DEF Tick
  <2> QED
    BY <1>1, <2>1 DEF Holds!Next, Holds!Tick
<1>7. CASE UNCHANGED vars
  BY <1>1, <1>7
<1> QED
  BY <1>2, <1>3, <1>4, <1>5, <1>6, <1>7 DEF Next

\* The tables, the gateway and everything that works on them keep the promises of
\* HoldLedger: a refinement, step by step, through every interleaving and fault.
THEOREM HoldLedgerImplemented == Spec => ImplementsHoldLedger
<1>1. Init => Holds!Init
  BY DEF Init, Holds!Init, Holds!Slot!Init, LedgerView, LedgerOf, HoldEndsView, HoldEnds,
     PaymentView, PaymentOf, NoRow, Never, Holds!Never
<1> QED
  BY <1>1, HoldsStep, Invariance, PTL DEF Spec, ImplementsHoldLedger, Holds!Spec

-----------------------------------------------------------------------------
(* What HoldLedger promises, taken over.                                   *)

Promises == INSTANCE HoldLedgerProofs
    WITH ledger <- LedgerView, expires <- HoldEndsView, payment <- PaymentView

\* The ledger of the theorems is the one Bookings implements.
LEMMA SameLedger == Holds!Spec <=> Promises!Spec
<1>1. Holds!Init <=> Promises!Init
  BY DEF Holds!Init, Promises!Init, Holds!Slot!Init, Promises!Slot!Init, Holds!Never,
     Promises!Never
<1>2. ASSUME NEW b \in Bookings
      PROVE  /\ Holds!Take(b) <=> Promises!Take(b)
             /\ Holds!Open(b) <=> Promises!Open(b)
             /\ Holds!Pay(b) <=> Promises!Pay(b)
             /\ Holds!Sell(b) <=> Promises!Sell(b)
             /\ Holds!Undo(b) <=> Promises!Undo(b)
  BY DEF Holds!Take, Promises!Take, Holds!Open, Promises!Open, Holds!Pay, Promises!Pay,
     Holds!Sell, Promises!Sell, Holds!Undo, Promises!Undo, Holds!Slot!Take,
     Promises!Slot!Take, Holds!Slot!Sell, Promises!Slot!Sell, Holds!Slot!Release,
     Promises!Slot!Release, Holds!Slot!Occupies, Promises!Slot!Occupies
<1>3. \A B \in SUBSET Bookings : Holds!Lapse(B) <=> Promises!Lapse(B)
  BY DEF Holds!Lapse, Promises!Lapse, Holds!Slot!Release, Promises!Slot!Release
<1>4. [Holds!Next]_Holds!vars <=> [Promises!Next]_Promises!vars
  BY <1>2, <1>3 DEF Holds!Next, Promises!Next, Holds!Tick, Promises!Tick, Holds!vars,
     Promises!vars
<1> QED
  BY <1>1, <1>4, PTL DEF Holds!Spec, Promises!Spec

\* So its promises hold of the rows: nobody plays unpaid, nobody is charged for
\* a row that never had its slot, a slot somebody can pay for is lost to the clock
\* only, even to a confirmation that came too late, and within PaymentHold every
\* hold is one a sweep may take.
THEOREM PromisesKept ==
    Spec => [](Holds!SoldIsPaid /\ Holds!OpenIsKept /\ Holds!OpenIsTaken /\ Holds!DatedWithinHold)
<1>1. Promises!Durations
  BY TimeAssumption DEF Promises!Durations
<1>2. Promises!Spec => []Promises!HoldInv
  BY <1>1, Promises!HoldsKept
<1>3. Promises!HoldInv =>
          Holds!SoldIsPaid /\ Holds!OpenIsKept /\ Holds!OpenIsTaken /\ Holds!DatedWithinHold
  BY DEF Promises!HoldInv, Promises!SoldIsPaid, Holds!SoldIsPaid, Promises!OpenIsKept,
     Holds!OpenIsKept, Promises!OpenIsTaken, Holds!OpenIsTaken, Promises!DatedWithinHold,
     Holds!DatedWithinHold
<1>4. Spec => Holds!Spec
  BY HoldLedgerImplemented DEF ImplementsHoldLedger
<1> QED
  BY <1>2, <1>3, <1>4, SameLedger, PTL

\* Seen from the slots alone, the rows implement SlotLedger: taken only when free,
\* and sold and released for good.
THEOREM SlotLedgerImplemented == Spec => Holds!Slot!Spec
<1>1. Promises!Spec => Promises!Slot!Spec
  BY Promises!HoldsImplementSlots
<1>2. Holds!Slot!Init <=> Promises!Slot!Init
  BY DEF Holds!Slot!Init, Promises!Slot!Init
<1>3. [Holds!Slot!Next]_LedgerView <=> [Promises!Slot!Next]_LedgerView
  BY DEF Holds!Slot!Next, Promises!Slot!Next, Holds!Slot!Take, Promises!Slot!Take,
     Holds!Slot!Sell, Promises!Slot!Sell, Holds!Slot!Release, Promises!Slot!Release,
     Holds!Slot!Occupies, Promises!Slot!Occupies
<1>4. Spec => Holds!Spec
  BY HoldLedgerImplemented DEF ImplementsHoldLedger
<1> QED
  BY <1>1, <1>2, <1>3, <1>4, SameLedger, PTL DEF Holds!Slot!Spec, Promises!Slot!Spec

\* A row whose intent can be paid and that has time left on every clock stands.
LEMMA TimelyStands ==
    ASSUME Inv, Holds!OpenIsKept, NEW i \in Bookings, booking[i].intent = i,
           now + ClockSkew < booking[i].expires
    PROVE  booking[i].status = "pending_payment" /\ StillHolding(i)
<1>1. now + ClockSkew \in Nat
  BY TimeAssumption DEF Inv, TypeOK
<1>2. booking[i].status = "pending_payment" /\ booking[i].expires \in Int
  BY <1>1 DEF Inv, Dated, TypeOK, Row, Times, Never
<1>3. HoldEndsView[i] = booking[i].expires
  BY <1>2, EndsOf DEF Inv, Dated
<1>4. PaymentView[i] # "none"
  BY PaymentsOf, NoIntentAssumption
<1>5. LedgerView[i] # "released"
  BY <1>1, <1>2, <1>3, <1>4 DEF Holds!OpenIsKept
<1> QED
  BY <1>2, <1>5, ViewOf DEF Inv

\* A delivery that ends while its hold has time left on every clock is not put
\* aside, and the booking it confirms has its slot: what is left of the claim
\* that a paid booking confirms (booking.go:250, MyBookings.tsx:13).
THEOREM TimelyPaymentsAreKept == Spec => InTimeIsKept
<1> DEFINE Kept ==
      \A i \in Bookings : now + ClockSkew < booking[i].expires =>
          /\ i \notin reported => i \notin reported'
          /\ i \notin stripeEvents /\ i \in stripeEvents' => StillHolding(i)'
<1>1. ASSUME Inv, Inv', Holds!OpenIsKept, [Next]_vars,
             NEW i \in Bookings, now + ClockSkew < booking[i].expires,
             i \notin reported, i \in reported'
      PROVE  FALSE
  <2>1. PICK d \in Deliveries : /\ GetBookingByPayment(d) /\ delivery[d].intent = i
                               /\ Holder(i) = {}
    BY <1>1, ReportStep
  <2>2. booking[i].intent = i
    BY <1>1, <2>1 DEF GetBookingByPayment, Inv, Serial
  <2> QED
    BY <1>1, <2>1, <2>2, TimelyStands DEF Holder
<1>2. ASSUME Inv, Inv', Holds!OpenIsKept, [Next]_vars,
             NEW i \in Bookings, now + ClockSkew < booking[i].expires,
             i \notin stripeEvents, i \in stripeEvents'
      PROVE  StillHolding(i)'
  <2>1. PICK d \in Deliveries : CommitConfirm(d)
    BY <1>2, EventsStep
  <2>2. delivery[d].intent = i /\ booking[i].intent = i
    BY <1>2, <2>1 DEF CommitConfirm, Inv, Serial
  <2>3. StillHolding(i)
    BY <1>2, <2>2, TimelyStands
  <2> QED
    BY <2>1, <2>2, <2>3, CommitRows, <1>2 DEF Inv, StillHolding
<1>3. Inv /\ Inv' /\ Holds!OpenIsKept /\ [Next]_vars => [Kept]_vars
  BY <1>1, <1>2
<1> QED
  BY <1>3, PromisesKept, Invariance, PTL DEF Spec, InTimeIsKept
=============================================================================
