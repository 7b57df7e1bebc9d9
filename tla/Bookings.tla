------------------------------ MODULE Bookings ------------------------------
(***************************************************************************)
(* Booking a court and paying for it: the Book and ResumePayment flows of  *)
(* the API, the payment webhook, the sweeper, the bookings and             *)
(* stripe_events tables between them, and the payment gateway they all     *)
(* depend on.                                                              *)
(*                                                                         *)
(* A step is one call that leaves the process: one SQL statement, one      *)
(* commit, one gateway request, one HTTP answer.  Anything can happen      *)
(* between two of them.  The database runs at READ COMMITTED; a statement  *)
(* is atomic and waits for the rows and keys other transactions hold.      *)
(*                                                                         *)
(* One element of Bookings is at once a POST /courts/{id}/bookings         *)
(* request, the id of the row it may insert and the payment intent it may  *)
(* open, for Book makes at most one of each.  The rules Book checks before *)
(* it takes the slot (role, active account, active venue, slot grid) only  *)
(* decide whether CheckSlot lets the request through.                      *)
(*                                                                         *)
(* A definition named Buggy... is the one after it with a plausible slip.  *)
(* Nothing uses it: it shows that some property would catch the slip.      *)
(***************************************************************************)
EXTENDS Integers

CONSTANTS
    Bookings,        \* requests, rows and intents, see above
    Slots,           \* (court_id, starts_at) pairs; the grid keeps them disjoint
    SlotOf,          \* the slot each request asks for
    Deliveries,      \* webhook requests that can be in flight at once
    Sweepers,        \* sweeper processes; two overlap in a rolling restart
    PaymentHold,     \* entity.PaymentHold, fifteen minutes
    RequestTimeout,  \* middleware.Timeout, thirty seconds
    ClockSkew,       \* how far a sweeper's clock may run ahead of the API's
    MaxTime,         \* bound on the clock
    Faults,          \* the kinds of failure that can strike
    NoIntent         \* a NULL payment_intent_id

FaultKinds == {"db", "gateway", "client", "crash"}

ASSUME SlotOfAssumption == SlotOf \in [Bookings -> Slots]
ASSUME NoIntentAssumption == NoIntent \notin Bookings
ASSUME TimeAssumption ==
    /\ PaymentHold \in Nat \ {0}
    /\ RequestTimeout \in Nat \ {0}
    /\ ClockSkew \in Nat
    /\ MaxTime \in Nat
ASSUME FaultsAssumption == Faults \subseteq FaultKinds
\* A request dies well before the hold it took can be swept.
ASSUME TimeoutAssumption == RequestTimeout + ClockSkew <= PaymentHold

VARIABLES
    now,           \* the API's clock
    request,       \* the Book call of each request: pc, time it read, client gone
    booking,       \* table bookings
    payment,       \* the gateway's intents
    late,          \* history: intents paid once their hold had run out
    secrets,       \* intents whose client secret was sent to a browser
    resuming,      \* bookings a ResumePayment has read and not answered for
    declined,      \* intents with a payment_failed event to deliver
    delivery,      \* the HandlePaymentEvent call of each delivery
    stripeEvents,  \* table stripe_events; an intent has one success event
    acked,         \* success events the gateway got a 204 for
    reported,      \* intents the webhook logged for a person to look at
    sweep          \* each sweeper's asOf, or Never between passes

requestVars == <<request, secrets, resuming>>
gatewayVars == <<payment, late, declined>>
webhookVars == <<delivery, stripeEvents, acked, reported>>
vars == <<now, requestVars, booking, gatewayVars, webhookVars, sweep>>

Never == -1
Times == Nat \cup {Never}

NoRow == [status |-> "none", cancelled |-> FALSE, expires |-> Never,
          intent |-> NoIntent]
IdleDelivery == [pc |-> "idle", intent |-> NoIntent]

-----------------------------------------------------------------------------
(* Entity rules and row predicates.                                        *)

\* cancelled_at IS NULL, the condition of the partial unique index.
StillHolding(b) ==
    booking[b].status # "none" /\ ~booking[b].cancelled

HoldHasLapsed(b, t) ==
    /\ booking[b].status = "pending_payment"
    /\ booking[b].expires # Never
    /\ booking[b].expires <= t

AwaitsPayment(b, t) ==
    /\ StillHolding(b)
    /\ booking[b].status = "pending_payment"
    /\ ~HoldHasLapsed(b, t)

\* The index made to count paid bookings only.
BuggySlotTaken(s) ==
    \E b \in Bookings :
        SlotOf[b] = s /\ StillHolding(b) /\ booking[b].status = "confirmed"

\* What a new row for slot s would collide with in bookings_court_slot_idx.
SlotTaken(s) == \E b \in Bookings : SlotOf[b] = s /\ StillHolding(b)

\* The sweep without its hold_expires_at condition.
BuggyLapsedHolds(asOf) ==
    {b \in Bookings : StillHolding(b) /\ booking[b].status = "pending_payment"}

\* The rows ReleaseLapsedHolds matches.
LapsedHolds(asOf) == {b \in Bookings : StillHolding(b) /\ HoldHasLapsed(b, asOf)}

\* A confirming transaction that has not ended keeps the row it updated...
RowLocked(b) ==
    \E d \in Deliveries : delivery[d].pc = "updated" /\ booking[b].intent = delivery[d].intent

\* ... and the stripe_events key it inserted.
EventLocked(i) ==
    \E d \in Deliveries : delivery[d].intent = i /\ delivery[d].pc \in {"recorded", "updated"}

Fault(kinds) == Faults \cap kinds # {}

-----------------------------------------------------------------------------
(* Book: POST /courts/{courtID}/bookings.                                  *)

InFlight == {"checked", "held", "opened", "undoing"}

\* Booking requests left out of the Timeout middleware.
BuggyContextDone(b) == request[b].gone

\* The request's context: cancelled by its timeout or by the client leaving.
ContextDone(b) ==
    request[b].gone \/ now >= request[b].start + RequestTimeout

Step(b, pc) == request' = [request EXCEPT ![b].pc = pc]
Finish(b, pc) == request' = [request EXCEPT ![b].pc = pc, ![b].gone = FALSE]

\* The clock is read once, here, and the hold is counted from this reading; so
\* is the time limit, which really began a few queries earlier.
CheckSlot(b) ==
    /\ request[b].pc = "idle"
    /\ request' = [request EXCEPT ![b] = [pc |-> "checked", start |-> now, gone |-> FALSE]]
    /\ UNCHANGED <<now, booking, gatewayVars, webhookVars, secrets, resuming, sweep>>

\* The hold counted backwards.
BuggyInsertHold(b) ==
    booking' = [booking EXCEPT ![b] =
        [status |-> "pending_payment", cancelled |-> FALSE,
         expires |-> request[b].start - PaymentHold, intent |-> NoIntent]]

InsertHold(b) ==
    booking' = [booking EXCEPT ![b] =
        [status |-> "pending_payment", cancelled |-> FALSE,
         expires |-> request[b].start + PaymentHold, intent |-> NoIntent]]

\* The insert may also commit with its answer lost, the time limit passing or
\* the connection breaking under it: the hold then stands and nobody knows.
HoldSlot(b) ==
    /\ request[b].pc = "checked"
    /\ \/ /\ ~ContextDone(b) /\ ~SlotTaken(SlotOf[b])
          /\ InsertHold(b)
          /\ Step(b, "held") \/ Finish(b, "refused")
       \/ /\ SlotTaken(SlotOf[b]) \/ ContextDone(b) \/ Fault({"db"})
          /\ Finish(b, "refused")
          /\ UNCHANGED booking
    /\ UNCHANGED <<now, gatewayVars, webhookVars, secrets, resuming, sweep>>

\* The gateway may have opened the intent even when the call fails.
CreatePayment(b) ==
    /\ request[b].pc = "held"
    /\ \/ /\ ~ContextDone(b)
          /\ payment' = [payment EXCEPT ![b] = "open"]
          /\ Step(b, "opened")
       \/ /\ ContextDone(b) \/ Fault({"gateway"})
          /\ payment' \in {payment, [payment EXCEPT ![b] = "open"]}
          /\ Step(b, "undoing")
    /\ UNCHANGED <<now, booking, late, declined, webhookVars, secrets, resuming, sweep>>

\* The hold goes back after CreatePayment failed, on the same context.
CancelBooking(b) ==
    /\ request[b].pc = "undoing"
    /\ Finish(b, "refused")
    /\ \/ /\ ~ContextDone(b) /\ ~RowLocked(b)
          /\ booking' = [booking EXCEPT ![b].cancelled = TRUE]
       \/ /\ ContextDone(b) \/ Fault({"db"})
          /\ UNCHANGED booking
    /\ UNCHANGED <<now, gatewayVars, webhookVars, secrets, resuming, sweep>>

\* A hold whose attachment failed put back too.
BuggyUndoneAttachment(b) ==
    /\ request[b].pc = "opened"
    /\ \/ /\ ~ContextDone(b) /\ ~RowLocked(b)
          /\ booking' = [booking EXCEPT ![b].intent = b]
          /\ \/ Finish(b, "answered") /\ secrets' = secrets \cup {b}
             \/ Step(b, "undoing") /\ UNCHANGED secrets
       \/ /\ ContextDone(b) \/ Fault({"db"})
          /\ Step(b, "undoing")
          /\ UNCHANGED <<booking, secrets>>
    /\ UNCHANGED <<now, gatewayVars, webhookVars, resuming, sweep>>

\* The error of the attachment not looked at.
BuggyAttachPayment(b) ==
    /\ request[b].pc = "opened"
    /\ \/ booking' = [booking EXCEPT ![b].intent = b]
       \/ UNCHANGED booking
    /\ Finish(b, "answered") /\ secrets' = secrets \cup {b}
    /\ UNCHANGED <<now, gatewayVars, webhookVars, resuming, sweep>>

\* The statement names the row by id alone: it does not ask whether the hold
\* still stands.  Only a request that saw its attachment succeed sends the
\* secret.
AttachPayment(b) ==
    /\ request[b].pc = "opened"
    /\ \/ /\ ~ContextDone(b) /\ ~RowLocked(b)
          /\ booking' = [booking EXCEPT ![b].intent = b]
          /\ \/ Finish(b, "answered") /\ secrets' = secrets \cup {b}
             \/ Finish(b, "refused") /\ UNCHANGED secrets
       \/ /\ ContextDone(b) \/ Fault({"db"})
          /\ Finish(b, "refused")
          /\ UNCHANGED <<booking, secrets>>
    /\ UNCHANGED <<now, gatewayVars, webhookVars, resuming, sweep>>

\* The browser goes away, which cancels the request's context.
ClientLeaves(b) ==
    /\ Fault({"client"})
    /\ request[b].pc \in InFlight /\ ~request[b].gone
    /\ request' = [request EXCEPT ![b].gone = TRUE]
    /\ UNCHANGED <<now, booking, gatewayVars, webhookVars, secrets, resuming, sweep>>

\* The replica serving the request dies; what it wrote stays.
CrashBook(b) ==
    /\ Fault({"crash"})
    /\ request[b].pc \in InFlight
    /\ Finish(b, "refused")
    /\ UNCHANGED <<now, booking, gatewayVars, webhookVars, secrets, resuming, sweep>>

-----------------------------------------------------------------------------
(* ResumePayment: POST /bookings/{bookingID}/payment, by its own player.   *)

\* A row with no intent is read too, and GetPayment("") then fails.
ReadForResume(b) ==
    /\ b \notin resuming
    /\ AwaitsPayment(b, now) /\ booking[b].intent # NoIntent
    /\ resuming' = resuming \cup {b}
    /\ UNCHANGED <<now, request, booking, gatewayVars, webhookVars, secrets, sweep>>

\* GetPayment asks the gateway; nothing is read from the database again.
ResumePayment(b) ==
    /\ b \in resuming
    /\ resuming' = resuming \ {b}
    /\ \/ secrets' = secrets \cup {booking[b].intent}
       \/ Fault(FaultKinds) /\ UNCHANGED secrets
    /\ UNCHANGED <<now, request, booking, gatewayVars, webhookVars, sweep>>

-----------------------------------------------------------------------------
(* The gateway and the browser paying with a secret.                       *)

\* No code ever closes an intent, so one can be paid long after its hold.
PayCard(i) ==
    /\ i \in secrets /\ payment[i] = "open"
    /\ payment' = [payment EXCEPT ![i] = "paid"]
    /\ late' = IF HoldHasLapsed(i, now) THEN late \cup {i} ELSE late
    /\ UNCHANGED <<now, requestVars, booking, declined, webhookVars, sweep>>

\* The intent goes back to awaiting a card and the event is owed.
DeclineCard(i) ==
    /\ i \in secrets /\ payment[i] = "open"
    /\ i \notin declined
    /\ declined' = declined \cup {i}
    /\ UNCHANGED <<now, requestVars, booking, payment, late, webhookVars, sweep>>

-----------------------------------------------------------------------------
(* HandlePaymentEvent: POST /stripe/webhook.                               *)

\* The slot released on a declined card.
BuggyIgnoreEvent(i) ==
    /\ i \in declined
    /\ declined' = declined \ {i}
    /\ booking' = [booking EXCEPT ![i].cancelled = TRUE]
    /\ UNCHANGED <<now, requestVars, payment, late, webhookVars, sweep>>

\* A payment_failed event is answered 204 and changes nothing here.
IgnoreEvent(i) ==
    /\ i \in declined
    /\ declined' = declined \ {i}
    /\ UNCHANGED <<now, requestVars, booking, payment, late, webhookVars, sweep>>

\* A success event arrives, for the first time or again.
ReceiveEvent(d, i) ==
    /\ delivery[d].pc = "idle"
    /\ payment[i] = "paid"
    /\ delivery' = [delivery EXCEPT ![d] = [pc |-> "received", intent |-> i]]
    /\ UNCHANGED <<now, requestVars, booking, gatewayVars, stripeEvents, acked, reported, sweep>>

EndDelivery(d) == delivery' = [delivery EXCEPT ![d] = IdleDelivery]

\* A booking that was confirmed already taken for one that has lost its slot.
BuggyHolder(i) == {b \in Bookings : booking[b].intent = i /\ AwaitsPayment(b, now)}

\* The booking an event is about, if it still has its slot.
Holder(i) == {b \in Bookings : booking[b].intent = i /\ StillHolding(b)}

\* The booking is read on its own, before the transaction begins.
GetBookingByPayment(d) ==
    LET i == delivery[d].intent
    IN  /\ delivery[d].pc = "received"
        /\ \/ /\ Holder(i) # {}
              /\ delivery' = [delivery EXCEPT ![d].pc = "found"]
              /\ UNCHANGED <<acked, reported>>
           \* ErrBookingNotFound and ErrHoldLapsed: logged, and answered 204.
           \/ /\ Holder(i) = {}
              /\ EndDelivery(d)
              /\ acked' = acked \cup {i}
              /\ reported' = reported \cup {i}
        /\ UNCHANGED <<now, requestVars, booking, gatewayVars, stripeEvents, sweep>>

\* The event recorded in a statement of its own, ahead of the confirmation.
BuggyRecordStripeEvent(d) ==
    LET i == delivery[d].intent
    IN  /\ delivery[d].pc = "found"
        /\ stripeEvents' = stripeEvents \cup {i}
        /\ \/ /\ i \notin stripeEvents
              /\ delivery' = [delivery EXCEPT ![d].pc = "recorded"]
              /\ UNCHANGED acked
           \/ /\ i \in stripeEvents
              /\ EndDelivery(d)
              /\ acked' = acked \cup {i}
        /\ UNCHANGED <<now, requestVars, booking, gatewayVars, reported, sweep>>

\* The insert waits for a transaction holding the same key; on a conflict the
\* transaction ends having done nothing and the event is answered 204.
RecordStripeEvent(d) ==
    LET i == delivery[d].intent
    IN  /\ delivery[d].pc = "found" /\ ~EventLocked(i)
        /\ \/ /\ i \notin stripeEvents
              /\ delivery' = [delivery EXCEPT ![d].pc = "recorded"]
              /\ UNCHANGED acked
           \/ /\ i \in stripeEvents
              /\ EndDelivery(d)
              /\ acked' = acked \cup {i}
        /\ UNCHANGED <<now, requestVars, booking, gatewayVars, stripeEvents, reported, sweep>>

\* The update takes the row lock; nobody else sees it before the commit.
ConfirmBooking(d) ==
    /\ delivery[d].pc = "recorded"
    /\ delivery' = [delivery EXCEPT ![d].pc = "updated"]
    /\ UNCHANGED <<now, requestVars, booking, gatewayVars, stripeEvents, acked, reported, sweep>>

\* AND cancelled_at IS NULL added, the number of rows updated not looked at.
BuggyConfirmed(i) ==
    [b \in Bookings |->
        IF booking[b].intent = i /\ StillHolding(b)
        THEN [booking[b] EXCEPT !.status = "confirmed", !.expires = Never]
        ELSE booking[b]]

\* WHERE id = $1 and nothing more: a cancelled row is confirmed just the same.
Confirmed(i) ==
    [b \in Bookings |->
        IF booking[b].intent = i
        THEN [booking[b] EXCEPT !.status = "confirmed", !.expires = Never]
        ELSE booking[b]]

\* Both writes appear at once.  When the commit's answer is lost the event is
\* answered 500 and comes again.
CommitConfirm(d) ==
    LET i == delivery[d].intent
    IN  /\ delivery[d].pc = "updated"
        /\ booking' = Confirmed(i)
        /\ stripeEvents' = stripeEvents \cup {i}
        /\ EndDelivery(d)
        /\ \/ acked' = acked \cup {i}
           \/ Fault({"db", "crash"}) /\ UNCHANGED acked
        /\ UNCHANGED <<now, requestVars, gatewayVars, reported, sweep>>

\* Every error answered 204.
BuggyAbandonDelivery(d) ==
    /\ Fault({"db", "crash"})
    /\ delivery[d].pc # "idle"
    /\ EndDelivery(d)
    /\ acked' = acked \cup {delivery[d].intent}
    /\ UNCHANGED <<now, requestVars, booking, gatewayVars, stripeEvents, reported, sweep>>

\* An error answered 500, or a crash: an open transaction rolls back.
AbandonDelivery(d) ==
    /\ Fault({"db", "crash"})
    /\ delivery[d].pc # "idle"
    /\ EndDelivery(d)
    /\ UNCHANGED <<now, requestVars, booking, gatewayVars, stripeEvents, acked, reported, sweep>>

-----------------------------------------------------------------------------
(* The sweeper.                                                            *)

\* time.Now() read once, when the process starts.
BuggyStartSweep(s) ==
    /\ sweep[s] = Never
    /\ sweep' = [sweep EXCEPT ![s] = 0]
    /\ UNCHANGED <<now, requestVars, booking, gatewayVars, webhookVars>>

\* time.Now() is read before the statement is sent.
StartSweep(s) ==
    /\ sweep[s] = Never
    /\ \E asOf \in now..(now + ClockSkew) : sweep' = [sweep EXCEPT ![s] = asOf]
    /\ UNCHANGED <<now, requestVars, booking, gatewayVars, webhookVars>>

\* One UPDATE: it waits for rows being confirmed and judges them afterwards.
ReleaseLapsedHolds(s) ==
    LET lapsed == LapsedHolds(sweep[s])
    IN  /\ sweep[s] # Never
        /\ \A b \in lapsed : ~RowLocked(b)
        /\ booking' = [b \in Bookings |->
              IF b \in lapsed THEN [booking[b] EXCEPT !.cancelled = TRUE] ELSE booking[b]]
        /\ sweep' = [sweep EXCEPT ![s] = Never]
        /\ UNCHANGED <<now, requestVars, gatewayVars, webhookVars>>

\* A bad pass is logged and the next one finds the same holds; a restarted
\* sweeper begins with a pass.
AbandonSweep(s) ==
    /\ Fault({"db", "crash"})
    /\ sweep[s] # Never
    /\ sweep' = [sweep EXCEPT ![s] = Never]
    /\ UNCHANGED <<now, requestVars, booking, gatewayVars, webhookVars>>

-----------------------------------------------------------------------------
Tick ==
    /\ now < MaxTime
    /\ now' = now + 1
    /\ UNCHANGED <<requestVars, booking, gatewayVars, webhookVars, sweep>>

Init ==
    /\ now = 0
    /\ request = [b \in Bookings |-> [pc |-> "idle", start |-> 0, gone |-> FALSE]]
    /\ booking = [b \in Bookings |-> NoRow]
    /\ payment = [b \in Bookings |-> "none"]
    /\ delivery = [d \in Deliveries |-> IdleDelivery]
    /\ sweep = [s \in Sweepers |-> Never]
    /\ late = {} /\ secrets = {} /\ resuming = {} /\ declined = {}
    /\ stripeEvents = {} /\ acked = {} /\ reported = {}

Book(b) ==
    \/ CheckSlot(b) \/ HoldSlot(b) \/ CreatePayment(b) \/ CancelBooking(b)
    \/ AttachPayment(b) \/ ClientLeaves(b) \/ CrashBook(b)

Resume(b) == ReadForResume(b) \/ ResumePayment(b)

Gateway(i) == PayCard(i) \/ DeclineCard(i) \/ IgnoreEvent(i)

HandlePaymentEvent(d) ==
    \/ GetBookingByPayment(d) \/ RecordStripeEvent(d) \/ ConfirmBooking(d)
    \/ CommitConfirm(d) \/ AbandonDelivery(d)

Sweep(s) == StartSweep(s) \/ ReleaseLapsedHolds(s) \/ AbandonSweep(s)

Next ==
    \/ Tick
    \/ \E b \in Bookings : Book(b) \/ Resume(b) \/ Gateway(b)
    \/ \E d \in Deliveries, i \in Bookings : ReceiveEvent(d, i)
    \/ \E d \in Deliveries : HandlePaymentEvent(d)
    \/ \E s \in Sweepers : Sweep(s)

Spec == Init /\ [][Next]_vars

\* The sweeper's ticker never stops and its passes do not fail for ever.  The
\* gateway delivers an event again until it is answered 204, and no step of
\* handling it fails for ever.
SweeperFairness ==
    \A s \in Sweepers :
        WF_vars(StartSweep(s)) /\ SF_vars(ReleaseLapsedHolds(s))

Redeliver(i) == i \notin acked /\ \E d \in Deliveries : ReceiveEvent(d, i)
Handling(i, A(_)) == \E d \in Deliveries : delivery[d].intent = i /\ A(d)

GatewayFairness ==
    \A i \in Bookings :
        /\ SF_vars(Redeliver(i))
        /\ SF_vars(Handling(i, GetBookingByPayment))
        /\ SF_vars(Handling(i, RecordStripeEvent))
        /\ SF_vars(Handling(i, ConfirmBooking))
        /\ SF_vars(Handling(i, CommitConfirm))

FairSpec == Spec /\ SweeperFairness /\ GatewayFairness

-----------------------------------------------------------------------------
(* What the system promises.                                               *)

Request == [pc: InFlight \cup {"idle", "answered", "refused"}, start: Nat, gone: BOOLEAN]
Delivery == [pc: {"idle", "received", "found", "recorded", "updated"},
             intent: Bookings \cup {NoIntent}]
Row == [status: {"none", "pending_payment", "confirmed"}, cancelled: BOOLEAN,
        expires: Times, intent: Bookings \cup {NoIntent}]

\* Every variable keeps its type.
TypeOK ==
    /\ now \in Nat
    /\ request \in [Bookings -> Request]
    /\ booking \in [Bookings -> Row]
    /\ payment \in [Bookings -> {"none", "open", "paid"}]
    /\ late \subseteq Bookings
    /\ secrets \subseteq Bookings
    /\ resuming \subseteq Bookings
    /\ declined \subseteq Bookings
    /\ delivery \in [Deliveries -> Delivery]
    /\ stripeEvents \subseteq Bookings
    /\ acked \subseteq Bookings
    /\ reported \subseteq Bookings
    /\ sweep \in [Sweepers -> Times]

\* Two bookings never hold one slot at a time, whatever releases, retries and
\* late answers come between (Book, booking.go:74).
OneHoldPerSlot ==
    \A b, c \in Bookings :
        StillHolding(b) /\ StillHolding(c) /\ SlotOf[b] = SlotOf[c] => b = c

\* An event is on record exactly when its booking is confirmed, so a retry
\* never trips over a record of work that did not happen (ConfirmPaid).
RecordedIffConfirmed ==
    \A i \in Bookings :
        i \in stripeEvents <=> \E b \in Bookings :
            booking[b].intent = i /\ booking[b].status = "confirmed"

\* Money can only come in for an intent some row carries: whatever failed on
\* the way, the webhook never meets a payment it cannot place
\* (ErrBookingNotFound is logged for an unknown booking and dropped).
PaidIsPlaced ==
    \A i \in Bookings :
        payment[i] = "paid" => \E b \in Bookings : booking[b].intent = i

\* The gateway stops asking only about payments that confirmed their booking
\* or that a person was told of.
AckedIsSettled ==
    \A i \in acked : i \in reported \/ i \in stripeEvents

\* Nobody is refunded for a slot he has: a payment a person is told of, once or
\* by an event that comes again, is for a booking whose slot went back (ErrHoldLapsed).
RefundsAreDue ==
    \A i \in reported : \A b \in Bookings :
        booking[b].intent = i => ~StillHolding(b)

\* Until its hold runs out, a slot whose payment secret went out is not given
\* back by anything: not a declined card, a failed request, a stale sweep.
\* (A sweeper's clock may be ClockSkew ahead.)
NoEarlyRelease ==
    [][\A b \in secrets :
        StillHolding(b) /\ ~StillHolding(b)' => HoldHasLapsed(b, now + ClockSkew)]_vars

\* A standing confirmed booking stays standing and confirmed: no sweep,
\* undo, repeated or out-of-order event takes it back.
ConfirmedStays ==
    [][\A b \in Bookings :
        StillHolding(b) /\ booking[b].status = "confirmed"
            => booking'[b].status = "confirmed" /\ ~booking'[b].cancelled]_vars

\* When Book answers 201 the hold still stands and has time left: AttachPayment
\* does not ask, and relies on the request dying before the hold.
AnsweredWhileHeld ==
    [][\A b \in Bookings :
        request[b].pc # "answered" /\ request'[b].pc = "answered"
            => ~booking'[b].cancelled /\ now < booking'[b].expires]_vars

\* A hold that ran out does not block its slot for ever (sweeper.go:13): it is
\* released, or a payment confirms it.
LapsedHoldsEnd ==
    \A b \in Bookings :
        StillHolding(b) /\ HoldHasLapsed(b, now)
            ~> ~StillHolding(b) \/ booking[b].status = "confirmed"

\* Every payment is settled in the end: its booking is confirmed or a person
\* is told, through crashes, lost answers and duplicates.
PaymentsSettle ==
    \A i \in Bookings : payment[i] = "paid" ~> i \in reported \/ i \in stripeEvents

\* A delivery that ends before the hold could have lapsed on any clock is not
\* put aside for a refund, and the booking it confirms has its slot: the read
\* before the transaction is safe until then (HandlePaymentEvent, booking.go:250).
InTimeIsKept ==
    [][\A i \in Bookings : now + ClockSkew < booking[i].expires =>
        /\ i \notin reported => i \notin reported'
        /\ i \notin stripeEvents /\ i \in stripeEvents' => StillHolding(i)']_vars

\* What each booking has of its slot, in the ledger's words.
LedgerOf(b) ==
    CASE booking[b].status = "none" -> "nothing"
      [] booking[b].status # "none" /\ ~StillHolding(b) -> "released"
      [] StillHolding(b) /\ booking[b].status = "pending_payment" -> "held"
      [] StillHolding(b) /\ booking[b].status = "confirmed" -> "sold"
LedgerView == [b \in Bookings |-> LedgerOf(b)]

\* When its hold ends, or ended; a confirmation clears it in the row.
HoldEnds(b) ==
    IF booking[b].status = "none" THEN Never ELSE request[b].start + PaymentHold
HoldEndsView == [b \in Bookings |-> HoldEnds(b)]

\* Its payment: only an intent its row carries can be paid.
PaymentOf(b) ==
    CASE booking[b].intent = NoIntent                         -> "none"
      [] booking[b].intent # NoIntent /\ payment[b] # "paid" -> "open"
      [] booking[b].intent # NoIntent /\ payment[b] = "paid" -> "paid"
PaymentView == [b \in Bookings |-> PaymentOf(b)]

Holds == INSTANCE HoldLedger
    WITH ledger <- LedgerView, expires <- HoldEndsView, payment <- PaymentView

\* The rows and the gateway, through every interleaving, keep HoldLedger's
\* promises: a slot is taken only when free, can be paid for only while its
\* hold has time left, is sold only for money that came in, and goes back
\* early only when nobody can pay for it (Book, ConfirmPaid, sweeper.go).
ImplementsHoldLedger == Holds!Spec

-----------------------------------------------------------------------------
(* What comments and docs say and the code does not keep: each is checked  *)
(* by a run of its own that finds it violated.                             *)

\* "Confirming would double book it, so the payment needs refunding instead"
\* (booking.go:250): a confirmed booking holds its slot.
ConfirmedHoldsSlot ==
    \A b \in Bookings : booking[b].status = "confirmed" => StillHolding(b)

\* "the server would refuse the payment anyway" (CourtResult.tsx:31): a payment
\* made after the hold ran out confirms nothing.
LatePaymentRefused ==
    \A i \in late : i \notin stripeEvents

\* "Past this the booking is still paid for and still confirms"
\* (MyBookings.tsx:13): a payment made in time is never left for a refund.
PaidInTimeConfirms ==
    \A i \in reported : i \in late

\* "Nothing can pay for this hold now, so it goes back rather than sitting on
\* the slot until it lapses" (booking.go:120): a Book that could not open a
\* payment ends with its hold cancelled.
UnpayableHoldGoesBack ==
    [][\A b \in Bookings :
        request[b].pc = "undoing" /\ request'[b].pc = "refused"
            => ~StillHolding(b)']_vars
=============================================================================
