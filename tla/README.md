# Deuce, specified

Deuce lets players book two-hour slots on sports courts and pay for them by card. This directory holds TLA+ models of
its core, the TLC runs that check them on small instances, and TLAPS proofs of the same properties for every size.

- [The system](#the-system): its parts, their state and what is hard about them
- [What is modelled](#what-is-modelled): the modules and how they correspond to the code
- [The runs](#the-runs): what TLC checks, with which bounds and fairness
- [The proofs](#the-proofs): the theorems, the inductive invariants and their assumptions
- [Where the code and its comments disagree](#where-the-code-and-its-comments-disagree)
- [What is not modelled](#what-is-not-modelled) and [the plan](#the-plan)

Paths are relative to the repository's root. To run something, in this directory:

    tlc -workers 2 -config BookingRace.cfg MCBookings
    tlapm BookingsProofs.tla

## The system

One API server (any number of replicas, `cmd/deuce`), one sweeper (`cmd/sweeper`; two overlap in a rolling restart), a
PostgreSQL database, a Redis cache, the payment gateway (Stripe) and a web application. The processes share nothing but
the database and Redis. No lock is held across two calls, the database runs at READ COMMITTED, and the only transaction
of more than one statement is `ConfirmPaid`. What the system guarantees about concurrent requests it owes to two unique
indexes, to the row locks of single UPDATEs and to the thirty seconds a request may live.

| Component | State it keeps | Operations | What makes it correct |
| --- | --- | --- | --- |
| Booking use case (`usecase/booking.go`) | none of its own; `bookings`, intents | `Book`, `ResumePayment`, `HandlePaymentEvent`, `Availability`, `ListForPlayer` | one holder per slot; no hold without a way to pay it; every payment placed and settled |
| Booking entity rules (`entity/booking.go`) | none | `StillHolding`, `HoldHasLapsed`, `AwaitsPayment`, `ValidateSlot`, `SlotsOn` | what is offered is what is accepted; windows never overlap |
| Booking repository (`booking_repo.go`, `booking.sql`, migration 8) | `bookings`, `stripe_events` | `HoldSlot`, `AttachPayment`, `CancelBooking`, `ConfirmPaid`, `ReleaseLapsedHolds` and reads | the partial unique index decides every race; event and confirmation commit together |
| Sweeper (`cmd/sweeper`, `usecase/sweeper.go`) | its clock | one pass a tick | lapsed holds end, no others do |
| Webhook and gateway adapter (`httpapi/webhook.go`, `payment/stripe`) | the gateway's intents and events | `CreatePayment`, `GetPayment`, parse an event, answer 204 or 500 | 204 only for what is settled or reported |
| Sessions (`usecase/auth.go`, `session_repo.go`, `cache/redis`) | `sessions`, cache entries | `Login`, `Authenticate`, `Logout` | expiry, logout and deactivation take hold despite the cache |
| Accounts (`usecase/user.go`, `user_repo.go`) | `users` | `Register`, `Get` | one account per e-mail and phone number, no half-made account |
| Venues and cities (`usecase/venue.go`, `city.go`) | `venues`, `cities` | `Create`, `ListByOwner`, `Search` | only active owners create; timezone is the city's |
| Courts (`usecase/court.go`, `entity/court.go`) | `courts` | `Create`, `ListByVenue`, `Search` | search shows what `Book` would take; price fits its column |
| HTTP plumbing (`httpapi`) | none | decode, authenticate, time out, encode | a request dies after thirty seconds |
| Web application (`web/src`) | React state | countdown, payment form, list, polling for a confirmation | what it shows agrees with the rows, however late and in whatever order answers come |
| The rest: bcrypt, configuration, `apperr`, start and stop, generated code, mocks, OpenAPI, `deploy/`, e2e | none that a step changes | | |

How they interact. `Book` makes five calls in a row: it reads the player and the court with its venue, then come
`HoldSlot`, `CreatePayment` at the gateway and `AttachPayment`; when `CreatePayment` fails, `CancelBooking` instead. The browser pays
the gateway directly with the client secret it got. The gateway tells the webhook, as often as it takes to get a 204,
and the webhook reads the booking and then confirms it in a transaction that also records the event. Meanwhile the
sweeper cancels whatever has run out. So four independent parties (requests, browsers, deliveries, sweepers) write to
one row, and each acts on what it read some calls ago.

What is hard, with the line where it bites, is listed under `hazards` in `PROJECT.json`: read-then-write across calls
(webhook and sweeper, cache fill and logout, resume and sweep), answers lost after the write happened (insert, intent,
attachment, commit), a cleanup on the very context whose end made it necessary, duplicate and late events, two clocks, TTLs at zero,
holds that could stay for ever, windows that the index does not keep from overlapping, 32-bit prices, two sign-ups with one
e-mail, checks that are stale when the insert comes, a page whose loads overtake each other and whose clock is not the
server's. Three have no property: local hours on days the clocks change, two sweeps that lock the same rows in different orders,
and a stale "awaiting payment" that stays on the page over a confirmed booking, which the code allows.

## What is modelled

| Module | What it is |
| --- | --- |
| `SlotLedger` | abstract: what booking promises about slots, nothing about how |
| `HoldLedger` | abstract, a level below: when a hold runs out, who can be charged for it and when it may go back. Implements `SlotLedger` |
| `HoldLedgerProofs` | what the two ledgers promise, proved from their own actions |
| `Bookings` | detailed: Book, ResumePayment, the webhook, the sweeper, their tables, the gateway. Implements `HoldLedger` |
| `MCBookings` | instances of `Bookings` for TLC: all requests want one slot |
| `BookingsProofs` | theorems about `Bookings`, for all constants |
| `Sessions` | Login, Authenticate, Logout, the table and the cache |
| `MCSessions`, `SessionsProofs` | the same two things for `Sessions` |
| `CourtCalendar` | courts, their grid of windows, Book seen as one step, Search, Availability, prices |
| `MCCalendar`, `CalendarProofs` | the same two things for `CourtCalendar` |
| `Catalogue` | signing up, registering a venue, adding a court, and Book as far as it depends on these, over their tables |
| `MCCatalogue`, `CatalogueProofs` | the same two things for `Catalogue` |
| `Checkout` | a player's browser from the click on a slot to a paid booking; its server is an instance of `HoldLedger` |
| `MCCheckout`, `CheckoutProofs` | the same two things for `Checkout` |

A definition named `Buggy...` is the next definition with a plausible slip of the code. No specification uses it. Each
property was seen to fail with one of them in place.

### Bookings

A step is one call that leaves the process. One element of `Bookings` stands for a request, the row it may insert and
the intent it may open, as `Book` makes at most one of each.

| State | Code |
| --- | --- |
| `booking` | table `bookings`: status, whether `cancelled_at` is set, `hold_expires_at`, `payment_intent_id` |
| `stripeEvents` | table `stripe_events`; an intent has one success event, so the event is named by its intent |
| `request` | where each `Book` call stands, when it read the clock, whether its client left |
| `resuming` | `ResumePayment` calls between their database read and the gateway's answer |
| `delivery` | where each `HandlePaymentEvent` call stands; `recorded` and `updated` are inside the transaction |
| `sweep` | the `asOf` each sweeper read, until its UPDATE |
| `payment`, `declined`, `acked` | the gateway's side: intents, failure events due, success events answered 204 |
| `secrets` | intents some browser can pay |
| `reported`, `late` | history: payments logged for a person; payments made after the hold ran out |

| Actions | Code |
| --- | --- |
| `CheckSlot`, `HoldSlot`, `CreatePayment`, `CancelBooking`, `AttachPayment` | the calls of `Book`, in order, each with its failures and with an answer that got lost |
| `ClientLeaves`, `CrashBook` | the request's context cancelled; the replica dying |
| `ReadForResume`, `ResumePayment` | `ResumePayment` |
| `GetBookingByPayment`, `RecordStripeEvent`, `ConfirmBooking`, `CommitConfirm`, `AbandonDelivery` | `HandlePaymentEvent` and `ConfirmPaid`; the row and key locks are `RowLocked` and `EventLocked` |
| `StartSweep`, `ReleaseLapsedHolds`, `AbandonSweep` | a sweeper's pass |
| `PayCard`, `DeclineCard`, `ReceiveEvent` | external: the browser with the gateway, and the gateway with the webhook |

Abstractions. The reads before the insert are one step, which only decides whether the request goes on. A sweep is one
step: PostgreSQL locks its rows one by one, so two sweeps may deadlock and one of them fail, which is `AbandonSweep`.
Deliveries do not carry the request's time limit: running into it is one more error, `AbandonDelivery`. Failure events
only ever get 204 and are one step. Owner blocks are rows no code writes yet.

`HoldLedger` sees of all this three things of a booking. `LedgerView` is what it has of its slot, out of status and `cancelled_at`;
a booking confirmed after its release counts as released, for it has no slot. `HoldEndsView` is when its hold ends, which the row
forgets when it is confirmed and the request's reading of the clock still tells. `PaymentView` says whether money can come in, or has:
from the attachment on, since only then a secret can reach a browser. Requests, transactions, deliveries and sweeps are not in
the ledger, so most steps of `Bookings` are stutters there.

### Sessions

One element of `Tokens` is a session of the one account followed. A step is one call to the database or Redis, and
`PutSessionUser` is two, since it works the TTL out before it sends it. `cache[t].dies` is Redis's own expiry. No code
deactivates an account; `Deactivate` is the statement somebody would run by hand, the one the comment in
`cmd/deuce/main.go:35` has in mind. Under `CanFail` any call to Redis or the database may fail and Redis may lose entries;
Redis failures are misses, as in the code. A request that is let in (`granted`) keeps the time it came, which is what
the properties speak of.

### CourtCalendar

`Bookings` follows one slot through its calls; `CourtCalendar` has many slots and takes a whole booking as one step. Its
subject is time: an instant is a number of half hours in UTC, a zone is a constant offset, and a local date and hour are
worked out from both as `time.In` and `time.Date` do.

| State | Code |
| --- | --- |
| `court` | table `courts`: whether the row is there, `is_active` (the venue's too), opening hours, `price_per_hour` |
| `booking` | rows of `bookings` that hold a slot: court, `starts_at`, `amount`, and what the gateway was asked for |
| `search` | a `Search` or an `Availability` between its read of the courts and its read of the bookings |

| Actions and operators | Code |
| --- | --- |
| `CreateCourt`, `Int32` | `Court.Create`, `CourtRepository.CreateCourt`: checked at full width, then cut to the column's |
| `OnGrid`, `ValidateSlot`, `Book` | what `Book` accepts |
| `Instant`, `SlotsOn`, `SlotsWithin`, `Search`, `Availability` | what a player is offered, computed the other way round: from local hours to instants |
| `Booked`, `Answer` | the one range of `starts_at` read for all the courts, and what is left |
| `Release`, `CloseCourt` | a hold swept or undone; external: a court or venue deactivated by hand |

The two ways of computing windows share `ValidateSlot` and nothing else, so `OfferedIsAccepted` compares `SlotsOn` with a
definition that does not step at all: every instant within the horizon that `Book` would take and that falls on the
date. Abstractions: offsets are constant, as that of the one zone in the seeded cities (Asia/Ho_Chi_Minh) is. A court's
zone is its venue's, which is copied from the city when the venue is created, so courts of one city may have different zones once a
city's row is edited; the code works zone by zone, and so does the model. The name of a court and the owner of its
venue are left to `Catalogue`. The hours `Search` and `CreateCourt` get are any, right or wrong.

### Catalogue

Four POST requests, each of which reads rows of other tables in statements of their own and then inserts one row. No
transaction spans them. A step is one SQL statement; one element of `Accounts`, `Venues`, `Courts` or `Holds` is a request
and the row it may insert.

| State | Code |
| --- | --- |
| `user`, `venue`, `court`, `hold` | the tables; `off` is when somebody set `is_active` to false, of `hold` only who and where is kept |
| `register`, `create`, `add`, `book` | where each `User.Register`, `Venue.Create`, `Court.Create` and `Booking.Book` call stands, when it began, what it asks for, and its answer |

| Actions and operators | Code |
| --- | --- |
| `createUser`, `toEntityRole`, `Validate`, `CreateUser`, `Clashes`, `ErrorOf` | `POST /users`: the role on the wire, validation, the insert, and which of two broken constraints is told |
| `createVenue`, `GetOwner`, `MayRegister`, `CreateVenue` | `POST /venues`: the owner read again, the insert that selects the city's timezone and inserts nothing when there is no such city |
| `createCourt`, `GetVenue`, `MayAdd`, `CreateCourt` | `POST /venues/{venueID}/courts` |
| `createBooking`, `GetPlayer`, `MayBook`, `GetCourtWithVenue`, `HoldSlot` | `POST /courts/{courtID}/bookings` up to its insert |
| `requireAuth` | who is let in: not by the account's row but by what the session cache knew. A request that came less than `Grace` after a deactivation still is, which is what `DeactivationTakesHold` of `Sessions` leaves; it may have come a while before the step that lets it in |
| `KindOf`, `statusFor`, `Status` | `apperr` and `response.go`: the status each error is answered with |
| `DeactivateUser`, `DeactivateVenue`, `DeactivateCourt` | external: no code deactivates anything |

Every statement may fail, and an insert may commit and lose its answer (`CanFail`). A statement takes effect before its
request's context ends or not at all: a commit that lands after the deadline, the answer being lost, would add a network's
delay to the bounds of `CreatedInTime`. Abstractions: the order of two broken constraints is left open, as PostgreSQL leaves
it; a form is one of a set, with one flag for whether its e-mail, password and phone number pass; whether a slot is taken is
`Bookings`' subject, and whether it is on the grid `CourtCalendar`'s, so here both go either way.

### Checkout

Two sections of `SignedIn` can take a payment. "Book" has a `CourtResult` card for each court of a search, "bookings" has
`MyBookings` with a `PendingBooking` for each hold. Both put up a countdown and a `PaymentForm`.

| State | Code |
| --- | --- |
| `section`, `form` | which section is up; for each booking whether its form is being asked for, open, paying, or done |
| `posted`, `resuming`, `confirming`, `background` | `createBooking` calls that have yet to take their slot, `resumePayment` and `confirmPayment` calls not answered yet; a card taken down while it awaits still gets its answer |
| `list`, `loader` | what `setBookings` last got, and each run of `load` or `awaitConfirmation` with the answer on its way to it |
| `drift`, `reading` | how far the browser's clock is off, and what it said when the countdowns were last drawn |
| `now`, `ledger`, `expires`, `payment` | the server, as `HoldLedger` has it: rows, `hold_expires_at`, the intents rows carry |
| `charging` | payments the gateway was asked for and has not made |

| Actions | Code |
| --- | --- |
| `ClickSlot`, `HoldSlot`, `AnswerBook` | `CourtResult.book`, the hold its POST takes, and the answer: a secret, a refusal, or lost with the request still running |
| `OpenPayment`, `ResumePayment` | `PendingBooking.openPayment`, and its POST; a 409 loads the list again |
| `Submit`, `Cancel`, `Succeeded`, `NotSucceeded`, `AnsweredInBackground` | `PaymentForm.handleSubmit` before and after its await, and `onPaid` of a form that is up or gone |
| `Reload`, `ListForPlayer`, `ShowList`, `LoadFails`, `Poll`, `Watch` | `load` and `awaitConfirmation`: the request, the server's read, its arrival, a failure, the next attempt |
| `ShowBookings`, `ShowBook`, `Countdown` | the sections put up and taken down; the interval of `useCountdown` |
| `Charge`, `AttachPayment`, `CancelBooking`, `Confirm`, `Sweep` | what happens elsewhere: the gateway, the rest of the POST, the webhook and the sweeper |

The server's steps are `Take`, `Open`, `Pay`, `Sell`, `Undo` and `Lapse` of `HoldLedger`, which `Bookings` is proved to implement, and
`CheckoutKeepsHolds` says that these are all `Checkout` does to it. So the page is written against what the server promises and
nothing more: a hold may be taken a request's length after it was asked for, go back again before its secret was sent, and be
sold or swept whenever the ledger allows. Abstractions:

- The taking of a hold and the answer to its POST are steps of their own, and the answers to `GET /bookings` travel, as several
  are under way at once; `resumePayment` takes effect when it is answered. When all of `Loaders` are busy a further load waits.
- A form put up anew for a hold waits for what an earlier form of the same hold has under way.
- A booking confirmed after its release, which `booking_paid_after_release` shows can be, counts as released: the list does not
  show it, since `cancelled_at` is set.
- The countdown lags by no more than `Lag`, so the tab is awake. A tab that slept draws a stale countdown until it wakes.
- A 401, which signs the player out and takes everything down, and the search itself are left out. A search that fails and takes
  its cards down is `ShowBook` from "book".

## The runs

| Run | Asks | Shows |
| --- | --- | --- |
| `booking_race` | two players after one slot, all faults, a sweeper running ahead | one holder; payments placed; holds not released early; no 201 for a lapsed hold; payments settled in time never put aside; `HoldLedger` implemented |
| `booking_liveness` | two deliveries of one event, a sweep, crashes and failures without end, fairness | event on record iff confirmed; 204 only when settled; nobody refunded for a slot he has; confirmed bookings stay; lapsed holds end; payments settle |
| `sessions` | two requests, a logout, failing cache and database | entries die with their session; logout and deactivation take hold; expiry always enforced |
| `calendar` | two courts in two zones, bookings and releases during a search | bookings never overlap; what is offered is what is accepted; what is called free is free |
| `catalogue` | two sign-ups that clash or not, a venue, two courts, a hold, deactivations and failures in between | answers tell what was written; one winner per key; conflicts are real; rows are well owned; stale checks are bounded |
| `checkout` | a slot booked, lost and booked again in two sections, clocks apart, answers out of order | forms end with holds; "confirmed" is true; one form at most asks for a slot's price; polls end, and early only on news |
| `calendar_amount` | a price that fits, one whose slot does not fit | one comment the code does not keep |
| `booking_paid_after_release`, `booking_paid_late`, `booking_paid_in_time`, `booking_undo`, `sessions_logout` | no fault at all | one comment each that the code does not keep, [below](#where-the-code-and-its-comments-disagree) |

Bounds, and why they are enough.

- Two bookings for one slot. Bookings for different slots never touch each other's row, key or intent. With two for
  one slot it can be held, released and taken again, or sold while the first player pays, which is every conflict the index
  settles. The proofs cover more.
- `booking_race`: `PaymentHold` 3, `RequestTimeout` 2, `ClockSkew` 1, `MaxTime` 3: the ordering of the real values (fifteen
  minutes, thirty seconds) with room for a hold to be taken a step after it was asked for, lapse by the sweeper's clock, be swept
  and taken again. These are at the edge of `TimeoutAssumption`, and so of what is promised. The other booking runs
  have 2, 1, 0 and 3: a hold can be taken, lapse, be swept and taken again, and a request still time out.
- Two deliveries where duplicates matter. A third would find what the second finds: the key held or on record.
- One sweeper; `ReleaseLapsedHolds` reads nothing but its `asOf`, and the stale `asOf` of a second sweeper is one the first may have.
- Sessions: TTL 5, cache 2, timeout 2, `MaxTime` 5. A session outlives `Grace` = 4, so a logout can be followed by
  requests within and beyond the grace, and expiry is reached too. Two requests, so that one fills while the other uses.
- Calendar: 26 half hours of horizon from noon UTC reach past both courts' midnight, so each has windows on both dates asked
  for and windows cut off by either end of the horizon. Opening hours 2 to 5 leave an hour that fits no window, 5 to 24 put
  the grid on odd hours, up to midnight. The zones are UTC+7 and UTC+5:30. The clock ticks once, which is enough for a window to
  pass between the two reads of a search. `ColumnLimit` 8 stands for 2^31. Two bookings suffice for an overlap and for a range of time
  that leaves one out.
- One booking in `booking_liveness`. Deliveries of two events at once write to different rows and keys, and are in the proofs only.
- Catalogue: two accounts and five forms (two that share an e-mail, two that share a phone number, one with a role no form
  may name, one that does not validate), one venue, two courts of one name, one hold, one city and one that is not there. A
  third sign-up would clash with one of the two. `RequestTimeout` 1, `Grace` 2, `MaxTime` 1: a request that began before a
  deactivation ends after it, and one that comes after it is still let in. Time is too short for the `Grace` part of `CreatedInTime`
  to be broken here: TLC checks its `RequestTimeout` part, and `CreationIsTimely` proves both.
- Checkout: one slot booked twice, by two clicks of the player, of which the second needs the first released. Two loads overtake each other.
  Two attempts stand for ten: one is used, then the last. Hold 2, time limit, skew and lag 1, `MaxTime` 4: the slot begins at 1, so
  a hold lapses, is swept and taken again, or lapses after its slot has begun, on a browser that is one ahead or one behind.
  On the one behind, a form can still be up when its hold was swept and the next is taken: what `OneFormPerSlot` is about.
- Deadlock is checked in every run but `catalogue`: the clock stops at `MaxTime`, but sweepers, requests, searches and sections can
  always take another step. In `catalogue` every request is made once, so the model stops when all are answered.

Fairness is assumed in `booking_liveness` only. `SweeperFairness`: the ticker loop of `cmd/sweeper/main.go` has no exit but shutdown
and ignores a failed pass, so passes begin (weak fairness), and a pass that may fail again and again does not always
fail (strong fairness). `GatewayFairness`: the gateway
redelivers until it gets a 2xx, and the steps of handling an event that are attempted again and again do not always fail.
Nothing is assumed of players, browsers, `Book` requests or the clock. The two liveness properties need no player to act.

## The proofs

Every safety property the passing runs check is also a theorem, for any number of requests, slots, deliveries, sweepers,
tokens, accounts and loads and any durations within the assumptions. The assumptions are those of the modules' ASSUMEs. The one with
content is `TimeoutAssumption`: a request's time limit plus the clock skew is no more than a hold. The code has it at
thirty seconds plus skew against fifteen minutes.

| Theorem | Says |
| --- | --- |
| `TypeCorrect`, `SlotHeldOnce`, `EventsMatchBookings`, `PaymentsArePlaced`, `AcksAreSettled` | the invariants of `booking_race` and `booking_liveness` |
| `NeverReleasedEarly`, `ConfirmedIsForGood`, `AnswersComeInTime` | their action properties |
| `RefundsAreAllDue`, `TimelyPaymentsAreKept` | what remains true of the comments `booking_paid_after_release` and `booking_paid_in_time` refute: only lost slots are refunded, and a payment settled before the hold could have lapsed keeps its slot |
| `HoldLedgerImplemented`, `SlotLedgerImplemented` | `Spec => Holds!Spec` and, a level up, `Spec => Holds!Slot!Spec`: the rows implement both ledgers |
| `PromisesKept` | so all `HoldLedger` promises is true of the rows |
| `OneOccupantAlways`, `SoldAndReleasedForGood` | what `SlotLedger` promises, from its own actions |
| `HoldsKept`, `HoldsImplementSlots` | what `HoldLedger` promises, for any durations: sold means paid, what can be paid for is lost to the clock only and has been taken, and no hold is dated more than `PaymentHold` ahead; that it implements `SlotLedger` |
| `CalendarTyped`, `BookingsDoNotOverlap` | the invariants of `calendar` |
| `OffersAreAccepted`, `FreeMeansFree` | its action properties |
| `AmountsAreCosts` | when the comment `calendar_amount` refutes does hold: if twice any price an owner sends is below 2^31 |
| `SessionsTyped`, `EntriesEndWithSessions`, `LogoutsTakeHold`, `DeactivationsTakeHold`, `ExpiryIsEnforced` | the invariants of `sessions` |
| `CatalogueTyped`, `AnswersCanBeTrusted`, `KeysHaveOneWinner`, `ClashesAreTrue`, `RowsAreWellOwned` | the invariants of `catalogue` |
| `CreationIsTimely` | its action property |
| `CheckoutTyped`, `ConfirmedMeansSold`, `CountdownsAreHonest`, `OneFormAtATime` | the invariants of `checkout` |
| `PollsStopForGoodReason` | its action property |
| `CheckoutKeepsHolds` | `Spec => Server!Spec`: the page and its server do nothing `HoldLedger` does not allow |

The argument for `Bookings`. The properties are not inductive by themselves; `Inv` in `BookingsProofs` adds to them:

- `Linked`: a request, its row and its intent move together, and only a row that carries its intent is ever paid for.
  Gives `PaymentsArePlaced`.
- `Holding`: while `Book` is under way its row is the hold it inserted, counted from its own reading of the clock, and no
  sweep runs ahead of the clock by more than the skew. With the time limit this gives `AnswersComeInTime`: an attachment
  happens before `start + RequestTimeout`, and a sweep takes only holds that end by `now + ClockSkew`.
- `Serial`: a delivery past the read is about an intent some row carries, and two never have the same event inserted at once.
- `Settled`: the two tables a confirmation writes agree. Gives `EventsMatchBookings`.
- `Dated`: until it is confirmed a row's hold is counted from the clock its request read, whatever became of the request. This is
  what lets the ledger still know when a hold ended.
- `Owed`: only payments that came in are delivered. Gives the ledger's "sold means paid".
- `Refunded`: what was reported carries its intent and is cancelled, and cancelled is for good. Gives `RefundsAreAllDue`,
  also for an event that comes again after its booking was confirmed.

Each conjunct has a lemma per group of actions. The action properties follow from `Inv` and the step.

The argument for the ledgers goes once through each level. `HoldLedgerProofs` shows what the ledgers promise, from their own actions and no
code: only what nobody can pay for is undone, all else has to lapse first, so what can be paid for is lost to the clock only.
`HoldLedgerImplemented` maps each step of `Bookings` to one of `HoldLedger` or to a stutter. The guards to be shown are that the slot
is free (`OneHoldPerSlot` seen from the row about to be inserted), that a hold was asked for less than a request's length ago (the
context is looked at when the insert is sent), that an intent is attached while its hold has time left (`Holding` and
`TimeoutAssumption`), that an undone hold has no intent (`Holding`), and that what is confirmed was paid for (`Owed`). A commit that comes after a
sweep is a stutter: the row says "confirmed", the ledger goes on saying "released". The promises then come down to
`Bookings` (`PromisesKept`) and to the server of `Checkout` by naming the proof module once more under the refinement mapping.

Three comments of the code are refuted by runs, and the theorems give the bound within which they hold. `InTimeIsKept` is the
claim of `booking.go:250` and `MyBookings.tsx:13` for every step taken before the hold could have lapsed on any clock; it needs `Inv` only.
`AmountsAreCosts` is `entity/booking.go:50` for prices whose slots fit their column. For a logout it is `LogoutsTakeHold`.

The argument for `Sessions`. `Inv` adds four facts, each bounding what will be used later by what was read earlier.

- `Traced`: a row, an entry, a request and a logout belong to a session that began, and carry its expiry.
- `Brief`: no entry is kept for longer than the cache's TTL, nor past its session by as much as a request lives.
- `Waning`: a change to a row leaves behind only requests that read it before, and entries and requests that go back to one of those.
- `Fading`: the same for a deactivated account.

`Grace`, which is `RequestTimeout + CacheTTL`, is their sum: a fill that read just before the row went lands up to one time limit
later, and its entry lives one cache TTL.

The argument for `CourtCalendar`. `Inv` is the types with `Opening` (a created court's hours lie within a day) and
`Gridded` (a booking is on its court's grid, and alone on its start). A court's hours are never updated, so `Gridded` stays.
What remains is arithmetic, in lemmas about every offset and every hour. `GridApart`: two instants on one grid are the same or a slot apart,
also across midnight, where it is needed that the last window ends within the day. `InstantLocal` and `LocalInstant`:
turning a date and hour into an instant and reading an instant locally are inverse to each other. From these
`SteppingFindsAll`: stepping by the slot's width meets all of the date's bookable windows, and nothing else.

The argument for `Catalogue`. `Inv` says of each call what it may rely on, so that the insert need not look again:

- `Paired`: there is no row before a call is done, and none behind an answer that says so. Gives `AnswersCanBeTrusted`.
- `Registered`, `VenueCreated`, `CourtAdded`, `SlotBooked`: a call under way began by now, was let in by `requireAuth`, and what it has
  read since was open at its start or later (`OpenAt`). A deactivation comes after what was read before it, so with the time limit on the
  insert this gives `CreationIsTimely`. A finished call keeps its key, and a conflict keeps the row that caused it.
- `UserStands`, `VenueStands`, `CourtStands`, `HoldStands`: rows refer to rows that are there. Nothing deletes a row or changes an
  owner, a role or a name, which `RowsKept` states once for all steps. Gives `RowsAreWellOwned`.
- `Unique`: the constraints. With the link between a finished call and its row, gives `KeysHaveOneWinner`.

Each operation keeps its own calls' conjuncts by a case for each of its statements, and everyone else's by `RowsKept`.

The argument for `Checkout`. `Inv` adds to the properties what the page's state says of the rows:

- `Kept`: what `HoldLedger` promises of the rows and `OneOccupant` of `SlotLedger`, taken over from `HoldLedgerProofs`. That what can be paid
  for is lost to the clock only gives `CountdownsAreHonest`, with `now + drift <= reading + Lag`.
- `Payable`: a form is for a booking that can be paid for, since a secret comes from a row with its intent only.
- `OneForm`, `FormsListed` and `RowsApart`: a checkout is begun on a card that is free, or under a hold the list shows, and goes when
  its hold is not in the list that comes. Every answer is one read of the table, so it has one hold of a slot to pay for,
  whenever it arrives (`OneOccupant` at the moment of the read). Between them they give `OneFormAtATime`, although the list and the rows may disagree.
  `CardsPaying` keeps a card's late answer from bringing up a second form.
- `RowsTrue`, of the list and of every answer on its way: sold is for good, so a stale "confirmed" is still true. This is what makes
  overtaking harmless in that direction.
- `Watching`: an answer on its way to a poll that says anything but pending was read when the booking had left "held", or
  after its slot began. Gives `PollsStopForGoodReason`.
- `Counted` and `Quiet`: a poll that waits has an attempt left, and nothing loads while the list is down.

Only model-checked: `LapsedHoldsEnd` and `PaymentsSettle`, since the prover does not do liveness under fairness. TLC also checks
`ImplementsHoldLedger` on `booking_race`, where every action of the ledger is taken.

## Where the code and its comments disagree

Each of these is a run that finds the comment's claim violated, with no fault needed.

1. `booking_paid_after_release`. `usecase/booking.go:250-252` says confirming a released booking would double book it. The
   check is made before the transaction and `ConfirmBooking` updates by id alone, so a sweep in between leaves a
   confirmed booking that holds nothing, answered 204 and not reported.
2. `booking_undo`. `usecase/booking.go:120-121`: a hold that nothing can pay "goes back". The undo uses the context of
   the request; when that context is what ended, the undo fails too.
3. `booking_paid_late`. `web/src/CourtResult.tsx:31-32`: "the server would refuse the payment anyway". Nothing does, until a sweep.
4. `booking_paid_in_time`. `web/src/MyBookings.tsx:13-14`: a paid booking "still confirms" however late the webhook. Not after a sweep.
5. `sessions_logout`. `usecase/auth.go:121-122`: the eviction before the row's deletion is to leave nothing usable in the cache. A
   request that read the row before can put it back after. `LogoutTakesHold` is the bound that does hold.

6. `calendar_amount`. `entity/booking.go:50-51`: "Amount is what the slot cost when it was held". A price per hour of
   2^30 or more passes `Validate`; its slot costs 2^31 or more, the row keeps the low 32 bits, and the gateway is asked for the whole. Whether the
   gateway takes so large an amount is not this code's to say. From 2^31 on the court's own price is cut as well.

Noticed on the way, without a run: `httpapi/booking.go:26-27` and `web/src/api.ts:255-256` say the client secret
is sent once, and `ResumePayment` sends it again; deactivation takes hold after the cache's TTL plus a request's time, not the TTL alone
(`cmd/deuce/main.go:35-36`); `auth.go:94-95` says rejections are not cached, yet an inactive account's entry is.

Noticed while modelling `Catalogue` and `Checkout`, also without a run:

- `POST /venues` has no key of its own: tried again after a lost answer, it makes a second venue.
- `Court.Create` never reads the owner's account, as `Venue.Create` does; `CreatedInTime` has `Grace` more for it.
- The query `UpdateVenue`, which nothing calls, would change a venue's city and leave its timezone.
- After a lost answer to the POST of a booking, the player who tries again is told "Someone just took that slot" of his own hold.
- `PaymentForm.tsx:48` says "Nothing has been charged" of every failure that is not the card's, also when the answer was lost.
- `CourtResult` shows "booked" once the card went through, though the webhook may find the hold released; and nothing polls
  for it, so `MyBookings`, put up right after, may list it as awaiting payment, with a button to pay, until something loads it again.
- Of two answers that overtake each other the older may arrive last (`MyBookings.tsx:26`), and a confirmed booking is shown as
  awaiting payment after the poll has ended, until something loads the list again. No property forbids it. `ShownConfirmedIsSold` is
  the direction that holds.
- `httpapi/booking.go:43-45` says a client counts down against the server's clock; `useCountdown.ts:44` reads the browser's.
- `PaymentForm.tsx:70-71` keeps no Pay button beside a settled payment, but only until the form is mounted anew.
- `CourtResult.tsx:94` says "Search again" after a hold ran out, but the card keeps `held`, so when the same court comes up again
  all its buttons stay off.

## What is not modelled

- Signature checks of webhooks, password hashing, token generation: cryptography of libraries. `Login` stands for a
  correct password, a token is a value.
- Decoding, encoding, CORS, logging, the OpenAPI pages, configuration, wiring: no state a step changes.
- Generated code but for the statements in `*.sql.go`, mocks, seeds, `deploy/`, end-to-end tests: derived from or describing what is modelled.
- Days on which a zone changes its clocks. The two cities of the migrations are in one zone, which never does; the
  code takes any zone a row of `cities` names.
- Sweeps row by row. PostgreSQL may find two overlapping sweeps in a deadlock and fail one, which is one more failed pass.
- Reads that change nothing: the profile, lists of venues, courts and cities. Queries without a caller (`UpdateVenue`,
  `DeactivateVenue`, `UpdateUserProfile` and others) are left out: nothing runs them.
- In the web application, the pages that post one form and show its answer: sign-in, sign-up, account, venues and courts.
- That polling comes to an end is not stated as liveness: a poll counts its attempts down, which is in `CheckoutTypeOK`, but
  nothing obliges the browser's network to answer.

## The plan

1. Done: `Bookings`, `HoldLedger` and `SlotLedger`, `Sessions`, `CourtCalendar`, `Catalogue`, `Checkout`, and their proofs; `Bookings`
   gives `Checkout` its server as a refinement.
2. `CourtCalendar` with a day on which the clocks change: a gap, where `time.Date` moves a window, and a repeated hour, where
   two instants read the same. Is the grid still without overlaps, and is everything bookable still offered? The offset
   becomes a function of the instant; the theorems for constant offsets stay as they are.
3. More proofs: what `Sessions` gives `requireAuth` and `Bookings` gives `Catalogue`, as refinements instead of bounds that are taken over
   as constants, and the length of the time a stale "awaiting payment" may stay on the page.
