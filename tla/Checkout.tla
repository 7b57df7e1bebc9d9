------------------------------ MODULE Checkout ------------------------------
(***************************************************************************)
(* One player's browser from the click on a slot to a paid booking, in the *)
(* two sections of SignedIn that can pay: "book", with a CourtResult card  *)
(* for each court, and "bookings", with MyBookings and a PendingBooking    *)
(* for each hold.  Both put up a countdown and a PaymentForm.              *)
(*                                                                         *)
(* The server is HoldLedger, which Bookings implements, with all it allows *)
(* between a request and its answer.                                       *)
(*                                                                         *)
(* A component that is taken down does not cancel what it awaits.  What it *)
(* does later is kept where it reaches the server or a component still up. *)
(*                                                                         *)
(* A definition named Buggy... is the one after it with a plausible slip.  *)
(* Nothing uses it: it shows that some property would catch the slip.      *)
(***************************************************************************)
EXTENDS Integers

CONSTANTS
    Bookings,         \* clicks on a slot, their rows and their intents
    Slots,            \* each on a court, and so a card, of its own
    SlotOf,           \* the slot of each booking
    StartsAt,         \* when each slot begins
    Loaders,          \* reloads of the list and polls at once, a bound
    ConfirmAttempts,  \* confirmAttempts, ten
    PaymentHold,      \* entity.PaymentHold
    RequestTimeout,   \* of HoldLedger, as is ClockSkew
    ClockSkew,
    Drifts,           \* how far the browser's clock may be ahead of the server's
    Lag,              \* how long a countdown shows one reading of the clock
    MaxTime,          \* bound on the clock
    NoBooking         \* a reload that waits for no booking

ASSUME SlotAssumption == SlotOf \in [Bookings -> Slots] /\ StartsAt \in [Slots -> Nat]
ASSUME NoBookingAssumption == NoBooking \notin Bookings
ASSUME AttemptsAssumption == ConfirmAttempts \in Nat \ {0}
ASSUME CheckoutTimeAssumption ==
    /\ PaymentHold \in Nat \ {0} /\ RequestTimeout \in Nat \ {0}
    /\ ClockSkew \in Nat /\ MaxTime \in Nat /\ Drifts \subseteq Int
    /\ Lag \in Nat \ {0}

VARIABLES
    now,         \* the server's clock
    ledger,      \* what each row says of its slot
    expires,     \* hold_expires_at
    payment,     \* whether it has an intent, and that is paid
    charging,    \* intents the gateway was asked to charge
    drift,       \* the browser's clock minus the server's
    reading,     \* the browser's clock when the countdowns were last drawn
    section,     \* the section that is up
    form,        \* each booking's checkout in it
    posted,      \* bookings whose createBooking has yet to take a slot
    resuming,    \* bookings whose resumePayment this section awaits
    confirming,  \* bookings whose confirmPayment this section awaits
    background,  \* confirmPayments whose card was taken down meanwhile
    list,        \* the bookings MyBookings has, and whether it shows an error
    loader       \* each run of load or awaitConfirmation in MyBookings

server == <<now, ledger, expires, payment, charging>>
clocks == <<drift, reading>>
awaited == <<posted, resuming, confirming, background>>
page == <<section, form, awaited, list, loader>>
vars == <<server, clocks, page>>

Server == INSTANCE HoldLedger

Idle == [pc |-> "idle", awaits |-> NoBooking, left |-> 0, rows |-> [b \in Bookings |-> "absent"]]
Empty == [rows |-> [b \in Bookings |-> "absent"], failed |-> FALSE]

-----------------------------------------------------------------------------
(* What the page shows.                                                    *)

\* The expired hold forgotten: the form stays for as long as it is held.
BuggyLapsed(b) == FALSE

\* remaining <= 0, when the countdown was last drawn.
Lapsed(b) == expires[b] <= reading

\* Whether a PendingBooking is up for b.
Listed(b) == ~list.failed /\ list.rows[b] = "pending_payment"

\* Whether the player sees a payment form for b.
FormUp(b) ==
    /\ form[b] \in {"open", "paying"}
    /\ ~Lapsed(b)

\* A card's buttons are off while it awaits, has or has sold a slot.
CardFree(b) == \A c \in Bookings : SlotOf[c] = SlotOf[b] => form[c] = "none"

-----------------------------------------------------------------------------
(* MyBookings: loads, and awaitConfirmation, which polls.                  *)

\* setError(null) and a GET.
Reload(l) ==
    /\ loader[l].pc = "idle"
    /\ loader' = [loader EXCEPT ![l] = [Idle EXCEPT !.pc = "sent"]]
    /\ list' = [list EXCEPT !.failed = FALSE]

\* The reload a change of version or onGone causes; none when the list is not up.
ReloadIfUp ==
    \/ section = "bookings" /\ \E l \in Loaders : Reload(l)
    \/ section = "book" /\ UNCHANGED <<list, loader>>

\* The interval has passed: one more attempt.
Poll(l) ==
    /\ loader[l].pc = "waiting"
    /\ loader' = [loader EXCEPT ![l].pc = "sent", ![l].left = @ - 1]
    /\ list' = [list EXCEPT !.failed = FALSE]
    /\ UNCHANGED <<server, clocks, section, form, awaited>>

\* The payment asked, and not the row.
BuggyStatusOf(b) ==
    CASE payment[b] = "paid" -> "confirmed"
      [] ledger[b] = "held"  -> "pending_payment"
      [] OTHER               -> "absent"

\* A row's status as newBookingResponse has it; a cancelled row is not listed.
StatusOf(b) ==
    CASE ledger[b] = "held" -> "pending_payment"
      [] ledger[b] = "sold" -> "confirmed"
      [] OTHER              -> "absent"

\* The player's rows with cancelled_at IS NULL AND starts_at >= now.
PlayerBookings ==
    [b \in Bookings |-> IF StartsAt[SlotOf[b]] >= now THEN StatusOf(b) ELSE "absent"]

\* The server reads the list; its answer is on its way.
ListForPlayer(l) ==
    /\ loader[l].pc = "sent"
    /\ loader' = [loader EXCEPT ![l].pc = "read", ![l].rows = PlayerBookings]
    /\ UNCHANGED <<server, clocks, section, form, awaited, list>>

\* The list on the screen looked at, and not the one that just came.
BuggyStillPending(l) ==
    \E b \in Bookings : loader[l].awaits = b /\ list.rows[b] = "pending_payment"

\* latest.some(id and pending): the poll has not seen what it waits for.
StillPending(l) ==
    \E b \in Bookings : loader[l].awaits = b /\ loader[l].rows[b] = "pending_payment"

\* The list watched for as long as it takes.
BuggyPollsOn(l) == StillPending(l)

PollsOn(l) == StillPending(l) /\ loader[l].left > 0

\* The form kept above the list, where it outlives the hold's place in it.
BuggyFormsIn(rows) == form

\* A PendingBooking that is listed no more takes its form along.
FormsIn(rows) == [b \in Bookings |-> IF rows[b] = "pending_payment" THEN form[b] ELSE "none"]

\* setBookings, whichever load it belongs to: the answer that arrives last
\* stands.
ShowList(l) ==
    /\ loader[l].pc = "read"
    /\ list' = [list EXCEPT !.rows = loader[l].rows]
    /\ form' = FormsIn(loader[l].rows)
    /\ loader' = [loader EXCEPT ![l] =
          IF PollsOn(l)
          THEN [Idle EXCEPT !.pc = "waiting", !.awaits = loader[l].awaits, !.left = loader[l].left]
          ELSE Idle]
    /\ UNCHANGED <<server, clocks, section, awaited>>

\* A GET that fails ends the poll it belongs to and hides the list, its forms
\* with it, until something loads again.
LoadFails(l) ==
    /\ loader[l].pc = "sent"
    /\ loader' = [loader EXCEPT ![l] = Idle]
    /\ list' = [list EXCEPT !.failed = TRUE]
    /\ form' = [b \in Bookings |-> "none"]
    /\ UNCHANGED <<server, clocks, section, awaited>>

-----------------------------------------------------------------------------
(* Getting a form: the click on a slot, or on Pay in the list.             *)

Answered(b, to) == form' = [form EXCEPT ![b] = IF @ = "asking" THEN to ELSE @]

ClickSlot(b) ==
    /\ section = "book" /\ CardFree(b)
    /\ ledger[b] = "nothing" /\ b \notin posted
    /\ form' = [form EXCEPT ![b] = "asking"]
    /\ posted' = posted \cup {b}
    /\ UNCHANGED <<server, clocks, section, resuming, confirming, background, list, loader>>

\* POST /courts/{courtID}/bookings takes the slot, which had not begun when the
\* clock was read.
HoldSlot(b) ==
    /\ b \in posted
    /\ now < StartsAt[SlotOf[b]] + RequestTimeout
    /\ Server!Take(b)
    /\ posted' = posted \ {b}
    /\ UNCHANGED <<charging, clocks, section, form>>
    /\ UNCHANGED <<resuming, confirming, background, list, loader>>

\* createBooking returns with a secret, which only a row with its intent has,
\* or fails: refused, undone, or its answer lost and the request still running.
AnswerBook(b) ==
    /\ section = "book" /\ form[b] = "asking"
    /\ \/ /\ payment[b] # "none"
          /\ Answered(b, "open")
          /\ UNCHANGED posted
       \/ /\ posted' \in {posted, posted \ {b}}
          /\ Answered(b, "none")
    /\ UNCHANGED <<server, clocks, section, resuming, confirming, background, list, loader>>

OpenPayment(b) ==
    /\ section = "bookings" /\ Listed(b) /\ ~Lapsed(b)
    /\ form[b] = "none" /\ b \notin resuming
    /\ form' = [form EXCEPT ![b] = "asking"]
    /\ resuming' = resuming \cup {b}
    /\ UNCHANGED <<server, clocks, section, posted, confirming, background, list, loader>>

AwaitsPayment(b) == ledger[b] = "held" /\ now < expires[b]

\* POST /bookings/{bookingID}/payment: the secret, a 409 on which the list is
\* loaded again, or some other failure.  With the secret comes what the row was
\* when it was read: the hold may have ended meanwhile.
ResumePayment(b) ==
    /\ b \in resuming
    /\ resuming' = resuming \ {b}
    /\ \/ /\ payment[b] # "none"
          /\ Answered(b, "open")
          /\ UNCHANGED <<list, loader>>
       \/ /\ ~AwaitsPayment(b)
          /\ Answered(b, "none")
          /\ \E l \in Loaders : Reload(l)
       \/ /\ Answered(b, "none")
          /\ UNCHANGED <<list, loader>>
    /\ UNCHANGED <<server, clocks, section, posted, confirming, background>>

-----------------------------------------------------------------------------
(* PaymentForm.                                                            *)

\* handleSubmit up to its await.  A form put up anew
\* waits for what an earlier one of the same hold has under way.
Submit(b) ==
    /\ FormUp(b) /\ form[b] = "open" /\ b \notin confirming
    /\ form' = [form EXCEPT ![b] = "paying"]
    /\ confirming' = confirming \cup {b}
    /\ charging' = IF payment[b] = "open" THEN charging \cup {b} ELSE charging
    /\ UNCHANGED <<now, ledger, expires, payment>>
    /\ UNCHANGED <<clocks, section, posted, resuming, background, list, loader>>

\* onCancel, which is off while paying.
Cancel(b) ==
    /\ FormUp(b) /\ form[b] = "open"
    /\ form' = [form EXCEPT ![b] = "none"]
    /\ UNCHANGED <<server, clocks, section, awaited, list, loader>>

\* awaitConfirmation, before its first interval.
Watch(b, l) ==
    loader' = [loader EXCEPT ![l] =
        [Idle EXCEPT !.pc = "waiting", !.awaits = b, !.left = ConfirmAttempts]]

\* The card has gone through, whether or not its form is still up.
Succeeded(b) ==
    /\ b \in confirming /\ payment[b] = "paid"
    /\ confirming' = confirming \ {b}
    /\ \/ /\ section = "book"
          /\ form' = [form EXCEPT ![b] = "done"]
          /\ UNCHANGED loader
       \/ /\ section = "bookings"
          /\ form' = [form EXCEPT ![b] = IF @ = "paying" THEN "done" ELSE @]
          /\ \E l \in Loaders : loader[l].pc = "idle" /\ Watch(b, l)
    /\ UNCHANGED <<server, clocks, section, posted, resuming, background, list>>

\* Declined, or still processing, or nobody knows: the form can be sent again.
NotSucceeded(b) ==
    /\ b \in confirming
    /\ confirming' = confirming \ {b}
    /\ form' = [form EXCEPT ![b] = IF @ = "paying" THEN "open" ELSE @]
    /\ charging' \in {charging, charging \ {b}}
    /\ UNCHANGED <<now, ledger, expires, payment>>
    /\ UNCHANGED <<clocks, section, posted, resuming, background, list, loader>>

\* The answer to a card no longer up: onBooked still changes the version.
AnsweredInBackground(b) ==
    /\ b \in background
    /\ background' = background \ {b}
    /\ \/ payment[b] = "paid" /\ ReloadIfUp
       \/ UNCHANGED <<list, loader>>
    /\ UNCHANGED <<server, clocks, section, form, posted, resuming, confirming>>

-----------------------------------------------------------------------------
(* The sections, and the browser's clock.                                  *)

\* MyBookings mounts with a load.
ShowBookings ==
    /\ section = "book"
    /\ section' = "bookings"
    /\ \E l \in Loaders : Reload(l)
    /\ form' = [b \in Bookings |-> "none"]
    /\ background' = background \cup confirming
    /\ confirming' = {}
    /\ UNCHANGED <<server, clocks, posted, resuming>>

\* From the other section, or a search that failed and took the cards down.
ShowBook ==
    /\ section' = "book"
    /\ form' = [b \in Bookings |-> "none"]
    /\ background' = IF section = "book" THEN background \cup confirming ELSE background
    /\ resuming' = {} /\ confirming' = {}
    /\ list' = Empty
    /\ loader' = [l \in Loaders |-> Idle]
    /\ UNCHANGED <<server, clocks, posted>>

\* setInterval of useCountdown.
Countdown ==
    /\ reading # now + drift
    /\ reading' = now + drift
    /\ UNCHANGED <<server, drift, page>>

\* A countdown never lags by more than its interval.
Tick ==
    /\ now < MaxTime
    /\ now + 1 + drift <= reading + Lag
    /\ Server!Tick
    /\ UNCHANGED <<charging, clocks, page>>

-----------------------------------------------------------------------------
(* What happens elsewhere: the gateway, the rest of POST /bookings, the    *)
(* webhook and the sweeper, whenever HoldLedger lets them.                 *)

Charge(b) ==
    /\ b \in charging
    /\ Server!Pay(b)
    /\ charging' = charging \ {b}
    /\ UNCHANGED <<clocks, page>>

AttachPayment(b) == Server!Open(b) /\ UNCHANGED <<charging, clocks, page>>
CancelBooking(b) == Server!Undo(b) /\ UNCHANGED <<charging, clocks, page>>
Confirm(b) == Server!Sell(b) /\ UNCHANGED <<charging, clocks, page>>
Sweep(B) == B # {} /\ Server!Lapse(B) /\ UNCHANGED <<charging, clocks, page>>

-----------------------------------------------------------------------------
Init ==
    /\ Server!Init
    /\ charging = {}
    /\ drift \in Drifts
    /\ reading = drift
    /\ section = "book"
    /\ form = [b \in Bookings |-> "none"]
    /\ posted = {} /\ resuming = {} /\ confirming = {} /\ background = {}
    /\ list = Empty
    /\ loader = [l \in Loaders |-> Idle]

Checkout(b) ==
    \/ ClickSlot(b) \/ HoldSlot(b) \/ AnswerBook(b) \/ OpenPayment(b) \/ ResumePayment(b)
    \/ Submit(b) \/ Cancel(b) \/ Succeeded(b) \/ NotSucceeded(b) \/ AnsweredInBackground(b)

Load(l) == Poll(l) \/ ListForPlayer(l) \/ ShowList(l) \/ LoadFails(l)

Elsewhere ==
    \/ \E b \in Bookings : Charge(b) \/ AttachPayment(b) \/ CancelBooking(b) \/ Confirm(b)
    \/ \E B \in SUBSET Bookings : Sweep(B)

Next ==
    \/ Tick \/ Countdown \/ ShowBookings \/ ShowBook \/ Elsewhere
    \/ \E b \in Bookings : Checkout(b)
    \/ \E l \in Loaders : Load(l)

Spec == Init /\ [][Next]_vars

-----------------------------------------------------------------------------
(* What the player can rely on.                                            *)

Statuses == {"absent", "pending_payment", "confirmed"}
Forms == {"none", "asking", "open", "paying", "done"}
Loading == [pc: {"idle", "waiting", "sent", "read"}, awaits: Bookings \cup {NoBooking},
            left: 0..ConfirmAttempts, rows: [Bookings -> Statuses]]

\* Every variable keeps its type; a poll has 0..ConfirmAttempts left, so it ends.
CheckoutTypeOK ==
    /\ Server!HoldTypeOK
    /\ charging \subseteq Bookings
    /\ drift \in Drifts /\ reading \in Int
    /\ section \in {"book", "bookings"}
    /\ form \in [Bookings -> Forms]
    /\ posted \subseteq Bookings /\ resuming \subseteq Bookings
    /\ confirming \subseteq Bookings /\ background \subseteq Bookings
    /\ list \in [rows: [Bookings -> Statuses], failed: BOOLEAN]
    /\ loader \in [Loaders -> Loading]

\* Whatever answers were overtaken on the way, a booking the list calls
\* confirmed has its slot for good (MyBookings.tsx:28, newBookingResponse).
ShownConfirmedIsSold ==
    \A b \in Bookings : list.rows[b] = "confirmed" => ledger[b] = "sold"

\* While a form asks for money its slot is kept, and the form is down soon
\* after the hold has ended by the browser's clock: one interval of the
\* countdown later at the most (CourtResult.tsx:30, PendingBooking.tsx:26).
FormsEndWithHolds ==
    \A b \in Bookings : FormUp(b) =>
        /\ now + drift < expires[b] + Lag
        /\ now + ClockSkew < expires[b] => Server!Slot!Occupies(b)

\* However often the player holds a slot, loses it and holds it again, and
\* whichever list comes last, at most one form asks him for its price
\* (CourtResult.tsx:71, MyBookings.tsx:82).
OneFormPerSlot ==
    \A b, c \in Bookings :
        FormUp(b) /\ FormUp(c) /\ SlotOf[b] = SlotOf[c] => b = c

\* A poll that stops with attempts left and an answer does so on news: the
\* payment has settled for good, or the slot has begun, which takes it off the
\* list (awaitConfirmation, MyBookings.tsx:54).
PollsStopOnNews ==
    [][\A l \in Loaders : \A b \in Bookings :
        /\ loader[l].pc = "read" /\ loader[l].awaits = b /\ loader[l].left > 0
        /\ loader'[l].pc = "idle" /\ section' = section
        => ledger[b] # "held" \/ now > StartsAt[SlotOf[b]]]_vars
=============================================================================
