--------------------------- MODULE CourtCalendar ---------------------------
(***************************************************************************)
(* Which windows a court can be booked for, what a search or a look at its *)
(* availability says is free, and what a slot costs.                       *)
(*                                                                         *)
(* Time is counted in half hours, enough for zones that are not whole      *)
(* hours from UTC.  A zone is a constant offset, as every zone in the      *)
(* cities table is.                                                        *)
(* Courts are those of one city, the only ones a search of it reads.  Book *)
(* is one step: Bookings has what happens inside it.  A court and its      *)
(* venue being open for business (is_active) is one flag, which nothing in *)
(* the code takes back: that is done by hand.                              *)
(*                                                                         *)
(* A definition named Buggy... is the one after it with a plausible slip.  *)
(* Nothing uses it: it shows that some property would catch the slip.      *)
(***************************************************************************)
EXTENDS Integers, FiniteSets

CONSTANTS
    Courts,
    Offset,          \* each court's zone, in half hours ahead of UTC
    BookingHorizon,  \* fourteen days
    Hours,           \* the hours callers send, right or wrong
    Prices,          \* the prices per hour owners send, right or wrong
    Dates,           \* the dates callers ask about
    ColumnLimit,     \* 2^31: an integer column holds -2^31 to 2^31 - 1
    StartTime,       \* what the clock reads at first
    MaxTime,         \* bound on the clock
    MaxBookings      \* bound on the rows holding a slot at once

ASSUME OffsetAssumption == Offset \in [Courts -> Int]
ASSUME CalendarAssumption ==
    /\ BookingHorizon \in Nat /\ ColumnLimit \in Nat \ {0}
    /\ StartTime \in Nat /\ MaxTime \in Nat /\ MaxBookings \in Nat
    /\ Hours \subseteq Int /\ Prices \subseteq Int /\ Dates \subseteq Int

VARIABLES
    now,      \* the clock
    court,    \* table courts
    booking,  \* the rows of bookings that hold a slot
    search    \* a Search or an Availability being answered

vars == <<now, court, booking, search>>

Hour == 2
Day == 24 * Hour
slotHours == 2
SlotDuration == slotHours * Hour

NoCourt == [created |-> FALSE, active |-> FALSE, open |-> 0, close |-> 0, price |-> 0]
NoSearch == [pc |-> "idle", courts |-> {}, date |-> 0, from |-> 0, to |-> 0, asOf |-> 0,
             starts |-> [c \in Courts |-> {}], free |-> [c \in Courts |-> {}]]

-----------------------------------------------------------------------------
(* Local time.                                                             *)

Local(c, t) == t + Offset[c]
LocalDate(c, t) == Local(c, t) \div Day
LocalHour(c, t) == (Local(c, t) % Day) \div Hour
OnTheHour(c, t) == Local(c, t) % Hour = 0

\* The dates read in UTC.
BuggyInstant(c, date, hour) == date * Day + hour * Hour

\* time.Date: an hour of a date, in the court's zone.
Instant(c, date, hour) == date * Day + hour * Hour - Offset[c]

\* The price kept as it came.
BuggyInt32(n) == n

\* What Go's int32(n) leaves of a number.
Int32(n) == ((n + ColumnLimit) % (2 * ColumnLimit)) - ColumnLimit

-----------------------------------------------------------------------------
(* The rules of a court.                                                   *)

\* Any start on the hour that fits, as it was when slots were an hour long.
BuggyOnGrid(c, t) ==
    /\ OnTheHour(c, t)
    /\ court[c].open <= LocalHour(c, t)
    /\ LocalHour(c, t) + slotHours <= court[c].close

\* A start on the court's grid, inside its opening hours.
OnGrid(c, t) ==
    /\ OnTheHour(c, t)
    /\ court[c].open <= LocalHour(c, t)
    /\ LocalHour(c, t) + slotHours <= court[c].close
    /\ (LocalHour(c, t) - court[c].open) % slotHours = 0

ValidateSlot(c, t, asOf) ==
    /\ court[c].active
    /\ asOf < t /\ t <= asOf + BookingHorizon
    /\ OnGrid(c, t)

\* The windows of a date, stepping by the slot's width from the opening hour.
SlotsOn(c, date, asOf) ==
    LET steps == {i \in 0..23 : court[c].open + slotHours * i + slotHours <= court[c].close}
        starts == {Instant(c, date, court[c].open + slotHours * i) : i \in steps}
    IN  {t \in starts : ValidateSlot(c, t, asOf)}

SlotsWithin(c, date, asOf, from, to) ==
    {t \in SlotsOn(c, date, asOf) : from <= LocalHour(c, t) /\ LocalHour(c, t) < to}

SlotPrice(c) == court[c].price * slotHours

Held(c, t) == \E b \in booking : b.court = c /\ b.startsAt = t

-----------------------------------------------------------------------------
(* Courts and bookings.                                                    *)

\* Hours are checked as they come; the price is cut to its column's width
\* after it was checked.
CreateCourt(c, open, close, price) ==
    /\ ~court[c].created
    /\ 0 <= open /\ close <= 24 /\ open < close
    /\ price >= 0
    /\ court' = [court EXCEPT ![c] =
          [created |-> TRUE, active |-> TRUE, open |-> open, close |-> close,
           price |-> Int32(price)]]
    /\ UNCHANGED <<now, booking, search>>

CloseCourt(c) ==
    /\ court[c].active
    /\ court' = [court EXCEPT ![c].active = FALSE]
    /\ UNCHANGED <<now, booking, search>>

\* The gateway is asked for the slot's price and the row keeps what fits.
Book(c, t) ==
    /\ ValidateSlot(c, t, now)
    /\ ~Held(c, t)
    /\ Cardinality(booking) < MaxBookings
    /\ booking' = booking \cup
          {[court |-> c, startsAt |-> t, amount |-> Int32(SlotPrice(c)),
            charged |-> SlotPrice(c)]}
    /\ UNCHANGED <<now, court, search>>

\* A hold is swept or undone.
Release(b) ==
    /\ booking' = booking \ {b}
    /\ UNCHANGED <<now, court, search>>

-----------------------------------------------------------------------------
(* Search and Availability: the courts, then what is taken of them.        *)

Candidates(q) == UNION {{<<c, t>> : t \in q.starts[c]} : c \in Courts}

Begin(q) == search' = [q EXCEPT !.pc = IF Candidates(q) = {} THEN "answered" ELSE "reading"]

\* Only the active courts are read.
Search(date, from, to) ==
    /\ search.pc = "idle"
    /\ 0 <= from /\ to <= 24 /\ from < to
    /\ Begin([NoSearch EXCEPT
          !.courts = Courts, !.date = date, !.from = from, !.to = to, !.asOf = now,
          !.starts = [c \in Courts |->
              IF court[c].active THEN SlotsWithin(c, date, now, from, to) ELSE {}]])
    /\ UNCHANGED <<now, court, booking>>

Availability(c, date) ==
    /\ search.pc = "idle"
    /\ court[c].created
    /\ Begin([NoSearch EXCEPT
          !.courts = {c}, !.date = date, !.to = 24, !.asOf = now,
          !.starts = [d \in Courts |-> IF d = c THEN SlotsOn(c, date, now) ELSE {}]])
    /\ UNCHANGED <<now, court, booking>>

\* The range ended at the last start, which it excludes.
BuggyBooked(c) ==
    {b.startsAt : b \in {r \in booking :
        /\ r.court = c
        /\ \E p \in Candidates(search) : p[2] <= r.startsAt
        /\ \E p \in Candidates(search) : r.startsAt < p[2]}}

\* ListBookedSlots and ListBookedSlotsForCourts: one range of time for all the
\* courts, from the first start to the end of the last window.
Booked(c) ==
    {b.startsAt : b \in {r \in booking :
        /\ r.court = c
        /\ \E p \in Candidates(search) : p[2] <= r.startsAt
        /\ \E p \in Candidates(search) : r.startsAt < p[2] + SlotDuration}}

Answer ==
    /\ search.pc = "reading"
    /\ search' = [search EXCEPT
          !.pc = "answered", !.free = [c \in Courts |-> search.starts[c] \ Booked(c)]]
    /\ UNCHANGED <<now, court, booking>>

EndSearch ==
    /\ search.pc = "answered"
    /\ search' = NoSearch
    /\ UNCHANGED <<now, court, booking>>

-----------------------------------------------------------------------------
Tick ==
    /\ now < MaxTime
    /\ now' = now + 1
    /\ UNCHANGED <<court, booking, search>>

Init ==
    /\ now = StartTime
    /\ court = [c \in Courts |-> NoCourt]
    /\ booking = {}
    /\ search = NoSearch

Next ==
    \/ Tick
    \/ \E c \in Courts : CloseCourt(c)
    \/ \E c \in Courts, open, close \in Hours, price \in Prices :
          CreateCourt(c, open, close, price)
    \/ \E c \in Courts, t \in (now + 1)..(now + BookingHorizon) : Book(c, t)
    \/ \E b \in booking : Release(b)
    \/ \E date \in Dates, from, to \in Hours : Search(date, from, to)
    \/ \E c \in Courts, date \in Dates : Availability(c, date)
    \/ Answer \/ EndSearch

Spec == Init /\ [][Next]_vars

-----------------------------------------------------------------------------
(* What the calendar promises.                                             *)

Column == (-ColumnLimit)..(ColumnLimit - 1)
Court == [created: BOOLEAN, active: BOOLEAN, open: Int, close: Int, price: Column]
Booking == [court: Courts, startsAt: Int, amount: Column, charged: Int]
Query == [pc: {"idle", "reading", "answered"}, courts: SUBSET Courts,
          date: Int, from: Int, to: Int, asOf: Int,
          starts: [Courts -> SUBSET Int], free: [Courts -> SUBSET Int]]

\* Every variable keeps its type, numbers in a column its width.
CalendarTypeOK ==
    /\ now \in Nat
    /\ court \in [Courts -> Court]
    /\ booking \subseteq Booking
    /\ search \in Query

\* Two bookings of a court are never for overlapping times: the index only
\* keeps their starts apart, the grid has to do the rest
\* (bookings_active_slot_unique, ValidateSlot).
NoOverlap ==
    \A a, b \in booking :
        a.court = b.court /\ a.startsAt <= b.startsAt
            => a = b \/ a.startsAt + SlotDuration <= b.startsAt

\* The starts of the date and hours a query asks about that Book would take.
Acceptable(c, q) ==
    {t \in (q.asOf + 1)..(q.asOf + BookingHorizon) :
        /\ ValidateSlot(c, t, q.asOf)
        /\ LocalDate(c, t) = q.date
        /\ q.from <= LocalHour(c, t) /\ LocalHour(c, t) < q.to}

\* "What is offered and what would be accepted cannot drift apart"
\* (entity/booking.go:147): stepping through a local day finds exactly the starts that
\* Book would take.
OfferedIsAccepted ==
    [][search.pc = "idle" /\ search'.pc # "idle"
        => \A c \in Courts :
              search'.starts[c] = IF c \in search'.courts THEN Acceptable(c, search') ELSE {}]_vars

\* One range of time read for all the courts leaves out no booking: at the
\* moment bookings are read a window is called free exactly when it is.
FreeIsFree ==
    [][search.pc # "answered" /\ search'.pc = "answered"
        => \A c \in Courts : search'.free[c] = {t \in search'.starts[c] : ~Held(c, t)}]_vars

-----------------------------------------------------------------------------
(* What a comment says and the code does not keep.                         *)

\* "Amount is what the slot cost when it was held" (entity/booking.go:50): the row has
\* the amount the gateway was asked for.
AmountIsCost == \A b \in booking : b.amount = b.charged
=============================================================================
