--------------------------- MODULE CalendarProofs ---------------------------
(***************************************************************************)
(* Proofs about CourtCalendar, for every set of courts, any offsets, any   *)
(* hours, dates and prices callers send and any horizon.                   *)
(***************************************************************************)
EXTENDS CourtCalendar, TLAPS

-----------------------------------------------------------------------------
(* The inductive invariant.                                                *)

\* A court in the table opens and closes within one day.
Opening ==
    \A c \in Courts :
        /\ court[c].active => court[c].created
        /\ court[c].created => 0 <= court[c].open /\ court[c].close <= 24

\* A row that holds a slot holds a window of its court's grid, and no other
\* row holds it.
Gridded ==
    /\ \A b \in booking : court[b.court].created /\ OnGrid(b.court, b.startsAt)
    /\ \A a, b \in booking :
          a.court = b.court /\ a.startsAt = b.startsAt => a = b

Inv == CalendarTypeOK /\ Opening /\ Gridded

-----------------------------------------------------------------------------
(* Arithmetic of local days.                                               *)

\* What a column keeps of a number fits the column.
LEMMA ColumnFits ==
    ASSUME NEW n \in Int
    PROVE  Int32(n) \in Column
<1> DEFINE L == ColumnLimit
<1>1. L \in Nat \ {0}
  BY CalendarAssumption
<1>2. (n + L) % (2 * L) \in 0..(2 * L - 1)
  BY <1>1, SMT
<1> HIDE DEF L
<1> QED
  BY <1>1, <1>2, SMT DEF Int32, Column, L

\* Readings of a local clock that are on one grid are a whole slot apart,
\* whether they are on one date or on two.
LEMMA ReadingsApart ==
    ASSUME NEW x \in Int, NEW y \in Int, x < y,
           NEW open \in Int, NEW close \in Int, 0 <= open, close <= 24,
           \A z \in {x, y} :
              /\ z % 2 = 0
              /\ open <= (z % 48) \div 2
              /\ (z % 48) \div 2 + 2 <= close
              /\ ((z % 48) \div 2 - open) % 2 = 0
    PROVE  x + 4 <= y
OBVIOUS

\* So are two different windows of a court.
LEMMA GridApart ==
    ASSUME NEW c \in Courts, court[c] \in Court, Offset[c] \in Int,
           0 <= court[c].open, court[c].close <= 24,
           NEW t \in Int, NEW u \in Int, OnGrid(c, t), OnGrid(c, u), t < u
    PROVE  t + SlotDuration <= u
<1> DEFINE x == t + Offset[c]
           y == u + Offset[c]
           open == court[c].open
           close == court[c].close
<1>1. x \in Int /\ y \in Int /\ x < y /\ open \in Int /\ close \in Int
  BY DEF Court
<1>2. \A z \in {x, y} :
        /\ z % 2 = 0
        /\ open <= (z % 48) \div 2
        /\ (z % 48) \div 2 + 2 <= close
        /\ ((z % 48) \div 2 - open) % 2 = 0
  <2>1. 24 * 2 = 48
    OBVIOUS
  <2> QED
    BY <2>1 DEF OnGrid, OnTheHour, LocalHour, Local, slotHours, Hour, Day
<1>3. x + 4 <= y
  <2> HIDE DEF x, y, open, close
  <2>1. 0 <= open /\ close <= 24
    BY DEF open, close
  <2> QED
    BY <1>1, <1>2, <2>1, ReadingsApart
<1> QED
  BY <1>3 DEF SlotDuration, slotHours, Hour

\* An hour of a date is on that date and at that hour, in the court's zone.
LEMMA InstantLocal ==
    ASSUME NEW c \in Courts, Offset[c] \in Int, NEW date \in Int, NEW h \in 0..23
    PROVE  /\ Instant(c, date, h) \in Int
           /\ LocalDate(c, Instant(c, date, h)) = date
           /\ LocalHour(c, Instant(c, date, h)) = h
BY SMT DEF Instant, LocalDate, LocalHour, Local, Day, Hour

\* A start on the hour is its local date's hour.
LEMMA LocalInstant ==
    ASSUME NEW c \in Courts, Offset[c] \in Int, NEW t \in Int, OnTheHour(c, t)
    PROVE  /\ LocalDate(c, t) \in Int
           /\ LocalHour(c, t) \in 0..23
           /\ t = Instant(c, LocalDate(c, t), LocalHour(c, t))
BY SMT DEF Instant, LocalDate, LocalHour, OnTheHour, Local, Day, Hour

\* Stepping through a date from the opening hour meets every window of the
\* date and nothing else.
LEMMA SteppingFindsAll ==
    ASSUME Inv, NEW c \in Courts, NEW date \in Int, NEW asOf \in Int
    PROVE  SlotsOn(c, date, asOf) =
              {t \in Int : ValidateSlot(c, t, asOf) /\ LocalDate(c, t) = date}
<1> DEFINE open == court[c].open
           close == court[c].close
           Steps == {i \in 0..23 : open + slotHours * i + slotHours <= close}
           Starts == {Instant(c, date, open + slotHours * i) : i \in Steps}
<1>1. /\ Offset[c] \in Int /\ open \in Int /\ close \in Int
  BY OffsetAssumption DEF Inv, CalendarTypeOK, Court
<1>2. CASE ~court[c].active
  BY <1>2 DEF SlotsOn, ValidateSlot
<1>3. CASE court[c].active
  <2>1. 0 <= open /\ close <= 24
    BY <1>3 DEF Inv, Opening
  <2>2. ASSUME NEW i \in Steps
        PROVE  open + slotHours * i \in 0..23
    BY <1>1, <2>1, <2>2, SMT DEF slotHours
  <2>3. \A t \in Starts : t \in Int /\ LocalDate(c, t) = date
    <3>1. ASSUME NEW i \in Steps
          PROVE  /\ Instant(c, date, open + slotHours * i) \in Int
                 /\ LocalDate(c, Instant(c, date, open + slotHours * i)) = date
      BY <1>1, <2>2, InstantLocal
    <3> QED
      BY <3>1
  <2>4. ASSUME NEW t \in Int, ValidateSlot(c, t, asOf), LocalDate(c, t) = date
        PROVE  t \in Starts
    <3>1. OnTheHour(c, t)
      BY <2>4 DEF ValidateSlot, OnGrid
    <3>2. LocalHour(c, t) \in 0..23 /\ t = Instant(c, date, LocalHour(c, t))
      BY <1>1, <2>4, <3>1, LocalInstant
    <3>3. PICK h \in 0..23 : h = LocalHour(c, t)
      BY <3>2
    <3>4. open <= h /\ h + slotHours <= close /\ (h - open) % slotHours = 0
      BY <2>4, <3>3 DEF ValidateSlot, OnGrid
    <3>5. \E i \in 0..23 : h = open + slotHours * i
      <4>1. open \in Int /\ h \in 0..23 /\ 0 <= open /\ open <= h /\ (h - open) % 2 = 0
        BY <1>1, <2>1, <3>4 DEF slotHours
      <4> HIDE DEF open
      <4>2. (h - open) \div 2 \in 0..23 /\ h = open + 2 * ((h - open) \div 2)
        BY <4>1
      <4> QED
        BY <4>2 DEF slotHours
    <3> QED
      BY <3>2, <3>3, <3>4, <3>5
  <2> QED
    BY <2>3, <2>4 DEF SlotsOn
<1> QED
  BY <1>2, <1>3

-----------------------------------------------------------------------------
(* The invariant.                                                          *)

\* An empty calendar satisfies it.
LEMMA CalendarInit == Init => Inv
<1> SUFFICES ASSUME Init PROVE Inv
  OBVIOUS
<1>1. NoCourt \in Court
  <2>1. 0 \in Column
    BY CalendarAssumption DEF Column
  <2> QED
    BY <2>1 DEF NoCourt, Court
<1>2. NoSearch \in Query
  BY DEF NoSearch, Query
<1>3. CalendarTypeOK
  BY <1>1, <1>2, CalendarAssumption DEF Init, CalendarTypeOK
<1> QED
  BY <1>3 DEF Init, Inv, Opening, Gridded, NoCourt

\* What a query starts with is a query.
LEMMA BeginQuery ==
    ASSUME NEW q \in Query, Begin(q)
    PROVE  search' \in Query
<1>1. search' \in {[q EXCEPT !.pc = "answered"], [q EXCEPT !.pc = "reading"]}
  BY DEF Begin
<1> QED
  BY <1>1 DEF Query

\* The windows a search considers.
LEMMA WithinFindsAll ==
    ASSUME Inv, NEW c \in Courts, NEW date \in Int, NEW asOf \in Int,
           NEW from \in Int, NEW to \in Int
    PROVE  SlotsWithin(c, date, asOf, from, to) =
              {t \in Int : /\ ValidateSlot(c, t, asOf)
                           /\ LocalDate(c, t) = date
                           /\ from <= LocalHour(c, t) /\ LocalHour(c, t) < to}
BY SteppingFindsAll DEF SlotsWithin

\* The starts a search considers, and those a look at one court does.
SearchStarts(date, from, to) == [c \in Courts |->
    IF court[c].active THEN SlotsWithin(c, date, now, from, to) ELSE {}]
AvailabilityStarts(c, date) ==
    [d \in Courts |-> IF d = c THEN SlotsOn(c, date, now) ELSE {}]

\* A search begins as a query for all the courts...
LEMMA SearchBegins ==
    ASSUME Inv, NEW date \in Dates, NEW from \in Hours, NEW to \in Hours,
           Search(date, from, to)
    PROVE  \E q \in Query :
              /\ Begin(q) /\ q.courts = Courts /\ q.asOf = now
              /\ q.date = date /\ q.from = from /\ q.to = to
              /\ q.free = [c \in Courts |-> {}]
              /\ q.starts = SearchStarts(date, from, to)
<1> DEFINE starts == SearchStarts(date, from, to)
           q == [NoSearch EXCEPT !.courts = Courts, !.date = date, !.from = from,
                   !.to = to, !.asOf = now, !.starts = starts]
<1>1. date \in Int /\ from \in Int /\ to \in Int /\ now \in Int
  BY CalendarAssumption DEF Inv, CalendarTypeOK
<1>2. starts \in [Courts -> SUBSET Int]
  BY <1>1, WithinFindsAll DEF SearchStarts
<1>3. Begin(q)
  BY DEF Search, SearchStarts
<1> HIDE DEF starts
<1>4. /\ q \in Query /\ q.courts = Courts /\ q.asOf = now
      /\ q.date = date /\ q.from = from /\ q.to = to
      /\ q.free = [c \in Courts |-> {}] /\ q.starts = starts
  BY <1>1, <1>2 DEF NoSearch, Query
<1> HIDE DEF q
<1> QED
  BY <1>3, <1>4 DEF starts

\* ... and a look at availability as one for a single court.
LEMMA AvailabilityBegins ==
    ASSUME Inv, NEW c \in Courts, NEW date \in Dates, Availability(c, date)
    PROVE  \E q \in Query :
              /\ Begin(q) /\ q.courts = {c} /\ q.asOf = now
              /\ q.date = date /\ q.from = 0 /\ q.to = 24
              /\ q.free = NoSearch.free
              /\ q.starts = AvailabilityStarts(c, date)
<1> DEFINE starts == AvailabilityStarts(c, date)
           asked == {c}
           q == [NoSearch EXCEPT !.courts = asked, !.date = date, !.to = 24,
                   !.asOf = now, !.starts = starts]
<1>1. date \in Int /\ now \in Int
  BY CalendarAssumption DEF Inv, CalendarTypeOK
<1>2. starts \in [Courts -> SUBSET Int]
  BY <1>1, SteppingFindsAll DEF AvailabilityStarts
<1>3. Begin(q)
  BY DEF Availability, AvailabilityStarts
<1>4. asked \in SUBSET Courts
  OBVIOUS
<1> HIDE DEF starts, asked
<1>5. q \in Query
  <2>1. NoSearch \in Query
    BY DEF NoSearch, Query
  <2>2. 24 \in Int
    OBVIOUS
  <2> QED
    BY <1>1, <1>2, <1>4, <2>1, <2>2 DEF Query
<1>6. /\ q.courts = asked /\ q.asOf = now
      /\ q.date = date /\ q.from = 0 /\ q.to = 24
      /\ q.free = NoSearch.free /\ q.starts = starts
  BY DEF NoSearch
<1> HIDE DEF q
<1> QED
  BY <1>3, <1>5, <1>6 DEF starts, asked

\* Every step keeps the types.
LEMMA CalendarTypes ==
    ASSUME Inv, [Next]_vars
    PROVE  CalendarTypeOK'
<1> USE DEF vars
<1>1. ASSUME NEW c \in Courts, NEW open \in Hours, NEW close \in Hours, NEW price \in Prices,
             CreateCourt(c, open, close, price)
      PROVE  CalendarTypeOK'
  <2>1. Int32(price) \in Column /\ open \in Int /\ close \in Int
    BY ColumnFits, CalendarAssumption
  <2> QED
    BY <1>1, <2>1 DEF CreateCourt, Inv, CalendarTypeOK, Court
<1>2. ASSUME NEW c \in Courts, CloseCourt(c)
      PROVE  CalendarTypeOK'
  BY <1>2 DEF CloseCourt, Inv, CalendarTypeOK, Court
<1>3. ASSUME NEW c \in Courts, NEW t \in (now + 1)..(now + BookingHorizon), Book(c, t)
      PROVE  CalendarTypeOK'
  <2>1. t \in Int
    BY CalendarAssumption DEF Inv, CalendarTypeOK
  <2>2. SlotPrice(c) \in Int
    <3>1. Column \subseteq Int
      BY CalendarAssumption DEF Column
    <3> QED
      <4>1. court[c] \in Court
        BY DEF Inv, CalendarTypeOK
      <4>2. court[c].price \in Int
        BY <3>1, <4>1 DEF Court
      <4> QED
        BY <4>2 DEF SlotPrice, slotHours
  <2>3. Int32(SlotPrice(c)) \in Column
    BY <2>2, ColumnFits
  <2> QED
    BY <1>3, <2>1, <2>2, <2>3 DEF Book, Inv, CalendarTypeOK, Booking
<1>4. ASSUME NEW b \in booking, Release(b)
      PROVE  CalendarTypeOK'
  BY <1>4 DEF Release, Inv, CalendarTypeOK
<1>5. ASSUME NEW date \in Dates, NEW from \in Hours, NEW to \in Hours, Search(date, from, to)
      PROVE  CalendarTypeOK'
  <2>1. search' \in Query
    BY <1>5, SearchBegins, BeginQuery
  <2> QED
    BY <1>5, <2>1 DEF Search, Inv, CalendarTypeOK
<1>6. ASSUME NEW c \in Courts, NEW date \in Dates, Availability(c, date)
      PROVE  CalendarTypeOK'
  <2>1. search' \in Query
    BY <1>6, AvailabilityBegins, BeginQuery
  <2> QED
    BY <1>6, <2>1 DEF Availability, Inv, CalendarTypeOK
<1>7. CASE Answer
  <2> DEFINE free == [c \in Courts |-> search.starts[c] \ Booked(c)]
  <2>1. free \in [Courts -> SUBSET Int]
    BY DEF Inv, CalendarTypeOK, Query
  <2>2. search' \in Query
    <3>1. search' = [search EXCEPT !.pc = "answered", !.free = free]
      BY <1>7 DEF Answer
    <3> HIDE DEF free
    <3> QED
      BY <2>1, <3>1 DEF Inv, CalendarTypeOK, Query
  <2> QED
    BY <1>7, <2>2 DEF Answer, Inv, CalendarTypeOK
<1>8. CASE EndSearch
  BY <1>8 DEF EndSearch, NoSearch, Inv, CalendarTypeOK, Query
<1>9. CASE Tick
  BY <1>9 DEF Tick, Inv, CalendarTypeOK
<1>10. CASE UNCHANGED vars
  BY <1>10 DEF Inv, CalendarTypeOK
<1> QED
  BY <1>1, <1>2, <1>3, <1>4, <1>5, <1>6, <1>7, <1>8, <1>9, <1>10 DEF Next

\* Whatever a step does to the table of courts, a row's court keeps its hours.
LEMMA HoursKept ==
    ASSUME Inv, [Next]_vars, NEW c \in Courts, court[c].created
    PROVE  /\ court'[c].created
           /\ court'[c].open = court[c].open /\ court'[c].close = court[c].close
<1> USE DEF vars
<1>1. ASSUME NEW d \in Courts, NEW open \in Hours, NEW close \in Hours, NEW price \in Prices,
             CreateCourt(d, open, close, price)
      PROVE  court'[c] = court[c]
  BY <1>1 DEF CreateCourt, Inv, CalendarTypeOK
<1>2. ASSUME NEW d \in Courts, CloseCourt(d)
      PROVE  court'[c] \in {court[c], [court[c] EXCEPT !.active = FALSE]}
  BY <1>2 DEF CloseCourt, Inv, CalendarTypeOK
<1>3. court[c] \in Court
  BY DEF Inv, CalendarTypeOK
<1> QED
  BY <1>1, <1>2, <1>3
  DEF Next, Tick, Book, Release, Search, Availability, Answer, EndSearch, Court

\* Only a window of the court's grid that nobody holds is booked.
LEMMA CalendarStep == Inv /\ [Next]_vars => Inv'
<1> SUFFICES ASSUME Inv, [Next]_vars PROVE Inv'
  OBVIOUS
<1> USE DEF vars
<1>1. CalendarTypeOK'
  BY CalendarTypes
<1>2. Opening'
  <2>1. ASSUME NEW d \in Courts, NEW open \in Hours, NEW close \in Hours, NEW price \in Prices,
               CreateCourt(d, open, close, price)
        PROVE  Opening'
    BY <2>1 DEF CreateCourt, Opening, Inv, CalendarTypeOK
  <2>2. ASSUME NEW d \in Courts, CloseCourt(d)
        PROVE  Opening'
    BY <2>2 DEF CloseCourt, Opening, Inv, CalendarTypeOK, Court
  <2>3. ASSUME court' = court
        PROVE  Opening'
    BY <2>3 DEF Opening, Inv
  <2> QED
    BY <2>1, <2>2, <2>3
    DEF Next, Tick, Book, Release, Search, Availability, Answer, EndSearch
<1>3. Gridded'
  <2>1. \/ booking' \subseteq booking
        \/ \E c \in Courts, t \in (now + 1)..(now + BookingHorizon) : Book(c, t)
    BY DEF Next, Tick, CloseCourt, CreateCourt, Release, Search, Availability, Answer,
           EndSearch
  <2>2. ASSUME NEW b \in booking
        PROVE  court'[b.court].created /\ OnGrid(b.court, b.startsAt)'
    <3>1. b.court \in Courts /\ court[b.court].created /\ OnGrid(b.court, b.startsAt)
      BY DEF Inv, CalendarTypeOK, Booking, Gridded
    <3> QED
      BY <3>1, HoursKept DEF OnGrid, OnTheHour, LocalHour, Local
  <2>3. CASE booking' \subseteq booking
    BY <2>2, <2>3 DEF Inv, Gridded
  <2>4. ASSUME NEW c \in Courts, NEW t \in (now + 1)..(now + BookingHorizon), Book(c, t)
        PROVE  Gridded'
    <3> DEFINE new == [court |-> c, startsAt |-> t, amount |-> Int32(SlotPrice(c)),
                       charged |-> SlotPrice(c)]
    <3>1. booking' = booking \cup {new} /\ new.court = c /\ new.startsAt = t
      BY <2>4 DEF Book
    <3> HIDE DEF new
    <3>2. court' = court
      BY <2>4 DEF Book
    <3>3. court[c].created /\ OnGrid(c, t)
      BY <2>4 DEF Book, ValidateSlot, Inv, Opening
    <3>4. court'[c].created /\ OnGrid(c, t)'
      BY <3>2, <3>3 DEF OnGrid, OnTheHour, LocalHour, Local
    <3>5. \A b \in booking : ~(b.court = c /\ b.startsAt = t)
      BY <2>4 DEF Book, Held
    <3>6. \A b \in booking' : court'[b.court].created /\ OnGrid(b.court, b.startsAt)'
      BY <2>2, <3>1, <3>4
    <3>7. \A a, b \in booking' : a.court = b.court /\ a.startsAt = b.startsAt => a = b
      BY <3>1, <3>5 DEF Inv, Gridded
    <3> QED
      BY <3>6, <3>7 DEF Gridded
  <2> QED
    BY <2>1, <2>3, <2>4
<1> QED
  BY <1>1, <1>2, <1>3 DEF Inv

\* The invariant holds of every reachable state.
THEOREM CalendarInvariance == Spec => []Inv
BY CalendarInit, CalendarStep, PTL DEF Spec

-----------------------------------------------------------------------------
(* What follows.                                                           *)

\* Numbers stored in a column fit it, and all else has its type.
THEOREM CalendarTyped == Spec => []CalendarTypeOK
<1>1. Inv => CalendarTypeOK
  BY DEF Inv
<1> QED
  BY <1>1, CalendarInvariance, PTL

\* No court is ever booked for overlapping times, though the index compares
\* nothing but the starts.
THEOREM BookingsDoNotOverlap == Spec => []NoOverlap
<1>1. Inv => NoOverlap
  <2> SUFFICES ASSUME Inv, NEW a \in booking, NEW b \in booking, a.court = b.court,
                      a.startsAt <= b.startsAt, a # b
               PROVE  a.startsAt + SlotDuration <= b.startsAt
    BY DEF NoOverlap
  <2>1. /\ a.court \in Courts /\ a.startsAt \in Int /\ b.startsAt \in Int
        /\ court[a.court] \in Court /\ Offset[a.court] \in Int
    BY OffsetAssumption DEF Inv, CalendarTypeOK, Booking
  <2>2. a.startsAt < b.startsAt
    BY <2>1 DEF Inv, Gridded
  <2>3. 0 <= court[a.court].open /\ court[a.court].close <= 24
    BY <2>1 DEF Inv, Gridded, Opening
  <2>4. OnGrid(a.court, a.startsAt) /\ OnGrid(a.court, b.startsAt)
    BY DEF Inv, Gridded
  <2> QED
    BY <2>1, <2>2, <2>3, <2>4, GridApart
<1> QED
  BY <1>1, CalendarInvariance, PTL

\* A search and a look at availability start from exactly the windows Book
\* would take at that moment.
THEOREM OffersAreAccepted == Spec => OfferedIsAccepted
<1> DEFINE A == search.pc = "idle" /\ search'.pc # "idle"
                => \A c \in Courts :
                      search'.starts[c] =
                          IF c \in search'.courts THEN Acceptable(c, search') ELSE {}
<1>1. Inv /\ [Next]_vars => [A]_vars
  <2> SUFFICES ASSUME Inv, Next, search.pc = "idle", search'.pc # "idle",
                      NEW c \in Courts
               PROVE  search'.starts[c] =
                          IF c \in search'.courts THEN Acceptable(c, search') ELSE {}
    BY DEF vars
  <2>0. now \in Int
    BY DEF Inv, CalendarTypeOK
  <2>1. ASSUME NEW q, Begin(q), q.asOf = now, q.date \in Int, q.from \in Int, q.to \in Int,
               q \in Query,
               q.starts[c] = IF c \in q.courts
                             THEN {t \in Int : /\ ValidateSlot(c, t, now)
                                               /\ LocalDate(c, t) = q.date
                                               /\ q.from <= LocalHour(c, t)
                                               /\ LocalHour(c, t) < q.to}
                             ELSE {}
        PROVE  search'.starts[c] =
                  IF c \in search'.courts THEN Acceptable(c, search') ELSE {}
    <3>1. /\ search'.starts = q.starts /\ search'.courts = q.courts
          /\ search'.asOf = now /\ search'.date = q.date
          /\ search'.from = q.from /\ search'.to = q.to
      BY <2>1 DEF Begin, Query
    <3>2. \A t \in Int : ValidateSlot(c, t, now) => t \in (now + 1)..(now + BookingHorizon)
      BY <2>0, CalendarAssumption DEF ValidateSlot
    <3>3. Acceptable(c, search') =
              {t \in Int : /\ ValidateSlot(c, t, now)
                           /\ LocalDate(c, t) = q.date
                           /\ q.from <= LocalHour(c, t)
                           /\ LocalHour(c, t) < q.to}
      BY <2>0, <3>1, <3>2, CalendarAssumption DEF Acceptable
    <3> QED
      BY <2>1, <3>1, <3>3
  <2>2. ASSUME NEW date \in Dates, NEW from \in Hours, NEW to \in Hours, Search(date, from, to)
        PROVE  search'.starts[c] =
                  IF c \in search'.courts THEN Acceptable(c, search') ELSE {}
    <3>1. date \in Int /\ from \in Int /\ to \in Int
      BY CalendarAssumption
    <3>2. PICK q \in Query :
            /\ Begin(q) /\ q.courts = Courts /\ q.asOf = now
            /\ q.date = date /\ q.from = from /\ q.to = to
            /\ q.starts = SearchStarts(date, from, to)
      BY <2>2, SearchBegins
    <3>3. q.starts[c] = {t \in Int : /\ ValidateSlot(c, t, now)
                                     /\ LocalDate(c, t) = date
                                     /\ from <= LocalHour(c, t) /\ LocalHour(c, t) < to}
      <4>1. CASE court[c].active
        BY <2>0, <3>1, <3>2, <4>1, WithinFindsAll DEF SearchStarts
      <4>2. CASE ~court[c].active
        BY <3>2, <4>2 DEF ValidateSlot, SearchStarts
      <4> QED
        BY <4>1, <4>2
    <3> QED
      BY <2>1, <3>1, <3>2, <3>3
  <2>3. ASSUME NEW d \in Courts, NEW date \in Dates, Availability(d, date)
        PROVE  search'.starts[c] =
                  IF c \in search'.courts THEN Acceptable(c, search') ELSE {}
    <3>1. date \in Int
      BY CalendarAssumption
    <3>2. PICK q \in Query :
            /\ Begin(q) /\ q.courts = {d} /\ q.asOf = now
            /\ q.date = date /\ q.from = 0 /\ q.to = 24
            /\ q.starts = AvailabilityStarts(d, date)
      BY <2>3, AvailabilityBegins
    <3>3. SlotsOn(d, date, now) =
              {t \in Int : ValidateSlot(d, t, now) /\ LocalDate(d, t) = date}
      BY <2>0, <3>1, SteppingFindsAll
    <3>4. \A t \in Int : ValidateSlot(d, t, now) => LocalHour(d, t) \in 0..23
      BY LocalInstant, OffsetAssumption DEF ValidateSlot, OnGrid
    <3>5. q.starts[c] = IF c \in {d}
                        THEN {t \in Int : /\ ValidateSlot(c, t, now)
                                          /\ LocalDate(c, t) = date
                                          /\ 0 <= LocalHour(c, t) /\ LocalHour(c, t) < 24}
                        ELSE {}
      <4>1. CASE c = d
        BY <3>2, <3>3, <3>4, <4>1 DEF AvailabilityStarts
      <4>2. CASE c # d
        BY <3>2, <4>2 DEF AvailabilityStarts
      <4> QED
        BY <4>1, <4>2
    <3> QED
      BY <2>1, <3>1, <3>2, <3>5
  <2> QED
    BY <2>2, <2>3
    DEF Next, Tick, CloseCourt, CreateCourt, Book, Release, Answer, EndSearch
<1> QED
  BY <1>1, CalendarInvariance, PTL DEF Spec, OfferedIsAccepted

\* The one range of time read for all the courts takes in every booking of
\* every window considered.
THEOREM FreeMeansFree == Spec => FreeIsFree
<1> DEFINE A == search.pc # "answered" /\ search'.pc = "answered"
                => \A c \in Courts : search'.free[c] = {t \in search'.starts[c] : ~Held(c, t)}
<1>1. Inv /\ [Next]_vars => [A]_vars
  <2> SUFFICES ASSUME Inv, Next, search.pc # "answered", search'.pc = "answered",
                      NEW c \in Courts
               PROVE  search'.free[c] = {t \in search'.starts[c] : ~Held(c, t)}
    BY DEF vars
  <2>1. CASE Answer
    <3>1. search'.starts = search.starts /\ search'.free[c] = search.starts[c] \ Booked(c)
      BY <2>1 DEF Answer, Inv, CalendarTypeOK, Query
    <3>2. ASSUME NEW t \in search.starts[c]
          PROVE  t \in Booked(c) <=> Held(c, t)
      <4>1. t \in Int /\ <<c, t>> \in Candidates(search)
        BY DEF Candidates, Inv, CalendarTypeOK, Query
      <4>2. t <= t /\ t < t + SlotDuration
        BY <4>1 DEF SlotDuration, slotHours, Hour
      <4>3. <<c, t>>[2] = t
        OBVIOUS
      <4>4. Held(c, t) => t \in Booked(c)
        BY <4>1, <4>2, <4>3 DEF Held, Booked
      <4> QED
        BY <4>4 DEF Held, Booked
    <3> QED
      BY <3>1, <3>2
  <2>2. ASSUME NEW q, Begin(q), q \in Query, q.free[c] = {}
        PROVE  search'.free[c] = {t \in search'.starts[c] : ~Held(c, t)}
    <3>1. search'.starts = q.starts /\ search'.free = q.free /\ Candidates(q) = {}
      BY <2>2 DEF Begin, Query
    <3>2. q.starts[c] = {}
      <4>1. \A t \in q.starts[c] : <<c, t>> \in Candidates(q)
        BY DEF Candidates
      <4> QED
        BY <3>1, <4>1
    <3> QED
      BY <2>2, <3>1, <3>2
  <2>3. ASSUME NEW date \in Dates, NEW from \in Hours, NEW to \in Hours, Search(date, from, to)
        PROVE  search'.free[c] = {t \in search'.starts[c] : ~Held(c, t)}
    <3>1. PICK q \in Query : Begin(q) /\ q.free = [d \in Courts |-> {}]
      BY <2>3, SearchBegins
    <3> QED
      BY <2>2, <3>1
  <2>4. ASSUME NEW d \in Courts, NEW date \in Dates, Availability(d, date)
        PROVE  search'.free[c] = {t \in search'.starts[c] : ~Held(c, t)}
    <3>1. PICK q \in Query : Begin(q) /\ q.free = NoSearch.free
      BY <2>4, AvailabilityBegins
    <3>2. q.free[c] = {}
      BY <3>1 DEF NoSearch
    <3> QED
      BY <2>2, <3>1, <3>2
  <2> QED
    BY <2>1, <2>3, <2>4
    DEF Next, Tick, CloseCourt, CreateCourt, Book, Release, EndSearch, NoSearch
<1> QED
  BY <1>1, CalendarInvariance, PTL DEF Spec, FreeIsFree

\* What no column has to cut is kept as it is.
LEMMA FittingKept ==
    ASSUME NEW n \in 0..(ColumnLimit - 1)
    PROVE  Int32(n) = n
<1> DEFINE L == ColumnLimit
<1>1. L \in Nat \ {0}
  BY CalendarAssumption
<1>2. n \in 0..(L - 1)
  OBVIOUS
<1> HIDE DEF L
<1>3. (n + L) % (2 * L) = n + L
  <2>1. n + L \in 0..(2 * L - 1)
    BY <1>1, <1>2, SMT
  <2> QED
    BY <1>1, <2>1, SMT
<1>4. Int32(n) = ((n + L) % (2 * L)) - L
  BY DEF Int32, L
<1> QED
  BY <1>1, <1>2, <1>3, <1>4, SMT

\* When no slot at a price an owner may send costs more than a column holds, a
\* row's amount is what the slot cost and what the gateway was asked for: the cut
\* of Court.Create and the one of HoldSlot are all that comes between.
THEOREM AmountsAreCosts ==
    ASSUME \A p \in Prices : slotHours * p < ColumnLimit
    PROVE  Spec => []AmountIsCost
<1> DEFINE Priced == \A c \in Courts : SlotPrice(c) \in 0..(ColumnLimit - 1)
           Costs == Priced /\ AmountIsCost
<1> USE CalendarAssumption DEF slotHours
<1>1. Init => Costs
  BY DEF Init, NoCourt, SlotPrice, AmountIsCost
<1>2. Inv /\ Costs /\ [Next]_vars => Costs'
  <2> SUFFICES ASSUME Inv, Costs, [Next]_vars
               PROVE  Costs'
    OBVIOUS
  <2>1. ASSUME UNCHANGED court, booking' \subseteq booking
        PROVE  Costs'
    BY <2>1 DEF SlotPrice, AmountIsCost
  <2>2. ASSUME NEW c \in Courts, CloseCourt(c)
        PROVE  Costs'
    <3>1. \A d \in Courts : court'[d].price = court[d].price
      BY <2>2 DEF CloseCourt, Inv, CalendarTypeOK, Court
    <3> QED
      BY <2>2, <3>1 DEF CloseCourt, SlotPrice, AmountIsCost
  <2>3. ASSUME NEW c \in Courts, NEW open \in Hours, NEW close \in Hours, NEW price \in Prices,
               CreateCourt(c, open, close, price)
        PROVE  Costs'
    <3>1. price \in 0..(ColumnLimit - 1) /\ 2 * price \in 0..(ColumnLimit - 1)
      BY <2>3 DEF CreateCourt
    <3>2. Int32(price) = price
      BY <3>1, FittingKept
    <3>3. \A d \in Courts : court'[d].price = IF d = c THEN price ELSE court[d].price
      BY <2>3, <3>2 DEF CreateCourt, Inv, CalendarTypeOK
    <3>4. Priced'
      BY <3>1, <3>3 DEF SlotPrice
    <3> QED
      BY <2>3, <3>4 DEF CreateCourt, AmountIsCost
  <2>4. ASSUME NEW c \in Courts, NEW t, Book(c, t)
        PROVE  Costs'
    <3>1. Int32(SlotPrice(c)) = SlotPrice(c)
      BY FittingKept
    <3> QED
      BY <2>4, <3>1 DEF Book, SlotPrice, AmountIsCost
  <2> QED
    BY <2>1, <2>2, <2>3, <2>4
    DEF Next, vars, Tick, Release, Search, Availability, Answer, EndSearch
<1>3. Costs => AmountIsCost
  OBVIOUS
<1> QED
  BY <1>1, <1>2, <1>3, CalendarInvariance, PTL DEF Spec
=============================================================================
