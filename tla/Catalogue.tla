----------------------------- MODULE Catalogue -----------------------------
(***************************************************************************)
(* What gets booked and by whom: signing up, registering a venue, adding a *)
(* court to it, and Book as far as it depends on these.  Each of the four  *)
(* checks other tables' rows in statements of their own and then inserts   *)
(* one row; no transaction spans the two, so what was checked may have     *)
(* changed when the insert comes.                                          *)
(*                                                                         *)
(* A step is one SQL statement.  It takes effect before its request's      *)
(* context ends or not at all.  An element of Accounts, Venues, Courts or  *)
(* Holds is at once a POST request and the id of the row it may insert.    *)
(*                                                                         *)
(* No code deactivates anything: the three Deactivate actions are done by  *)
(* hand.  A caller is let in by requireAuth on what the session cache      *)
(* says, which DeactivationTakesHold of Sessions bounds: if the request    *)
(* came within Grace of the account being deactivated.                     *)
(*                                                                         *)
(* A definition named Buggy... is the one after it with a plausible slip.  *)
(* Nothing uses it: it shows that some property would catch the slip.      *)
(***************************************************************************)
EXTENDS Integers

CONSTANTS
    Accounts,        \* POST /users
    Venues,          \* POST /venues
    Courts,          \* POST /venues/{venueID}/courts
    Holds,           \* POST /courts/{courtID}/bookings
    Emails,          \* addresses that differ otherwise than in case (citext)
    Phones,          \* E.164 phone numbers
    Signups,         \* the forms people sign up with
    Cities,          \* table cities
    TimezoneOf,      \* its timezone column
    Nowhere,         \* a city that is not in the table
    Names,           \* names of courts
    RequestTimeout,  \* middleware.Timeout, thirty seconds
    Grace,           \* Grace of Sessions: the timeout plus the cache's TTL
    MaxTime,         \* bound on the clock
    CanFail,         \* whether the database may fail
    None             \* no row, no value

\* The roles a form can name on the wire; an absent one is "".
WireRoles == {"", "player", "owner", "admin"}
Roles == {"player", "owner"}

\* A sign-up form.  wellFormed: e-mail, password and phone pass Validate.
Signup == [email: Emails, phone: Phones, role: WireRoles, wellFormed: BOOLEAN]

ASSUME SignupsAssumption == Signups \subseteq Signup
ASSUME NowhereAssumption == Nowhere \notin Cities
ASSUME NoneAssumption == None \notin Accounts \cup Venues \cup Courts \cup Names
ASSUME CatalogueTimeAssumption ==
    /\ RequestTimeout \in Nat \ {0}
    /\ Grace \in Nat
    /\ MaxTime \in Nat
ASSUME CatalogueFailAssumption == CanFail \in BOOLEAN

VARIABLES
    now,        \* the clock
    user,       \* table users: each account's row
    venue,      \* table venues
    court,      \* table courts
    hold,       \* table bookings, of which only who and where matters here
    register,   \* each Register call
    create,     \* each Venue.Create call
    add,        \* each Court.Create call
    book        \* each Book call, up to its insert

calls == <<register, create, add, book>>
tables == <<user, venue, court, hold>>
vars == <<now, tables, calls>>

Never == -1
Times == Nat \cup {Never}

\* off is since when is_active is false.
Account == [there: BOOLEAN, email: Emails \cup {None}, phone: Phones \cup {None},
            role: Roles \cup {None}, off: Times]
NoAccount == [there |-> FALSE, email |-> None, phone |-> None, role |-> None, off |-> Never]

Venue == [there: BOOLEAN, owner: Accounts \cup {None}, city: Cities \cup {None},
          timezone: {TimezoneOf[c] : c \in Cities} \cup {None}, off: Times]
NoVenue == [there |-> FALSE, owner |-> None, city |-> None, timezone |-> None, off |-> Never]

Court == [there: BOOLEAN, venue: Venues \cup {None}, name: Names \cup {None}, off: Times]
NoCourt == [there |-> FALSE, venue |-> None, name |-> None, off |-> Never]

Hold == [there: BOOLEAN, player: Accounts \cup {None}, court: Courts \cup {None}]
NoHold == [there |-> FALSE, player |-> None, court |-> None]

-----------------------------------------------------------------------------
(* Answers.                                                                *)

Kinds == {"invalid", "not_found", "conflict", "unauthorized", "forbidden", "internal"}

\* The kind each error is declared with; "" stands for no answer yet.
Conflicts == {"email_taken", "phone_taken", "court_name_taken", "slot_taken"}
Codes == Conflicts \cup
    {"", "created", "invalid", "venue_city_unsupported", "venue_not_found",
     "court_not_found", "forbidden", "internal_error"}

KindOf(code) ==
    CASE code \in Conflicts -> "conflict"
      [] code \in {"invalid", "venue_city_unsupported"} -> "invalid"
      [] code \in {"venue_not_found", "court_not_found"} -> "not_found"
      [] code = "forbidden" -> "forbidden"
      [] OTHER -> "internal"

statusFor(kind) ==
    CASE kind = "invalid" -> 400
      [] kind = "not_found" -> 404
      [] kind = "conflict" -> 409
      [] kind = "unauthorized" -> 401
      [] kind = "forbidden" -> 403
      [] OTHER -> 500

\* The status a finished call was answered with.
Status(call) == IF call.code = "created" THEN 201 ELSE statusFor(KindOf(call.code))

\* The Timeout middleware left out.
BuggyContextDone(call) == FALSE

ContextDone(call) == now >= call.start + RequestTimeout

\* A call told the outcome of its insert keeps what it asked for, any other
\* only its answer: it is as one that never asked.
Answered(call, code) == [call EXCEPT !.pc = "done", !.code = code, !.start = Never]
Checked(call, pc) == [call EXCEPT !.pc = pc]
Fails(call) == ContextDone(call) \/ CanFail

Steps == {"idle", "asked", "found", "checked", "done"}

-----------------------------------------------------------------------------
(* Register: POST /users.                                                  *)

Registration == [pc: Steps, start: Times, form: Signups \cup {None}, code: Codes]
NoRegistration == [pc |-> "idle", start |-> Never, form |-> None, code |-> ""]

toEntityRole(role) == role \in {"", "player", "owner"}

RoleOf(form) == IF form.role = "" THEN "player" ELSE form.role

Validate(form) == form.wellFormed /\ RoleOf(form) \in Roles

createUser(a, form) ==
    /\ register[a].pc = "idle"
    /\ register' = [register EXCEPT ![a] =
          IF toEntityRole(form.role) /\ Validate(form)
          THEN [pc |-> "checked", start |-> now, form |-> form, code |-> ""]
          ELSE Answered(NoRegistration, "invalid")]
    /\ UNCHANGED <<now, tables, create, add, book>>

\* Phone numbers as before they were made unique.
BuggyClashes(form) ==
    {c \in {"email_taken"} : \E a \in Accounts : user[a].there /\ user[a].email = form.email}

\* The unique constraints a row for this form would break: the e-mail's, which
\* migration 1 has, and the phone number's, which migration 5 adds.
Clashes(form) ==
    {c \in {"email_taken", "phone_taken"} : \E a \in Accounts :
        /\ user[a].there
        /\ \/ c = "email_taken" /\ user[a].email = form.email
           \/ c = "phone_taken" /\ user[a].phone = form.phone}

\* The role as it came rather than as it was defaulted.
BuggyInsertUser(a, form) ==
    user' = [user EXCEPT ![a] =
        [there |-> TRUE, email |-> form.email, phone |-> form.phone,
         role |-> form.role, off |-> Never]]

InsertUser(a, form) ==
    user' = [user EXCEPT ![a] =
        [there |-> TRUE, email |-> form.email, phone |-> form.phone,
         role |-> RoleOf(form), off |-> Never]]

\* Every 23505 taken for the e-mail's.
BuggyErrorOf(clash) == "email_taken"

\* The error told for a broken constraint.
ErrorOf(clash) == clash

\* Of two broken constraints either may be reported.  The insert may also
\* commit and its answer get lost.
CreateUser(a) ==
    LET call == register[a]
    IN  /\ call.pc = "checked"
        /\ \/ /\ ~ContextDone(call) /\ Clashes(call.form) = {}
              /\ InsertUser(a, call.form)
              /\ \/ register' = [register EXCEPT ![a] = Answered(call, "created")]
                 \/ /\ CanFail
                    /\ register' = [register EXCEPT
                          ![a] = Answered(NoRegistration, "internal_error")]
           \/ /\ ~ContextDone(call)
              /\ \E c \in Clashes(call.form) :
                    register' = [register EXCEPT ![a] = Answered(call, ErrorOf(c))]
              /\ UNCHANGED user
           \/ /\ Fails(call)
              /\ register' = [register EXCEPT ![a] = Answered(NoRegistration, "internal_error")]
              /\ UNCHANGED user
        /\ UNCHANGED <<now, venue, court, hold, create, add, book>>

-----------------------------------------------------------------------------
(* Authentication.                                                         *)

\* Whose request, come at that time, requireAuth lets through by now, going by
\* what Sessions proves of the cache.
requireAuth(a, came) ==
    user[a].there /\ (user[a].off = Never \/ came < user[a].off + Grace)

-----------------------------------------------------------------------------
(* Venue.Create: POST /venues.                                             *)

Creation == [pc: Steps, start: Times, by: Accounts \cup {None},
             city: Cities \cup {Nowhere, None}, code: Codes]
NoCreation == [pc |-> "idle", start |-> Never, by |-> None, city |-> None, code |-> ""]

\* The form passes its Validate or it does not.
createVenue(v, a, city) ==
    /\ create[v].pc = "idle"
    /\ \E came \in 0..now :
          /\ requireAuth(a, came)
          /\ \E call \in {[pc |-> "asked", start |-> came, by |-> a, city |-> city, code |-> ""],
                          Answered(NoCreation, "invalid")} :
                create' = [create EXCEPT ![v] = call]
    /\ UNCHANGED <<now, tables, register, add, book>>

\* Any active account.
BuggyMayRegister(owner) == owner.off = Never

\* Only owners, as they are now and not as the session cache knew them.
MayRegister(owner) == owner.off = Never /\ owner.role = "owner"

GetOwner(v) ==
    LET call == create[v]
    IN  /\ call.pc = "asked"
        /\ \/ /\ ~ContextDone(call)
              /\ create' = [create EXCEPT ![v] =
                    IF MayRegister(user[call.by])
                    THEN Checked(call, "checked") ELSE Answered(NoCreation, "forbidden")]
           \/ /\ Fails(call)
              /\ create' = [create EXCEPT ![v] = Answered(NoCreation, "internal_error")]
        /\ UNCHANGED <<now, tables, register, add, book>>

InsertVenue(v) ==
    venue' = [venue EXCEPT ![v] =
        [there |-> TRUE, owner |-> create[v].by, city |-> create[v].city,
         timezone |-> TimezoneOf[create[v].city], off |-> Never]]

\* The insert that found no city not told from one that inserted.
BuggyCreateVenue(v) ==
    LET call == create[v]
    IN  /\ call.pc = "checked"
        /\ \/ /\ ~ContextDone(call)
              /\ IF call.city \in Cities THEN InsertVenue(v) ELSE UNCHANGED venue
              /\ create' = [create EXCEPT ![v] = Answered(NoCreation, "created")]
           \/ /\ Fails(call)
              /\ create' = [create EXCEPT ![v] = Answered(NoCreation, "internal_error")]
              /\ UNCHANGED venue
        /\ UNCHANGED <<now, user, court, hold, register, add, book>>

\* The insert selects from cities: an unknown one inserts nothing.
CreateVenue(v) ==
    LET call == create[v]
    IN  /\ call.pc = "checked"
        /\ \/ /\ ~ContextDone(call) /\ call.city \in Cities
              /\ InsertVenue(v)
              /\ \/ create' = [create EXCEPT ![v] = Answered(NoCreation, "created")]
                 \/ /\ CanFail
                    /\ create' = [create EXCEPT ![v] = Answered(NoCreation, "internal_error")]
           \/ /\ ~ContextDone(call) /\ call.city \notin Cities
              /\ create' = [create EXCEPT ![v] = Answered(NoCreation, "venue_city_unsupported")]
              /\ UNCHANGED venue
           \/ /\ Fails(call)
              /\ create' = [create EXCEPT ![v] = Answered(NoCreation, "internal_error")]
              /\ UNCHANGED venue
        /\ UNCHANGED <<now, user, court, hold, register, add, book>>

-----------------------------------------------------------------------------
(* Court.Create: POST /venues/{venueID}/courts.                            *)

Addition == [pc: Steps, start: Times, by: Accounts \cup {None},
             venue: Venues \cup {None}, name: Names \cup {None}, code: Codes]
NoAddition == [pc |-> "idle", start |-> Never, by |-> None, venue |-> None,
               name |-> None, code |-> ""]

\* Any venue can be named, also one that is not there (yet).
createCourt(k, a, v, name) ==
    /\ add[k].pc = "idle"
    /\ \E came \in 0..now :
          /\ requireAuth(a, came)
          /\ \E call \in {[pc |-> "asked", start |-> came, by |-> a, venue |-> v, name |-> name,
                           code |-> ""],
                          Answered(NoAddition, "invalid")} :
                add' = [add EXCEPT ![k] = call]
    /\ UNCHANGED <<now, tables, register, create, book>>

\* The venue is the caller's and active.  Nobody asks whether the caller's
\* account still is: requireAuth did, of the cache.
MayAdd(a, v) == venue[v].off = Never /\ venue[v].owner = a

GetVenue(k) ==
    LET call == add[k]
    IN  /\ call.pc = "asked"
        /\ \/ /\ ~ContextDone(call)
              /\ add' = [add EXCEPT ![k] =
                    IF ~venue[call.venue].there THEN Answered(NoAddition, "venue_not_found")
                    ELSE IF MayAdd(call.by, call.venue) THEN Checked(call, "checked")
                    ELSE Answered(NoAddition, "forbidden")]
           \/ /\ Fails(call)
              /\ add' = [add EXCEPT ![k] = Answered(NoAddition, "internal_error")]
        /\ UNCHANGED <<now, tables, register, create, book>>

\* The index on (venue_id, name).
NameTaken(v, name) ==
    \E k \in Courts : court[k].there /\ court[k].venue = v /\ court[k].name = name

InsertCourt(k) ==
    court' = [court EXCEPT ![k] =
        [there |-> TRUE, venue |-> add[k].venue, name |-> add[k].name, off |-> Never]]

CreateCourt(k) ==
    LET call == add[k]
    IN  /\ call.pc = "checked"
        /\ \/ /\ ~ContextDone(call) /\ ~NameTaken(call.venue, call.name)
              /\ InsertCourt(k)
              /\ \/ add' = [add EXCEPT ![k] = Answered(call, "created")]
                 \/ CanFail /\ add' = [add EXCEPT ![k] = Answered(NoAddition, "internal_error")]
           \/ /\ ~ContextDone(call) /\ NameTaken(call.venue, call.name)
              /\ add' = [add EXCEPT ![k] = Answered(call, "court_name_taken")]
              /\ UNCHANGED court
           \/ /\ Fails(call)
              /\ add' = [add EXCEPT ![k] = Answered(NoAddition, "internal_error")]
              /\ UNCHANGED court
        /\ UNCHANGED <<now, user, venue, hold, register, create, book>>

-----------------------------------------------------------------------------
(* Book, up to its insert: POST /courts/{courtID}/bookings.                *)

Booking == [pc: Steps, start: Times, by: Accounts \cup {None},
            court: Courts \cup {None}, code: Codes]
NoBooking == [pc |-> "idle", start |-> Never, by |-> None, court |-> None, code |-> ""]

createBooking(h, a, k) ==
    /\ book[h].pc = "idle"
    /\ \E came \in 0..now :
          /\ requireAuth(a, came)
          /\ \E call \in {[pc |-> "asked", start |-> came, by |-> a, court |-> k, code |-> ""],
                          Answered(NoBooking, "invalid")} :
                book' = [book EXCEPT ![h] = call]
    /\ UNCHANGED <<now, tables, register, create, add>>

MayBook(player) == player.off = Never /\ player.role = "player"

GetPlayer(h) ==
    LET call == book[h]
    IN  /\ call.pc = "asked"
        /\ \/ /\ ~ContextDone(call)
              /\ book' = [book EXCEPT ![h] =
                    IF MayBook(user[call.by])
                    THEN Checked(call, "found") ELSE Answered(NoBooking, "forbidden")]
           \/ /\ Fails(call)
              /\ book' = [book EXCEPT ![h] = Answered(NoBooking, "internal_error")]
        /\ UNCHANGED <<now, tables, register, create, add>>

\* Court and venue are read together.  The rest of ValidateSlot (the grid, the
\* horizon) is CourtCalendar's and lets the slot through here or does not.
GetCourtWithVenue(h) ==
    LET call == book[h]
        row == court[call.court]
        open == venue[row.venue].off = Never /\ row.off = Never
    IN  /\ call.pc = "found"
        /\ \/ /\ ~ContextDone(call) /\ row.there /\ open
              /\ book' = [book EXCEPT ![h] = Checked(call, "checked")]
           \/ /\ ~ContextDone(call) /\ row.there
              /\ \E code \in IF open THEN {"invalid"} ELSE {"forbidden"} :
                    book' = [book EXCEPT ![h] = Answered(NoBooking, code)]
           \/ /\ ~ContextDone(call) /\ ~row.there
              /\ book' = [book EXCEPT ![h] = Answered(NoBooking, "court_not_found")]
           \/ /\ Fails(call)
              /\ book' = [book EXCEPT ![h] = Answered(NoBooking, "internal_error")]
        /\ UNCHANGED <<now, tables, register, create, add>>

InsertHold(h) ==
    hold' = [hold EXCEPT ![h] = [there |-> TRUE, player |-> book[h].by, court |-> book[h].court]]

\* Whether the slot is taken is Bookings' subject: here it is or it is not.
HoldSlot(h) ==
    LET call == book[h]
    IN  /\ call.pc = "checked"
        /\ \/ /\ ~ContextDone(call)
              /\ InsertHold(h)
              /\ \/ book' = [book EXCEPT ![h] = Answered(NoBooking, "created")]
                 \/ CanFail /\ book' = [book EXCEPT ![h] = Answered(NoBooking, "internal_error")]
           \/ /\ ~ContextDone(call)
              /\ book' = [book EXCEPT ![h] = Answered(NoBooking, "slot_taken")]
              /\ UNCHANGED hold
           \/ /\ Fails(call)
              /\ book' = [book EXCEPT ![h] = Answered(NoBooking, "internal_error")]
              /\ UNCHANGED hold
        /\ UNCHANGED <<now, user, venue, court, register, create, add>>

-----------------------------------------------------------------------------
(* Around the code.                                                        *)

DeactivateUser(a) ==
    /\ user[a].there /\ user[a].off = Never
    /\ user' = [user EXCEPT ![a].off = now]
    /\ UNCHANGED <<now, venue, court, hold, calls>>

DeactivateVenue(v) ==
    /\ venue[v].there /\ venue[v].off = Never
    /\ venue' = [venue EXCEPT ![v].off = now]
    /\ UNCHANGED <<now, user, court, hold, calls>>

DeactivateCourt(k) ==
    /\ court[k].there /\ court[k].off = Never
    /\ court' = [court EXCEPT ![k].off = now]
    /\ UNCHANGED <<now, user, venue, hold, calls>>

Tick ==
    /\ now < MaxTime
    /\ now' = now + 1
    /\ UNCHANGED <<tables, calls>>

-----------------------------------------------------------------------------
Init ==
    /\ now = 0
    /\ user = [a \in Accounts |-> NoAccount]
    /\ venue = [v \in Venues |-> NoVenue]
    /\ court = [k \in Courts |-> NoCourt]
    /\ hold = [h \in Holds |-> NoHold]
    /\ register = [a \in Accounts |-> NoRegistration]
    /\ create = [v \in Venues |-> NoCreation]
    /\ add = [k \in Courts |-> NoAddition]
    /\ book = [h \in Holds |-> NoBooking]

Register(a) == (\E form \in Signups : createUser(a, form)) \/ CreateUser(a)

RegisterVenue(v) ==
    \/ \E a \in Accounts, city \in Cities \cup {Nowhere} : createVenue(v, a, city)
    \/ GetOwner(v) \/ CreateVenue(v)

AddCourt(k) ==
    \/ \E a \in Accounts, v \in Venues, name \in Names : createCourt(k, a, v, name)
    \/ GetVenue(k) \/ CreateCourt(k)

Book(h) ==
    \/ \E a \in Accounts, k \in Courts : createBooking(h, a, k)
    \/ GetPlayer(h) \/ GetCourtWithVenue(h) \/ HoldSlot(h)

Next ==
    \/ \E a \in Accounts : Register(a) \/ DeactivateUser(a)
    \/ \E v \in Venues : RegisterVenue(v) \/ DeactivateVenue(v)
    \/ \E k \in Courts : AddCourt(k) \/ DeactivateCourt(k)
    \/ \E h \in Holds : Book(h)
    \/ Tick

Spec == Init /\ [][Next]_vars

-----------------------------------------------------------------------------
(* What the catalogue promises.                                            *)

\* Every variable keeps its type; every role and timezone is a known one.
CatalogueTypeOK ==
    /\ now \in Nat
    /\ user \in [Accounts -> Account]
    /\ venue \in [Venues -> Venue]
    /\ court \in [Courts -> Court]
    /\ hold \in [Holds -> Hold]
    /\ register \in [Accounts -> Registration]
    /\ create \in [Venues -> Creation]
    /\ add \in [Courts -> Addition]
    /\ book \in [Holds -> Booking]

\* A client can go by its answer (statusFor, response.go:69): after 201 the row
\* is there, after any 4xx nothing was written and the request may be mended and sent
\* again.  Only a 500 leaves it open.
AnswerTellsRow(call, row) ==
    call.pc = "done" =>
        /\ Status(call) = 201 => row.there
        /\ Status(call) \in 400..499 => ~row.there
AnswersTellRows ==
    /\ \A a \in Accounts : AnswerTellsRow(register[a], user[a])
    /\ \A v \in Venues : AnswerTellsRow(create[v], venue[v])
    /\ \A k \in Courts : AnswerTellsRow(add[k], court[k])
    /\ \A h \in Holds : AnswerTellsRow(book[h], hold[h])

\* Of two sign-ups with one e-mail or one phone number at most one is told it
\* succeeded, and so of two courts with one name at one venue, however their
\* steps interleave (user_repo.go:44, court_repo.go:42).
OneWinner ==
    /\ \A a, b \in Accounts :
          /\ a # b /\ register[a].code = "created" /\ register[b].code = "created"
          => /\ register[a].form.email # register[b].form.email
             /\ register[a].form.phone # register[b].form.phone
    /\ \A k, l \in Courts :
          k # l /\ add[k].code = "created" /\ add[l].code = "created"
          => add[k].venue # add[l].venue \/ add[k].name # add[l].name

\* Nobody is turned away for a clash that is not there: the key the answer
\* names is held by somebody else's row ("which column clashed is in the
\* constraint name", user_repo.go:47).
ConflictsAreReal ==
    /\ \A a \in Accounts :
          /\ register[a].code = "email_taken" =>
                \E b \in Accounts \ {a} : user[b].there /\ user[b].email = register[a].form.email
          /\ register[a].code = "phone_taken" =>
                \E b \in Accounts \ {a} : user[b].there /\ user[b].phone = register[a].form.phone
    /\ \A k \in Courts : add[k].code = "court_name_taken" =>
          \E l \in Courts \ {k} :
              court[l].there /\ court[l].venue = add[k].venue /\ court[l].name = add[k].name

\* Whoever stands behind a row was entitled to it, however late its insert
\* came: a venue is an owner's and in its city's timezone, a court is at such
\* a venue, a held slot is a player's at such a court.
WellOwned ==
    /\ \A v \in Venues : venue[v].there =>
          /\ user[venue[v].owner].there /\ user[venue[v].owner].role = "owner"
          /\ venue[v].timezone = TimezoneOf[venue[v].city]
    /\ \A k \in Courts : court[k].there => venue[court[k].venue].there
    /\ \A h \in Holds : hold[h].there =>
          /\ court[hold[h].court].there
          /\ user[hold[h].player].there /\ user[hold[h].player].role = "player"

StillOpen(row, within) == row.off = Never \/ now < row.off + within

\* The checks before an insert may be stale, but not by much: what is created
\* under an account, a venue or a court that was deactivated is created within
\* a request's time of that, and a court whose owner was within Grace more
\* (Court.Create leaves the owner to the session cache).  And only its owner
\* ever adds a court to a venue.
CreatedInTime ==
    [][ /\ \A v \in Venues : ~venue[v].there /\ venue'[v].there =>
              StillOpen(user[venue'[v].owner], RequestTimeout)
        /\ \A k \in Courts : ~court[k].there /\ court'[k].there =>
              /\ venue[court'[k].venue].owner = add[k].by
              /\ StillOpen(venue[court'[k].venue], RequestTimeout)
              /\ StillOpen(user[venue[court'[k].venue].owner], Grace + RequestTimeout)
        /\ \A h \in Holds : ~hold[h].there /\ hold'[h].there =>
              /\ StillOpen(user[hold'[h].player], RequestTimeout)
              /\ StillOpen(court[hold'[h].court], RequestTimeout)
              /\ StillOpen(venue[court[hold'[h].court].venue], RequestTimeout)
      ]_vars
=============================================================================
