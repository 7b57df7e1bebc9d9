-------------------------- MODULE CatalogueProofs --------------------------
(***************************************************************************)
(* Proofs about Catalogue, for every set of accounts, venues, courts and   *)
(* holds, every sign-up form, and every length of request and of the       *)
(* session cache's grace.                                                  *)
(***************************************************************************)
EXTENDS Catalogue, TLAPS

-----------------------------------------------------------------------------
(* The inductive invariant.                                                *)

\* The answers that say nothing was written.
Refusals == {"invalid", "venue_city_unsupported", "venue_not_found", "court_not_found",
             "forbidden", "email_taken", "phone_taken", "court_name_taken", "slot_taken"}

\* A call and the row it may insert: there is no row before the call is done,
\* and none if it was refused.
Paired(call, row) ==
    /\ call.pc # "done" => ~row.there /\ call.code = ""
    /\ call.code = "created" => row.there
    /\ call.code \in Refusals => ~row.there

\* A call under way began by now; what it checked was open when it began, or
\* let it in for so much longer.
Begun(call) == call.start \in Nat /\ call.start <= now
OpenAt(row, time) == row.off = Never \/ time <= row.off
LetIn(call, a) ==
    /\ a \in Accounts /\ user[a].there
    /\ user[a].off = Never \/ call.start <= user[a].off + Grace

Registered(a) ==
    LET call == register[a]
    IN  /\ call.pc \in {"idle", "checked", "done"}
        /\ Paired(call, user[a])
        /\ call.pc = "checked" => Begun(call) /\ call.form \in Signups /\ Validate(call.form)
        /\ call.code \in {"created", "email_taken", "phone_taken"} =>
              call.pc = "done" /\ call.form \in Signups
        /\ call.code = "created" =>
              user[a].email = call.form.email /\ user[a].phone = call.form.phone
        /\ call.code = "email_taken" => \E b \in Accounts \ {a} :
              user[b].there /\ user[b].email = call.form.email
        /\ call.code = "phone_taken" => \E b \in Accounts \ {a} :
              user[b].there /\ user[b].phone = call.form.phone

CreationFits(v, call) ==
    /\ call.pc \in {"idle", "asked", "checked", "done"}
    /\ Paired(call, venue[v])
    /\ call.pc \in {"asked", "checked"} =>
          Begun(call) /\ LetIn(call, call.by) /\ call.city \in Cities \cup {Nowhere}
    /\ call.pc = "checked" =>
          user[call.by].role = "owner" /\ OpenAt(user[call.by], call.start)
VenueCreated(v) == CreationFits(v, create[v])

AdditionFits(k, call) ==
    /\ call.pc \in {"idle", "asked", "checked", "done"}
    /\ Paired(call, court[k])
    /\ call.pc \in {"asked", "checked"} =>
          /\ Begun(call) /\ LetIn(call, call.by)
          /\ call.venue \in Venues /\ call.name \in Names
    /\ call.pc = "checked" =>
          /\ venue[call.venue].there /\ venue[call.venue].owner = call.by
          /\ OpenAt(venue[call.venue], call.start)
    /\ call.code = "created" =>
          /\ call.pc = "done"
          /\ court[k].venue = call.venue /\ court[k].name = call.name
    /\ call.code = "court_name_taken" =>
          \E l \in Courts \ {k} :
              court[l].there /\ court[l].venue = call.venue /\ court[l].name = call.name
CourtAdded(k) == AdditionFits(k, add[k])

BookingFits(h, call) ==
    /\ Paired(call, hold[h])
    /\ call.pc \in {"asked", "found", "checked"} =>
          Begun(call) /\ LetIn(call, call.by) /\ call.court \in Courts
    /\ call.pc \in {"found", "checked"} =>
          user[call.by].role = "player" /\ OpenAt(user[call.by], call.start)
    /\ call.pc = "checked" =>
          /\ court[call.court].there /\ OpenAt(court[call.court], call.start)
          /\ OpenAt(venue[court[call.court].venue], call.start)
SlotBooked(h) == BookingFits(h, book[h])

\* Every row refers to rows that are there and entitle it.
UserStands(a) == user[a].there =>
    user[a].role \in Roles /\ user[a].off <= now

VenueStands(v) == venue[v].there =>
    /\ venue[v].owner \in Accounts
    /\ user[venue[v].owner].there /\ user[venue[v].owner].role = "owner"
    /\ venue[v].city \in Cities /\ venue[v].timezone = TimezoneOf[venue[v].city]
    /\ venue[v].off <= now

CourtStands(k) == court[k].there =>
    /\ court[k].venue \in Venues /\ venue[court[k].venue].there
    /\ court[k].off <= now

HoldStands(h) == hold[h].there =>
    /\ hold[h].court \in Courts /\ court[hold[h].court].there
    /\ hold[h].player \in Accounts
    /\ user[hold[h].player].there /\ user[hold[h].player].role = "player"

\* The unique constraints.
Unique ==
    /\ \A a, b \in Accounts : a # b /\ user[a].there /\ user[b].there =>
          user[a].email # user[b].email /\ user[a].phone # user[b].phone
    /\ \A k, l \in Courts : k # l /\ court[k].there /\ court[l].there =>
          court[k].venue # court[l].venue \/ court[k].name # court[l].name

Inv ==
    /\ CatalogueTypeOK
    /\ \A a \in Accounts : Registered(a) /\ UserStands(a)
    /\ \A v \in Venues : VenueCreated(v) /\ VenueStands(v)
    /\ \A k \in Courts : CourtAdded(k) /\ CourtStands(k)
    /\ \A h \in Holds : SlotBooked(h) /\ HoldStands(h)
    /\ Unique
-----------------------------------------------------------------------------
(* What a step leaves of the rows and the calls it does not concern.       *)

\* A row may be deactivated and stays otherwise as it was inserted.
OffKept(old, new) ==
    \/ new.off = old.off
    \/ old.off = Never /\ new.off = now

RowsKept ==
    /\ now' \in Nat /\ now <= now'
    /\ \A a \in Accounts : user[a].there =>
          /\ user'[a].there /\ user'[a].email = user[a].email /\ user'[a].phone = user[a].phone
          /\ user'[a].role = user[a].role /\ OffKept(user[a], user'[a])
    /\ \A v \in Venues : venue[v].there =>
          /\ venue'[v].there /\ venue'[v].owner = venue[v].owner
          /\ venue'[v].city = venue[v].city /\ venue'[v].timezone = venue[v].timezone
          /\ OffKept(venue[v], venue'[v])
    /\ \A k \in Courts : court[k].there =>
          /\ court'[k].there /\ court'[k].venue = court[k].venue
          /\ court'[k].name = court[k].name /\ OffKept(court[k], court'[k])
    /\ \A h \in Holds : hold[h].there => hold'[h] = hold[h]

\* What was let in, or was open at some time in the past, still is.
LEMMA OpenKept ==
    ASSUME NEW old, NEW new, NEW time \in Nat, old.off \in Times, OffKept(old, new),
           now \in Nat, time <= now, OpenAt(old, time)
    PROVE  OpenAt(new, time)
BY DEF OffKept, OpenAt, Times, Never

LEMMA LetInKept ==
    ASSUME Inv, RowsKept, NEW call, NEW a, Begun(call), LetIn(call, a)
    PROVE  a \in Accounts /\ user'[a].there
           /\ (user'[a].off = Never \/ call.start <= user'[a].off + Grace)
<1>1. a \in Accounts /\ user[a].there /\ user[a] \in Account /\ now \in Nat
    BY DEF LetIn, Inv, CatalogueTypeOK
<1> QED BY <1>1, CatalogueTimeAssumption
    DEF RowsKept, OffKept, LetIn, Begun, Account, Times, Never

LEMMA OffByNow ==
    ASSUME NEW old, NEW new, old.off \in Times, OffKept(old, new), old.off <= now,
           now \in Nat, now' \in Nat, now <= now'
    PROVE  new.off <= now'
BY DEF OffKept, Times, Never

\* A registration that does not move keeps its part of the invariant.
LEMMA RegistrationKept ==
    ASSUME Inv, CatalogueTypeOK', RowsKept, NEW a \in Accounts,
           register'[a] = register[a], user'[a].there = user[a].there
    PROVE  Registered(a)' /\ UserStands(a)'
<1>1. Registered(a) /\ UserStands(a) BY DEF Inv
<1>2. now \in Nat /\ user[a] \in Account /\ user'[a] \in Account BY DEF Inv, CatalogueTypeOK
<1>3. Begun(register[a]) => Begun(register[a])' BY <1>2 DEF RowsKept, Begun
<1>4. \A b \in Accounts : user[b].there => user'[b].there /\ user'[b].email = user[b].email
                                           /\ user'[b].phone = user[b].phone
    BY DEF RowsKept
<1>5. Registered(a)'
    <2>1. register[a].code = "email_taken" => \E b \in Accounts \ {a} :
              user'[b].there /\ user'[b].email = register[a].form.email
        BY <1>1, <1>4 DEF Registered
    <2>2. register[a].code = "phone_taken" => \E b \in Accounts \ {a} :
              user'[b].there /\ user'[b].phone = register[a].form.phone
        BY <1>1, <1>4 DEF Registered
    <2> QED BY <1>1, <1>3, <1>4, <2>1, <2>2 DEF Registered, Paired, Begun
<1>6. UserStands(a)'
    <2>1. CASE ~user[a].there BY <2>1 DEF UserStands
    <2>2. CASE user[a].there
        <3>1. user[a].off \in Times /\ user[a].off <= now
            BY <1>1, <1>2, <2>2 DEF UserStands, Account
        <3>2. OffKept(user[a], user'[a]) /\ now' \in Nat /\ now <= now'
            BY <2>2 DEF RowsKept
        <3>3. user'[a].off <= now' BY <1>2, <3>1, <3>2, OffByNow
        <3> QED BY <1>1, <2>2, <3>3 DEF RowsKept, UserStands
    <2> QED BY <2>1, <2>2
<1> QED BY <1>5, <1>6

\* A creation that does not move keeps its part of the invariant.
LEMMA CreationKept ==
    ASSUME Inv, CatalogueTypeOK', RowsKept, NEW v \in Venues,
           create'[v] = create[v], venue'[v].there = venue[v].there
    PROVE  VenueCreated(v)' /\ VenueStands(v)'
<1>1. VenueCreated(v) /\ VenueStands(v) BY DEF Inv
<1>2. /\ now \in Nat /\ venue[v] \in Venue /\ venue'[v] \in Venue
      /\ create[v] \in Creation /\ user \in [Accounts -> Account]
    BY DEF Inv, CatalogueTypeOK
<1>3. VenueCreated(v)'
    <2>1. CASE create[v].pc \in {"asked", "checked"}
        <3>1. Begun(create[v]) /\ LetIn(create[v], create[v].by)
            BY <1>1, <2>1 DEF VenueCreated, CreationFits
        <3>2. Begun(create[v])' BY <1>2, <3>1 DEF RowsKept, Begun
        <3>3. LetIn(create[v], create[v].by)' BY <3>1, LetInKept DEF LetIn
        <3>4. create[v].pc = "checked" =>
                  /\ user'[create[v].by].role = "owner"
                  /\ OpenAt(user'[create[v].by], create[v].start)
            BY <1>1, <1>2, <3>1, OpenKept
            DEF RowsKept, VenueCreated, CreationFits, LetIn, Begun, Account
        <3> QED BY <1>1, <2>1, <3>2, <3>3, <3>4 DEF VenueCreated, CreationFits, Paired
    <2>2. CASE create[v].pc \notin {"asked", "checked"}
        BY <1>1, <2>2 DEF VenueCreated, CreationFits, Paired
    <2> QED BY <2>1, <2>2
<1>4. VenueStands(v)'
    <2>1. CASE ~venue[v].there BY <2>1 DEF VenueStands
    <2>2. CASE venue[v].there
        <3>1. venue[v].off \in Times /\ venue[v].off <= now
            BY <1>1, <1>2, <2>2 DEF VenueStands, Venue
        <3>2. OffKept(venue[v], venue'[v]) /\ now' \in Nat /\ now <= now'
            BY <2>2 DEF RowsKept
        <3>3. venue'[v].off <= now' BY <1>2, <3>1, <3>2, OffByNow
        <3> QED BY <1>1, <2>2, <3>3 DEF RowsKept, VenueStands
    <2> QED BY <2>1, <2>2
<1> QED BY <1>3, <1>4

\* An addition that does not move keeps its part of the invariant.
LEMMA AdditionKept ==
    ASSUME Inv, CatalogueTypeOK', RowsKept, NEW k \in Courts,
           add'[k] = add[k], court'[k].there = court[k].there
    PROVE  CourtAdded(k)' /\ CourtStands(k)'
<1>1. CourtAdded(k) /\ CourtStands(k) BY DEF Inv
<1>2. /\ now \in Nat /\ court[k] \in Court /\ court'[k] \in Court
      /\ add[k] \in Addition /\ user \in [Accounts -> Account]
      /\ venue \in [Venues -> Venue]
    BY DEF Inv, CatalogueTypeOK
<1>3. CourtAdded(k)'
    <2>1. add[k].code = "court_name_taken" => \E l \in Courts \ {k} :
              court'[l].there /\ court'[l].venue = add[k].venue /\ court'[l].name = add[k].name
        BY <1>1 DEF RowsKept, CourtAdded, AdditionFits
    <2>2. add[k].code = "created" => /\ add[k].pc = "done"
                                     /\ court'[k].venue = add[k].venue
                                     /\ court'[k].name = add[k].name
        BY <1>1 DEF RowsKept, CourtAdded, AdditionFits, Paired
    <2>3. CASE add[k].pc \in {"asked", "checked"}
        <3>1. Begun(add[k]) /\ LetIn(add[k], add[k].by) /\ add[k].venue \in Venues
            BY <1>1, <2>3 DEF CourtAdded, AdditionFits
        <3>2. Begun(add[k])' BY <1>2, <3>1 DEF RowsKept, Begun
        <3>3. LetIn(add[k], add[k].by)' BY <3>1, LetInKept DEF LetIn
        <3>4. add[k].pc = "checked" =>
                  /\ venue'[add[k].venue].there /\ venue'[add[k].venue].owner = add[k].by
                  /\ OpenAt(venue'[add[k].venue], add[k].start)
            BY <1>1, <1>2, <3>1, OpenKept
            DEF RowsKept, CourtAdded, AdditionFits, Begun, Venue
        <3> QED BY <1>1, <2>1, <2>2, <2>3, <3>2, <3>3, <3>4 DEF CourtAdded, AdditionFits, Paired
    <2>4. CASE add[k].pc \notin {"asked", "checked"}
        BY <1>1, <2>1, <2>2, <2>4 DEF CourtAdded, AdditionFits, Paired
    <2> QED BY <2>3, <2>4
<1>4. CourtStands(k)'
    <2>1. CASE ~court[k].there BY <2>1 DEF CourtStands
    <2>2. CASE court[k].there
        <3>1. court[k].off \in Times /\ court[k].off <= now
            BY <1>1, <1>2, <2>2 DEF CourtStands, Court
        <3>2. OffKept(court[k], court'[k]) /\ now' \in Nat /\ now <= now'
            BY <2>2 DEF RowsKept
        <3>3. court'[k].off <= now' BY <1>2, <3>1, <3>2, OffByNow
        <3> QED BY <1>1, <2>2, <3>3 DEF RowsKept, CourtStands
    <2> QED BY <2>1, <2>2
<1> QED BY <1>3, <1>4

\* A booking that does not move keeps its part of the invariant.
LEMMA BookingKept ==
    ASSUME Inv, CatalogueTypeOK', RowsKept, NEW h \in Holds,
           book'[h] = book[h], hold'[h].there = hold[h].there
    PROVE  SlotBooked(h)' /\ HoldStands(h)'
<1>1. SlotBooked(h) /\ HoldStands(h) /\ \A k \in Courts : CourtStands(k) BY DEF Inv
<1>2. /\ now \in Nat /\ book[h] \in Booking /\ user \in [Accounts -> Account]
      /\ venue \in [Venues -> Venue] /\ court \in [Courts -> Court]
    BY DEF Inv, CatalogueTypeOK
<1>3. SlotBooked(h)'
    <2>1. CASE book[h].pc \in {"asked", "found", "checked"}
        <3>1. Begun(book[h]) /\ LetIn(book[h], book[h].by) /\ book[h].court \in Courts
            BY <1>1, <2>1 DEF SlotBooked, BookingFits
        <3>2. Begun(book[h])' BY <1>2, <3>1 DEF RowsKept, Begun
        <3>3. LetIn(book[h], book[h].by)' BY <3>1, LetInKept DEF LetIn
        <3>4. book[h].pc \in {"found", "checked"} =>
                  /\ user'[book[h].by].role = "player"
                  /\ OpenAt(user'[book[h].by], book[h].start)
            BY <1>1, <1>2, <3>1, OpenKept
            DEF RowsKept, SlotBooked, BookingFits, LetIn, Begun, Account
        <3>5. ASSUME book[h].pc = "checked"
              PROVE  /\ court'[book[h].court].there
                     /\ OpenAt(court'[book[h].court], book[h].start)
                     /\ OpenAt(venue'[court'[book[h].court].venue], book[h].start)
            <4> DEFINE k == book[h].court
            <4>1. /\ k \in Courts /\ court[k].there /\ court[k].venue \in Venues
                  /\ venue[court[k].venue].there
                  /\ OpenAt(court[k], book[h].start)
                  /\ OpenAt(venue[court[k].venue], book[h].start)
                BY <1>1, <3>1, <3>5 DEF SlotBooked, BookingFits, CourtStands
            <4>2. /\ court'[k].there /\ court'[k].venue = court[k].venue
                  /\ OffKept(court[k], court'[k])
                  /\ OffKept(venue[court[k].venue], venue'[court[k].venue])
                BY <4>1 DEF RowsKept
            <4>3. court[k].off \in Times /\ venue[court[k].venue].off \in Times
                BY <1>2, <4>1 DEF Court, Venue
            <4> HIDE DEF k
            <4>4. OpenAt(court'[k], book[h].start)
                  /\ OpenAt(venue'[court[k].venue], book[h].start)
                BY <1>2, <3>1, <4>1, <4>2, <4>3, OpenKept DEF Begun
            <4> QED BY <4>2, <4>4 DEF k
        <3> QED BY <1>1, <2>1, <3>1, <3>2, <3>3, <3>4, <3>5 DEF SlotBooked, BookingFits, Paired
    <2>2. CASE book[h].pc \notin {"asked", "found", "checked"}
        BY <1>1, <2>2 DEF SlotBooked, BookingFits, Paired
    <2> QED BY <2>1, <2>2
<1>4. HoldStands(h)'
    BY <1>1 DEF RowsKept, HoldStands
<1> QED BY <1>3, <1>4

\* The unique constraints hold on as long as nobody registers or adds a court.
LEMMA UniqueKept ==
    ASSUME Inv, RowsKept,
           \A a \in Accounts : user'[a].there = user[a].there,
           \A k \in Courts : court'[k].there = court[k].there
    PROVE  Unique'
BY DEF Inv, RowsKept, Unique

\* A step keeps the invariant if it keeps it for the calls that move and the
\* rows that come.
AccountsKept ==
    \A a \in Accounts : \/ register'[a] = register[a] /\ user'[a].there = user[a].there
                        \/ Registered(a)' /\ UserStands(a)'
VenuesKept ==
    \A v \in Venues : \/ create'[v] = create[v] /\ venue'[v].there = venue[v].there
                      \/ VenueCreated(v)' /\ VenueStands(v)'
CourtsKept ==
    \A k \in Courts : \/ add'[k] = add[k] /\ court'[k].there = court[k].there
                      \/ CourtAdded(k)' /\ CourtStands(k)'
HoldsKept ==
    \A h \in Holds : \/ book'[h] = book[h] /\ hold'[h].there = hold[h].there
                     \/ SlotBooked(h)' /\ HoldStands(h)'
KeysKept ==
    \/ /\ \A a \in Accounts : user'[a].there = user[a].there
       /\ \A k \in Courts : court'[k].there = court[k].there
    \/ Unique'

LEMMA OthersKept ==
    ASSUME Inv, CatalogueTypeOK', RowsKept, AccountsKept, VenuesKept, CourtsKept, HoldsKept,
           KeysKept
    PROVE  Inv'
<1>1. \A a \in Accounts : (Registered(a) /\ UserStands(a))'
    BY RegistrationKept DEF AccountsKept
<1>2. \A v \in Venues : (VenueCreated(v) /\ VenueStands(v))' BY CreationKept DEF VenuesKept
<1>3. \A k \in Courts : (CourtAdded(k) /\ CourtStands(k))' BY AdditionKept DEF CourtsKept
<1>4. \A h \in Holds : (SlotBooked(h) /\ HoldStands(h))' BY BookingKept DEF HoldsKept
<1>5. Unique' BY UniqueKept DEF KeysKept
<1> QED BY <1>1, <1>2, <1>3, <1>4, <1>5 DEF Inv

\* What a step leaves alone it keeps.
LEMMA UntouchedKept ==
    /\ UNCHANGED <<register, user>> => AccountsKept
    /\ UNCHANGED <<create, venue>> => VenuesKept
    /\ UNCHANGED <<add, court>> => CourtsKept
    /\ UNCHANGED <<book, hold>> => HoldsKept
    /\ UNCHANGED <<user, court>> => KeysKept
<1>1. UNCHANGED <<register, user>> => AccountsKept BY Zenon DEF AccountsKept
<1>2. UNCHANGED <<create, venue>> => VenuesKept BY Zenon DEF VenuesKept
<1>3. UNCHANGED <<add, court>> => CourtsKept BY Zenon DEF CourtsKept
<1>4. UNCHANGED <<book, hold>> => HoldsKept BY Zenon DEF HoldsKept
<1>5. UNCHANGED <<user, court>> => KeysKept BY Zenon DEF KeysKept
<1> QED BY <1>1, <1>2, <1>3, <1>4, <1>5

\* A step that changes no row keeps the rows.
LEMMA NothingChanged ==
    ASSUME Inv, UNCHANGED <<now, user, venue, court, hold>>
    PROVE  RowsKept
<1>1. now' \in Nat /\ now <= now' BY DEF Inv, CatalogueTypeOK
<1>2. UNCHANGED user /\ UNCHANGED venue /\ UNCHANGED court /\ UNCHANGED hold
    OBVIOUS
<1> QED BY <1>1, <1>2, Zenon DEF RowsKept, OffKept

-----------------------------------------------------------------------------
(* Types of calls.                                                         *)

LEMMA AnsweredTypes ==
    ASSUME NEW code \in Codes
    PROVE  /\ \A call \in Registration : Answered(call, code) \in Registration
           /\ \A call \in Creation : Answered(call, code) \in Creation
           /\ \A call \in Addition : Answered(call, code) \in Addition
           /\ \A call \in Booking : Answered(call, code) \in Booking
<1>1. "done" \in Steps /\ Never \in Times BY DEF Steps, Never, Times
<1>2. \A call \in Registration : Answered(call, code) \in Registration
    BY <1>1 DEF Answered, Registration
<1>3. \A call \in Creation : Answered(call, code) \in Creation
    BY <1>1 DEF Answered, Creation
<1>4. \A call \in Addition : Answered(call, code) \in Addition
    BY <1>1 DEF Answered, Addition
<1>5. \A call \in Booking : Answered(call, code) \in Booking
    BY <1>1 DEF Answered, Booking
<1> QED BY <1>2, <1>3, <1>4, <1>5

LEMMA CheckedTypes ==
    ASSUME NEW pc \in Steps
    PROVE  /\ \A call \in Creation : Checked(call, pc) \in Creation
           /\ \A call \in Addition : Checked(call, pc) \in Addition
           /\ \A call \in Booking : Checked(call, pc) \in Booking
<1>1. \A call \in Creation : Checked(call, pc) \in Creation BY DEF Checked, Creation
<1>2. \A call \in Addition : Checked(call, pc) \in Addition BY DEF Checked, Addition
<1>3. \A call \in Booking : Checked(call, pc) \in Booking BY DEF Checked, Booking
<1> QED BY <1>1, <1>2, <1>3

USE DEF Never, Times, Steps, Codes, Conflicts

LEMMA NoCalls ==
    /\ NoRegistration \in Registration /\ NoCreation \in Creation
    /\ NoAddition \in Addition /\ NoBooking \in Booking
BY DEF NoRegistration, Registration, NoCreation, Creation, NoAddition, Addition,
   NoBooking, Booking

-----------------------------------------------------------------------------
(* Register.                                                               *)

LEMMA createUserStep ==
    ASSUME Inv, NEW a \in Accounts, NEW form \in Signups, createUser(a, form)
    PROVE  Inv'
<1> DEFINE asked == [pc |-> "checked", start |-> now, form |-> form, code |-> ""]
           refused == Answered(NoRegistration, "invalid")
<1>1. /\ now \in Nat /\ register \in [Accounts -> Registration]
      /\ Registered(a) /\ UserStands(a) /\ register[a].pc = "idle"
    BY DEF createUser, Inv, CatalogueTypeOK
<1>2. /\ UNCHANGED <<now, tables, create, add, book>>
      /\ \/ register' = [register EXCEPT ![a] = asked] /\ Validate(form)
         \/ register' = [register EXCEPT ![a] = refused]
    BY DEF createUser
<1>3. asked \in Registration /\ refused \in Registration
    BY <1>1, NoCalls, AnsweredTypes DEF Registration
<1>4. /\ asked.pc = "checked" /\ asked.start = now /\ asked.form = form /\ asked.code = ""
      /\ refused.pc = "done" /\ refused.code = "invalid"
    BY DEF Answered, NoRegistration
<1> HIDE DEF asked, refused
<1>5. CatalogueTypeOK' BY <1>2, <1>3 DEF tables, Inv, CatalogueTypeOK
<1>6. RowsKept BY <1>2, NothingChanged DEF tables
<1>7. Registered(a)' /\ UserStands(a)'
    <2>1. /\ ~user'[a].there
          /\ \/ register'[a] = asked /\ Validate(form)
             \/ register'[a] = refused
        BY <1>1, <1>2 DEF tables, Registered, Paired
    <2>2. register'[a] = asked => Begun(register[a])'
        <3>1. now' = now /\ now \in Nat BY <1>1, <1>2
        <3>2. register'[a] = asked => register'[a].start = now BY <1>4
        <3> QED BY <3>1, <3>2 DEF Begun
    <2> QED BY <1>4, <2>1, <2>2 DEF Registered, UserStands, Paired, Refusals
<1>8. \A b \in Accounts \ {a} : register'[b] = register[b] /\ user'[b].there = user[b].there
    BY <1>1, <1>2 DEF tables
<1>9. AccountsKept BY <1>7, <1>8, Zenon DEF AccountsKept
<1> QED BY <1>2, <1>5, <1>6, <1>9, OthersKept, UntouchedKept DEF tables

LEMMA CreateUserStep ==
    ASSUME Inv, NEW a \in Accounts, CreateUser(a)
    PROVE  Inv'
<1> DEFINE call == register[a]
<1>1. /\ call \in Registration /\ call.form \in Signups /\ Validate(call.form)
      /\ call.pc = "checked" /\ ~user[a].there
    <2>1. register[a] \in Registration /\ Registered(a) BY DEF Inv, CatalogueTypeOK
    <2>2. call.pc = "checked" BY DEF CreateUser
    <2> QED BY <2>1, <2>2 DEF Registered, Paired
<1>2. /\ call.form.email \in Emails /\ call.form.phone \in Phones
      /\ RoleOf(call.form) \in Roles
    BY <1>1, SignupsAssumption DEF Signup, Validate
<1>3. /\ UNCHANGED <<now, venue, court, hold, create, add, book>>
      /\ \/ /\ Clashes(call.form) = {}
            /\ InsertUser(a, call.form)
            /\ register' = [register EXCEPT ![a] = Answered(call, "created")]
         \/ /\ Clashes(call.form) = {}
            /\ InsertUser(a, call.form)
            /\ register' = [register EXCEPT ![a] = Answered(NoRegistration, "internal_error")]
         \/ /\ \E c \in Clashes(call.form) :
                  register' = [register EXCEPT ![a] = Answered(call, c)]
            /\ UNCHANGED user
         \/ /\ register' = [register EXCEPT ![a] = Answered(NoRegistration, "internal_error")]
            /\ UNCHANGED user
    BY DEF CreateUser, ErrorOf
<1>4. CatalogueTypeOK'
    <2>1. /\ Answered(NoRegistration, "internal_error") \in Registration
          /\ Answered(call, "created") \in Registration
          /\ \A c \in Clashes(call.form) : Answered(call, c) \in Registration
        BY <1>1, NoCalls, AnsweredTypes DEF Clashes
    <2>2. InsertUser(a, call.form) => user' \in [Accounts -> Account]
        BY <1>2 DEF InsertUser, Inv, CatalogueTypeOK, Account
    <2> QED BY <1>3, <2>1, <2>2 DEF Inv, CatalogueTypeOK
<1>5. RowsKept
    <2>1. \A b \in Accounts : user[b].there => user'[b] = user[b]
        BY <1>1, <1>3 DEF InsertUser, Inv, CatalogueTypeOK
    <2>2. now' \in Nat /\ now <= now' BY <1>3 DEF Inv, CatalogueTypeOK
    <2>3. UNCHANGED venue /\ UNCHANGED court /\ UNCHANGED hold BY <1>3
    <2> QED BY <2>1, <2>2, <2>3, Zenon DEF RowsKept, OffKept
<1>6. Registered(a)'
    <2>1. CASE \E c \in Clashes(call.form) :
                  register' = [register EXCEPT ![a] = Answered(call, c)] /\ UNCHANGED user
        <3>1. PICK c \in Clashes(call.form) :
                  register' = [register EXCEPT ![a] = Answered(call, c)] /\ UNCHANGED user
            BY <2>1
        <3>2. c \in {"email_taken", "phone_taken"} /\ \E b \in Accounts \ {a} :
                 /\ user[b].there
                 /\ c = "email_taken" => user[b].email = call.form.email
                 /\ c = "phone_taken" => user[b].phone = call.form.phone
            BY <1>1 DEF Clashes
        <3>3. /\ register'[a].pc = "done" /\ register'[a].code = c
              /\ register'[a].form = call.form
            BY <1>1, <3>1 DEF Inv, CatalogueTypeOK, Answered, Registration
        <3> QED BY <1>1, <3>1, <3>2, <3>3 DEF Registered, Paired
    <2>2. CASE /\ InsertUser(a, call.form)
               /\ register' = [register EXCEPT ![a] = Answered(call, "created")]
        BY <1>1, <2>2 DEF Inv, CatalogueTypeOK, InsertUser, Answered, Registration, Registered,
           Paired, Refusals
    <2>3. CASE register' = [register EXCEPT ![a] = Answered(NoRegistration, "internal_error")]
        BY <2>3 DEF Inv, CatalogueTypeOK, Answered, NoRegistration, Registered, Paired, Refusals
    <2> QED BY <1>3, <2>1, <2>2, <2>3
<1>7. UserStands(a)'
    BY <1>1, <1>2, <1>3 DEF Inv, CatalogueTypeOK, InsertUser, UserStands
<1>8. Unique'
    <2>1. Unique BY DEF Inv
    <2>2. CASE UNCHANGED user BY <1>3, <2>1, <2>2 DEF Unique
    <2>3. CASE Clashes(call.form) = {} /\ InsertUser(a, call.form)
        <3>1. \A b \in Accounts : user[b].there =>
                  user[b].email # call.form.email /\ user[b].phone # call.form.phone
            BY <2>3 DEF Clashes
        <3>2. /\ user'[a].email = call.form.email /\ user'[a].phone = call.form.phone
              /\ \A b \in Accounts \ {a} : user'[b] = user[b]
            BY <2>3 DEF InsertUser, Inv, CatalogueTypeOK
        <3> QED BY <1>3, <2>1, <3>1, <3>2 DEF Unique
    <2> QED BY <1>3, <2>2, <2>3
<1>9. \A b \in Accounts \ {a} : register'[b] = register[b] /\ user'[b].there = user[b].there
    BY <1>3 DEF InsertUser, Inv, CatalogueTypeOK
<1>10. AccountsKept BY <1>6, <1>7, <1>9, Zenon DEF AccountsKept
<1>11. KeysKept BY <1>8 DEF KeysKept
<1> QED BY <1>3, <1>4, <1>5, <1>10, <1>11, OthersKept, UntouchedKept

-----------------------------------------------------------------------------
(* Calls that check or are answered.                                       *)

\* A step that only moves a creation keeps the invariant if the call it moves
\* to does.
LEMMA CreationMoves ==
    ASSUME Inv, NEW v \in Venues, NEW call \in Creation, CreationFits(v, call),
           create' = [create EXCEPT ![v] = call],
           UNCHANGED <<now, user, venue, court, hold, register, add, book>>
    PROVE  Inv'
<1>1. create \in [Venues -> Creation] /\ VenueStands(v) BY DEF Inv, CatalogueTypeOK
<1>2. CatalogueTypeOK' BY <1>1 DEF Inv, CatalogueTypeOK
<1>3. RowsKept BY NothingChanged
<1>4. create'[v] = call /\ \A x \in Venues \ {v} : create'[x] = create[x] BY <1>1
<1>5. CreationFits(v, call)'
    BY DEF CreationFits, Paired, Begun, LetIn, OpenAt
<1>6. VenueCreated(v)' /\ VenueStands(v)'
    BY <1>1, <1>4, <1>5 DEF VenueCreated, VenueStands
<1>7. VenuesKept BY <1>4, <1>6, Zenon DEF VenuesKept
<1> QED BY <1>2, <1>3, <1>7, OthersKept, UntouchedKept

\* A step that only moves an addition keeps the invariant if the call it moves
\* to does.
LEMMA AdditionMoves ==
    ASSUME Inv, NEW k \in Courts, NEW call \in Addition, AdditionFits(k, call),
           add' = [add EXCEPT ![k] = call],
           UNCHANGED <<now, user, venue, court, hold, register, create, book>>
    PROVE  Inv'
<1>1. add \in [Courts -> Addition] /\ CourtStands(k) BY DEF Inv, CatalogueTypeOK
<1>2. CatalogueTypeOK' BY <1>1 DEF Inv, CatalogueTypeOK
<1>3. RowsKept BY NothingChanged
<1>4. add'[k] = call /\ \A x \in Courts \ {k} : add'[x] = add[x] BY <1>1
<1>5. AdditionFits(k, call)'
    BY DEF AdditionFits, Paired, Begun, LetIn, OpenAt
<1>6. CourtAdded(k)' /\ CourtStands(k)'
    BY <1>1, <1>4, <1>5 DEF CourtAdded, CourtStands
<1>7. CourtsKept BY <1>4, <1>6, Zenon DEF CourtsKept
<1> QED BY <1>2, <1>3, <1>7, OthersKept, UntouchedKept

\* A step that only moves a booking keeps the invariant if the call it moves
\* to does.
LEMMA BookingMoves ==
    ASSUME Inv, NEW h \in Holds, NEW call \in Booking, BookingFits(h, call),
           book' = [book EXCEPT ![h] = call],
           UNCHANGED <<now, user, venue, court, hold, register, create, add>>
    PROVE  Inv'
<1>1. book \in [Holds -> Booking] /\ HoldStands(h) BY DEF Inv, CatalogueTypeOK
<1>2. CatalogueTypeOK' BY <1>1 DEF Inv, CatalogueTypeOK
<1>3. RowsKept BY NothingChanged
<1>4. book'[h] = call /\ \A x \in Holds \ {h} : book'[x] = book[x] BY <1>1
<1>5. BookingFits(h, call)'
    BY DEF BookingFits, Paired, Begun, LetIn, OpenAt
<1>6. SlotBooked(h)' /\ HoldStands(h)'
    BY <1>1, <1>4, <1>5 DEF SlotBooked, HoldStands
<1>7. HoldsKept BY <1>4, <1>6, Zenon DEF HoldsKept
<1> QED BY <1>2, <1>3, <1>7, OthersKept, UntouchedKept

\* A call that is answered before its insert fits.
LEMMA AnsweredFits ==
    ASSUME NEW code \in (Refusals \ Conflicts) \cup {"slot_taken", "internal_error"}
    PROVE  /\ \A v \in Venues : ~venue[v].there => CreationFits(v, Answered(NoCreation, code))
           /\ \A k \in Courts : ~court[k].there => AdditionFits(k, Answered(NoAddition, code))
           /\ \A h \in Holds : ~hold[h].there => BookingFits(h, Answered(NoBooking, code))
<1>1. /\ Answered(NoCreation, code).pc = "done" /\ Answered(NoCreation, code).code = code
      /\ Answered(NoAddition, code).pc = "done" /\ Answered(NoAddition, code).code = code
      /\ Answered(NoBooking, code).pc = "done" /\ Answered(NoBooking, code).code = code
    BY DEF Answered, NoCreation, NoAddition, NoBooking
<1>2. code \notin {"created", "court_name_taken"} BY DEF Refusals
<1> QED BY <1>1, <1>2 DEF CreationFits, AdditionFits, BookingFits, Paired

LEMMA createVenueStep ==
    ASSUME Inv, NEW v \in Venues, NEW a \in Accounts, NEW city \in Cities \cup {Nowhere},
           createVenue(v, a, city)
    PROVE  Inv'
<1>1. /\ now \in Nat /\ user[a] \in Account /\ VenueCreated(v) /\ create[v].pc = "idle"
    BY DEF createVenue, Inv, CatalogueTypeOK
<1>2. ~venue[v].there BY <1>1 DEF VenueCreated, CreationFits, Paired
<1> DEFINE asked(came) ==
              [pc |-> "asked", start |-> came, by |-> a, city |-> city, code |-> ""]
           refused == Answered(NoCreation, "invalid")
<1>3. PICK came \in 0..now :
          /\ requireAuth(a, came)
          /\ \E call \in {asked(came), refused} : create' = [create EXCEPT ![v] = call]
    BY DEF createVenue
<1>4. came \in Nat /\ came <= now
    <2> HIDE DEF asked, refused
    <2> QED BY <1>1
<1>5. PICK call \in {asked(came), refused} : create' = [create EXCEPT ![v] = call] BY <1>3
<1>6. asked(came) \in Creation /\ refused \in Creation
    BY <1>4, NoCalls, AnsweredTypes DEF Creation
<1>7. CreationFits(v, asked(came))
    <2>1. asked(came).start = came OBVIOUS
    <2>2. Begun(asked(came)) /\ LetIn(asked(came), a)
        <3> HIDE DEF asked
        <3> QED BY <1>1, <1>3, <1>4, <2>1, CatalogueTimeAssumption
                DEF Begun, LetIn, requireAuth, Account
    <2> QED BY <1>2, <2>2 DEF CreationFits, Paired, Refusals
<1>8. CreationFits(v, refused) BY <1>2, AnsweredFits DEF Refusals
<1>9. UNCHANGED <<now, user, venue, court, hold, register, add, book>>
    BY DEF createVenue, tables
<1> HIDE DEF asked, refused
<1> QED BY <1>5, <1>6, <1>7, <1>8, <1>9, CreationMoves

LEMMA GetOwnerStep ==
    ASSUME Inv, NEW v \in Venues, GetOwner(v)
    PROVE  Inv'
<1> DEFINE old == create[v]
           checked == Checked(old, "checked")
<1>1. /\ VenueCreated(v) /\ old.pc = "asked" /\ old \in Creation
      /\ UNCHANGED <<now, user, venue, court, hold, register, add, book>>
    BY DEF GetOwner, tables, Inv, CatalogueTypeOK
<1>2. ~venue[v].there BY <1>1 DEF VenueCreated, CreationFits, Paired
<1>3. \/ /\ MayRegister(user[old.by])
         /\ create' = [create EXCEPT ![v] = checked]
      \/ \E code \in {"forbidden", "internal_error"} :
            create' = [create EXCEPT ![v] = Answered(NoCreation, code)]
    BY DEF GetOwner
<1>4. CASE MayRegister(user[old.by]) /\ create' = [create EXCEPT ![v] = checked]
    <2>1. checked \in Creation BY <1>1, CheckedTypes
    <2>2. /\ checked.pc = "checked" /\ checked.start = old.start /\ checked.by = old.by
          /\ checked.city = old.city /\ checked.code = old.code
        BY <1>1 DEF Checked, Creation
    <2> HIDE DEF checked, old
    <2>3. CreationFits(v, old) BY <1>1 DEF VenueCreated, old
    <2>4. CreationFits(v, checked)
        BY <1>1, <1>2, <1>4, <2>2, <2>3
        DEF CreationFits, Paired, Begun, LetIn, OpenAt, MayRegister
    <2> QED BY <1>1, <1>4, <2>1, <2>4, CreationMoves
<1>5. CASE \E code \in {"forbidden", "internal_error"} :
              create' = [create EXCEPT ![v] = Answered(NoCreation, code)]
    <2>1. PICK code \in {"forbidden", "internal_error"} :
              create' = [create EXCEPT ![v] = Answered(NoCreation, code)]
        BY <1>5
    <2>2. code \in (Refusals \ Conflicts) \cup {"slot_taken", "internal_error"} /\ code \in Codes
        BY DEF Refusals
    <2>3. /\ Answered(NoCreation, code) \in Creation
          /\ CreationFits(v, Answered(NoCreation, code))
        BY <1>2, <2>2, NoCalls, AnsweredTypes, AnsweredFits
    <2> QED BY <1>1, <2>1, <2>3, CreationMoves
<1> QED BY <1>3, <1>4, <1>5

LEMMA createCourtStep ==
    ASSUME Inv, NEW k \in Courts, NEW a \in Accounts, NEW v \in Venues, NEW name \in Names,
           createCourt(k, a, v, name)
    PROVE  Inv'
<1>1. /\ now \in Nat /\ user[a] \in Account /\ CourtAdded(k) /\ add[k].pc = "idle"
    BY DEF createCourt, Inv, CatalogueTypeOK
<1>2. ~court[k].there BY <1>1 DEF CourtAdded, AdditionFits, Paired
<1> DEFINE asked(came) ==
              [pc |-> "asked", start |-> came, by |-> a, venue |-> v, name |-> name,
               code |-> ""]
           refused == Answered(NoAddition, "invalid")
<1>3. PICK came \in 0..now :
          /\ requireAuth(a, came)
          /\ \E call \in {asked(came), refused} : add' = [add EXCEPT ![k] = call]
    BY DEF createCourt
<1>4. came \in Nat /\ came <= now
    <2> HIDE DEF asked, refused
    <2> QED BY <1>1
<1>5. PICK call \in {asked(came), refused} : add' = [add EXCEPT ![k] = call] BY <1>3
<1>6. asked(came) \in Addition /\ refused \in Addition
    BY <1>4, NoCalls, AnsweredTypes DEF Addition
<1>7. AdditionFits(k, asked(came))
    <2>1. asked(came).start = came OBVIOUS
    <2>2. Begun(asked(came)) /\ LetIn(asked(came), a)
        <3> HIDE DEF asked
        <3> QED BY <1>1, <1>3, <1>4, <2>1, CatalogueTimeAssumption
                DEF Begun, LetIn, requireAuth, Account
    <2> QED BY <1>2, <2>2 DEF AdditionFits, Paired, Refusals
<1>8. AdditionFits(k, refused) BY <1>2, AnsweredFits DEF Refusals
<1>9. UNCHANGED <<now, user, venue, court, hold, register, create, book>>
    BY DEF createCourt, tables
<1> HIDE DEF asked, refused
<1> QED BY <1>5, <1>6, <1>7, <1>8, <1>9, AdditionMoves

LEMMA GetVenueStep ==
    ASSUME Inv, NEW k \in Courts, GetVenue(k)
    PROVE  Inv'
<1> DEFINE old == add[k]
           checked == Checked(old, "checked")
<1>1. /\ CourtAdded(k) /\ old.pc = "asked" /\ old \in Addition
      /\ UNCHANGED <<now, user, venue, court, hold, register, create, book>>
    BY DEF GetVenue, tables, Inv, CatalogueTypeOK
<1>2. ~court[k].there BY <1>1 DEF CourtAdded, AdditionFits, Paired
<1>3. \/ /\ venue[old.venue].there /\ MayAdd(old.by, old.venue)
         /\ add' = [add EXCEPT ![k] = checked]
      \/ \E code \in {"venue_not_found", "forbidden", "internal_error"} :
            add' = [add EXCEPT ![k] = Answered(NoAddition, code)]
    BY DEF GetVenue
<1>4. CASE /\ venue[old.venue].there /\ MayAdd(old.by, old.venue)
           /\ add' = [add EXCEPT ![k] = checked]
    <2>1. checked \in Addition BY <1>1, CheckedTypes
    <2>2. /\ checked.pc = "checked" /\ checked.start = old.start /\ checked.by = old.by
          /\ checked.venue = old.venue /\ checked.name = old.name /\ checked.code = old.code
        BY <1>1 DEF Checked, Addition
    <2> HIDE DEF checked, old
    <2>3. AdditionFits(k, old) BY <1>1 DEF CourtAdded, old
    <2>4. AdditionFits(k, checked)
        BY <1>1, <1>2, <1>4, <2>2, <2>3
        DEF AdditionFits, Paired, Begun, LetIn, OpenAt, MayAdd
    <2> QED BY <1>1, <1>4, <2>1, <2>4, AdditionMoves
<1>5. CASE \E code \in {"venue_not_found", "forbidden", "internal_error"} :
              add' = [add EXCEPT ![k] = Answered(NoAddition, code)]
    <2>1. PICK code \in {"venue_not_found", "forbidden", "internal_error"} :
              add' = [add EXCEPT ![k] = Answered(NoAddition, code)]
        BY <1>5
    <2>2. code \in (Refusals \ Conflicts) \cup {"slot_taken", "internal_error"} /\ code \in Codes
        BY DEF Refusals
    <2>3. /\ Answered(NoAddition, code) \in Addition
          /\ AdditionFits(k, Answered(NoAddition, code))
        BY <1>2, <2>2, NoCalls, AnsweredTypes, AnsweredFits
    <2> QED BY <1>1, <2>1, <2>3, AdditionMoves
<1> QED BY <1>3, <1>4, <1>5

LEMMA createBookingStep ==
    ASSUME Inv, NEW h \in Holds, NEW a \in Accounts, NEW k \in Courts,
           createBooking(h, a, k)
    PROVE  Inv'
<1>1. /\ now \in Nat /\ user[a] \in Account /\ SlotBooked(h) /\ book[h].pc = "idle"
    BY DEF createBooking, Inv, CatalogueTypeOK
<1>2. ~hold[h].there BY <1>1 DEF SlotBooked, BookingFits, Paired
<1> DEFINE asked(came) ==
              [pc |-> "asked", start |-> came, by |-> a, court |-> k, code |-> ""]
           refused == Answered(NoBooking, "invalid")
<1>3. PICK came \in 0..now :
          /\ requireAuth(a, came)
          /\ \E call \in {asked(came), refused} : book' = [book EXCEPT ![h] = call]
    BY DEF createBooking
<1>4. came \in Nat /\ came <= now
    <2> HIDE DEF asked, refused
    <2> QED BY <1>1
<1>5. PICK call \in {asked(came), refused} : book' = [book EXCEPT ![h] = call] BY <1>3
<1>6. asked(came) \in Booking /\ refused \in Booking
    BY <1>4, NoCalls, AnsweredTypes DEF Booking
<1>7. BookingFits(h, asked(came))
    <2>1. asked(came).start = came OBVIOUS
    <2>2. Begun(asked(came)) /\ LetIn(asked(came), a)
        <3> HIDE DEF asked
        <3> QED BY <1>1, <1>3, <1>4, <2>1, CatalogueTimeAssumption
                DEF Begun, LetIn, requireAuth, Account
    <2> QED BY <1>2, <2>2 DEF BookingFits, Paired, Refusals
<1>8. BookingFits(h, refused) BY <1>2, AnsweredFits DEF Refusals
<1>9. UNCHANGED <<now, user, venue, court, hold, register, create, add>>
    BY DEF createBooking, tables
<1> HIDE DEF asked, refused
<1> QED BY <1>5, <1>6, <1>7, <1>8, <1>9, BookingMoves

LEMMA GetPlayerStep ==
    ASSUME Inv, NEW h \in Holds, GetPlayer(h)
    PROVE  Inv'
<1> DEFINE old == book[h]
           found == Checked(old, "found")
<1>1. /\ SlotBooked(h) /\ old.pc = "asked" /\ old \in Booking
      /\ UNCHANGED <<now, user, venue, court, hold, register, create, add>>
    BY DEF GetPlayer, tables, Inv, CatalogueTypeOK
<1>2. ~hold[h].there BY <1>1 DEF SlotBooked, BookingFits, Paired
<1>3. \/ /\ MayBook(user[old.by])
         /\ book' = [book EXCEPT ![h] = found]
      \/ \E code \in {"forbidden", "internal_error"} :
            book' = [book EXCEPT ![h] = Answered(NoBooking, code)]
    BY DEF GetPlayer
<1>4. CASE MayBook(user[old.by]) /\ book' = [book EXCEPT ![h] = found]
    <2>1. found \in Booking BY <1>1, CheckedTypes
    <2>2. /\ found.pc = "found" /\ found.start = old.start /\ found.by = old.by
          /\ found.court = old.court /\ found.code = old.code
        BY <1>1 DEF Checked, Booking
    <2> HIDE DEF found, old
    <2>3. BookingFits(h, old) BY <1>1 DEF SlotBooked, old
    <2>4. BookingFits(h, found)
        BY <1>1, <1>2, <1>4, <2>2, <2>3
        DEF BookingFits, Paired, Begun, LetIn, OpenAt, MayBook
    <2> QED BY <1>1, <1>4, <2>1, <2>4, BookingMoves
<1>5. CASE \E code \in {"forbidden", "internal_error"} :
              book' = [book EXCEPT ![h] = Answered(NoBooking, code)]
    <2>1. PICK code \in {"forbidden", "internal_error"} :
              book' = [book EXCEPT ![h] = Answered(NoBooking, code)]
        BY <1>5
    <2>2. code \in (Refusals \ Conflicts) \cup {"slot_taken", "internal_error"} /\ code \in Codes
        BY DEF Refusals
    <2>3. /\ Answered(NoBooking, code) \in Booking
          /\ BookingFits(h, Answered(NoBooking, code))
        BY <1>2, <2>2, NoCalls, AnsweredTypes, AnsweredFits
    <2> QED BY <1>1, <2>1, <2>3, BookingMoves
<1> QED BY <1>3, <1>4, <1>5

LEMMA GetCourtWithVenueStep ==
    ASSUME Inv, NEW h \in Holds, GetCourtWithVenue(h)
    PROVE  Inv'
<1> DEFINE old == book[h]
           row == court[old.court]
           checked == Checked(old, "checked")
           answers == {"invalid", "forbidden", "court_not_found", "internal_error"}
<1>1. /\ SlotBooked(h) /\ old.pc = "found" /\ old \in Booking
      /\ UNCHANGED <<now, user, venue, court, hold, register, create, add>>
    BY DEF GetCourtWithVenue, tables, Inv, CatalogueTypeOK
<1>2. ~hold[h].there BY <1>1 DEF SlotBooked, BookingFits, Paired
<1>3. \/ /\ row.there /\ row.off = Never /\ venue[row.venue].off = Never
         /\ book' = [book EXCEPT ![h] = checked]
      \/ \E code \in answers : book' = [book EXCEPT ![h] = Answered(NoBooking, code)]
    BY DEF GetCourtWithVenue
<1>4. CASE /\ row.there /\ row.off = Never /\ venue[row.venue].off = Never
           /\ book' = [book EXCEPT ![h] = checked]
    <2>1. checked \in Booking BY <1>1, CheckedTypes
    <2>2. /\ checked.pc = "checked" /\ checked.start = old.start /\ checked.by = old.by
          /\ checked.court = old.court /\ checked.code = old.code
        BY <1>1 DEF Checked, Booking
    <2> HIDE DEF checked, old
    <2>3. BookingFits(h, old) BY <1>1 DEF SlotBooked, old
    <2>4. BookingFits(h, checked)
        BY <1>1, <1>2, <1>4, <2>2, <2>3 DEF BookingFits, Paired, Begun, LetIn, OpenAt
    <2> QED BY <1>1, <1>4, <2>1, <2>4, BookingMoves
<1>5. CASE \E code \in answers : book' = [book EXCEPT ![h] = Answered(NoBooking, code)]
    <2>1. PICK code \in answers : book' = [book EXCEPT ![h] = Answered(NoBooking, code)]
        BY <1>5
    <2>2. code \in (Refusals \ Conflicts) \cup {"slot_taken", "internal_error"} /\ code \in Codes
        BY DEF Refusals
    <2>3. /\ Answered(NoBooking, code) \in Booking
          /\ BookingFits(h, Answered(NoBooking, code))
        BY <1>2, <2>2, NoCalls, AnsweredTypes, AnsweredFits
    <2> QED BY <1>1, <2>1, <2>3, BookingMoves
<1> QED BY <1>3, <1>4, <1>5

-----------------------------------------------------------------------------
(* Inserts.                                                                *)

LEMMA CreateVenueStep ==
    ASSUME Inv, NEW v \in Venues, CreateVenue(v)
    PROVE  Inv'
<1> DEFINE call == create[v]
           answer(code) == Answered(NoCreation, code)
<1>1. /\ VenueCreated(v) /\ call.pc = "checked" /\ call \in Creation /\ ~venue[v].there
      /\ UNCHANGED <<now, user, court, hold, register, add, book>>
    BY DEF CreateVenue, Inv, CatalogueTypeOK, VenueCreated, CreationFits, Paired
<1>2. \/ /\ call.city \in Cities /\ InsertVenue(v)
         /\ \E code \in {"created", "internal_error"} :
               create' = [create EXCEPT ![v] = answer(code)]
      \/ /\ UNCHANGED venue
         /\ \E code \in {"venue_city_unsupported", "internal_error"} :
               create' = [create EXCEPT ![v] = answer(code)]
    BY DEF CreateVenue
<1>3. CASE /\ call.city \in Cities /\ InsertVenue(v)
           /\ \E code \in {"created", "internal_error"} :
                 create' = [create EXCEPT ![v] = answer(code)]
    <2>1. PICK code \in {"created", "internal_error"} :
              create' = [create EXCEPT ![v] = answer(code)]
        BY <1>3
    <2>2. answer(code) \in Creation BY NoCalls, AnsweredTypes
    <2>3. answer(code).pc = "done" /\ answer(code).code = code BY DEF Answered, NoCreation
    <2>4. /\ call.by \in Accounts /\ user[call.by].there /\ user[call.by].role = "owner"
          /\ call.city \in Cities /\ now \in Nat
        BY <1>1, <1>3 DEF VenueCreated, CreationFits, LetIn, Inv, CatalogueTypeOK
    <2> DEFINE new == [there |-> TRUE, owner |-> call.by, city |-> call.city,
                       timezone |-> TimezoneOf[call.city], off |-> Never]
    <2>5. new \in Venue BY <2>4 DEF Venue
    <2>6. venue' = [venue EXCEPT ![v] = new] BY <1>3 DEF InsertVenue
    <2>7. /\ new.there /\ new.owner = call.by /\ new.city = call.city /\ new.off = -1
          /\ new.timezone = TimezoneOf[call.city]
        OBVIOUS
    <2>8. venue \in [Venues -> Venue] /\ create \in [Venues -> Creation]
        BY DEF Inv, CatalogueTypeOK
    <2> HIDE DEF new, call, answer
    <2>9. /\ venue'[v] = new /\ create'[v] = answer(code)
          /\ \A w \in Venues \ {v} : venue'[w] = venue[w] /\ create'[w] = create[w]
        BY <2>1, <2>6, <2>8
    <2>10. CatalogueTypeOK'
        BY <1>1, <2>1, <2>2, <2>5, <2>6, <2>8 DEF Inv, CatalogueTypeOK
    <2>11. RowsKept
        <3>1. \A w \in Venues : venue[w].there => venue'[w] = venue[w] BY <1>1, <2>9
        <3>2. now' \in Nat /\ now <= now' BY <1>1, <2>4
        <3>3. UNCHANGED user /\ UNCHANGED court /\ UNCHANGED hold BY <1>1
        <3> QED BY <3>1, <3>2, <3>3, Zenon DEF RowsKept, OffKept
    <2>12. VenueCreated(v)'
        BY <2>3, <2>7, <2>9 DEF VenueCreated, CreationFits, Paired, Refusals
    <2>13. VenueStands(v)'
        <3>1. user' = user /\ now' = now BY <1>1
        <3> QED BY <2>4, <2>7, <2>9, <3>1 DEF VenueStands
    <2>14. VenuesKept BY <2>9, <2>12, <2>13, Zenon DEF VenuesKept
    <2> QED BY <1>1, <2>10, <2>11, <2>14, OthersKept, UntouchedKept
<1>4. CASE /\ UNCHANGED venue
           /\ \E code \in {"venue_city_unsupported", "internal_error"} :
                 create' = [create EXCEPT ![v] = answer(code)]
    <2>1. PICK code \in {"venue_city_unsupported", "internal_error"} :
              create' = [create EXCEPT ![v] = answer(code)]
        BY <1>4
    <2>2. code \in (Refusals \ Conflicts) \cup {"slot_taken", "internal_error"} /\ code \in Codes
        BY DEF Refusals
    <2>3. answer(code) \in Creation /\ CreationFits(v, answer(code))
        BY <1>1, <2>2, NoCalls, AnsweredTypes, AnsweredFits
    <2> QED BY <1>1, <1>4, <2>1, <2>3, CreationMoves
<1> QED BY <1>2, <1>3, <1>4

LEMMA HoldSlotStep ==
    ASSUME Inv, NEW h \in Holds, HoldSlot(h)
    PROVE  Inv'
<1> DEFINE call == book[h]
           answer(code) == Answered(NoBooking, code)
<1>1. /\ SlotBooked(h) /\ call.pc = "checked" /\ call \in Booking /\ ~hold[h].there
      /\ UNCHANGED <<now, user, venue, court, register, create, add>>
    BY DEF HoldSlot, Inv, CatalogueTypeOK, SlotBooked, BookingFits, Paired
<1>2. \/ /\ InsertHold(h)
         /\ \E code \in {"created", "internal_error"} :
               book' = [book EXCEPT ![h] = answer(code)]
      \/ /\ UNCHANGED hold
         /\ \E code \in {"slot_taken", "internal_error"} :
               book' = [book EXCEPT ![h] = answer(code)]
    BY DEF HoldSlot
<1>3. CASE /\ InsertHold(h)
           /\ \E code \in {"created", "internal_error"} :
                 book' = [book EXCEPT ![h] = answer(code)]
    <2>1. PICK code \in {"created", "internal_error"} :
              book' = [book EXCEPT ![h] = answer(code)]
        BY <1>3
    <2>2. answer(code) \in Booking BY NoCalls, AnsweredTypes
    <2>3. answer(code).pc = "done" /\ answer(code).code = code BY DEF Answered, NoBooking
    <2>4. /\ call.by \in Accounts /\ user[call.by].there /\ user[call.by].role = "player"
          /\ call.court \in Courts /\ court[call.court].there /\ now \in Nat
        BY <1>1 DEF SlotBooked, BookingFits, LetIn, Inv, CatalogueTypeOK
    <2> DEFINE new == [there |-> TRUE, player |-> call.by, court |-> call.court]
    <2>5. new \in Hold BY <2>4 DEF Hold
    <2>6. hold' = [hold EXCEPT ![h] = new] BY <1>3 DEF InsertHold
    <2>7. new.there /\ new.player = call.by /\ new.court = call.court OBVIOUS
    <2>8. hold \in [Holds -> Hold] /\ book \in [Holds -> Booking]
        BY DEF Inv, CatalogueTypeOK
    <2> HIDE DEF new, call, answer
    <2>9. /\ hold'[h] = new /\ book'[h] = answer(code)
          /\ \A g \in Holds \ {h} : hold'[g] = hold[g] /\ book'[g] = book[g]
        BY <2>1, <2>6, <2>8
    <2>10. CatalogueTypeOK'
        BY <1>1, <2>1, <2>2, <2>5, <2>6, <2>8 DEF Inv, CatalogueTypeOK
    <2>11. RowsKept
        <3>1. \A g \in Holds : hold[g].there => hold'[g] = hold[g] BY <1>1, <2>9
        <3>2. now' \in Nat /\ now <= now' BY <1>1, <2>4
        <3>3. UNCHANGED user /\ UNCHANGED venue /\ UNCHANGED court BY <1>1
        <3> QED BY <3>1, <3>2, <3>3, Zenon DEF RowsKept, OffKept
    <2>12. SlotBooked(h)'
        BY <2>3, <2>7, <2>9 DEF SlotBooked, BookingFits, Paired, Refusals
    <2>13. HoldStands(h)'
        <3>1. user' = user /\ court' = court BY <1>1
        <3> QED BY <2>4, <2>7, <2>9, <3>1 DEF HoldStands
    <2>14. HoldsKept BY <2>9, <2>12, <2>13, Zenon DEF HoldsKept
    <2> QED BY <1>1, <2>10, <2>11, <2>14, OthersKept, UntouchedKept
<1>4. CASE /\ UNCHANGED hold
           /\ \E code \in {"slot_taken", "internal_error"} :
                 book' = [book EXCEPT ![h] = answer(code)]
    <2>1. PICK code \in {"slot_taken", "internal_error"} :
              book' = [book EXCEPT ![h] = answer(code)]
        BY <1>4
    <2>2. code \in (Refusals \ Conflicts) \cup {"slot_taken", "internal_error"} /\ code \in Codes
        BY DEF Refusals
    <2>3. answer(code) \in Booking /\ BookingFits(h, answer(code))
        BY <1>1, <2>2, NoCalls, AnsweredTypes, AnsweredFits
    <2> QED BY <1>1, <1>4, <2>1, <2>3, BookingMoves
<1> QED BY <1>2, <1>3, <1>4

LEMMA CreateCourtStep ==
    ASSUME Inv, NEW k \in Courts, CreateCourt(k)
    PROVE  Inv'
<1> DEFINE call == add[k]
<1>1. /\ CourtAdded(k) /\ call.pc = "checked" /\ call \in Addition /\ ~court[k].there
      /\ UNCHANGED <<now, user, venue, hold, register, create, book>>
    BY DEF CreateCourt, Inv, CatalogueTypeOK, CourtAdded, AdditionFits, Paired
<1>2. /\ call.venue \in Venues /\ venue[call.venue].there /\ call.name \in Names
      /\ now \in Nat
    BY <1>1 DEF CourtAdded, AdditionFits, Inv, CatalogueTypeOK
<1>3. \/ /\ ~NameTaken(call.venue, call.name) /\ InsertCourt(k)
         /\ \E told \in {Answered(call, "created"), Answered(NoAddition, "internal_error")} :
               add' = [add EXCEPT ![k] = told]
      \/ /\ NameTaken(call.venue, call.name) /\ UNCHANGED court
         /\ add' = [add EXCEPT ![k] = Answered(call, "court_name_taken")]
      \/ UNCHANGED court /\ add' = [add EXCEPT ![k] = Answered(NoAddition, "internal_error")]
    BY DEF CreateCourt
<1>4. CASE /\ ~NameTaken(call.venue, call.name) /\ InsertCourt(k)
           /\ \E told \in {Answered(call, "created"), Answered(NoAddition, "internal_error")} :
                 add' = [add EXCEPT ![k] = told]
    <2>1. PICK told \in {Answered(call, "created"), Answered(NoAddition, "internal_error")} :
              add' = [add EXCEPT ![k] = told]
        BY <1>4
    <2>2. told \in Addition BY <1>1, NoCalls, AnsweredTypes
    <2>3. \/ told.code = "created" /\ told.venue = call.venue /\ told.name = call.name
          \/ told.code = "internal_error"
        BY <1>1 DEF Answered, NoAddition, Addition
    <2>4. told.pc = "done" BY <1>1 DEF Answered, NoAddition, Addition
    <2> DEFINE new == [there |-> TRUE, venue |-> call.venue, name |-> call.name, off |-> Never]
    <2>5. new \in Court BY <1>2 DEF Court
    <2>6. court' = [court EXCEPT ![k] = new] BY <1>4 DEF InsertCourt
    <2>7. new.there /\ new.venue = call.venue /\ new.name = call.name /\ new.off = -1
        OBVIOUS
    <2>8. court \in [Courts -> Court] /\ add \in [Courts -> Addition]
        BY DEF Inv, CatalogueTypeOK
    <2> HIDE DEF new, call
    <2>9. /\ court'[k] = new /\ add'[k] = told
          /\ \A l \in Courts \ {k} : court'[l] = court[l] /\ add'[l] = add[l]
        BY <2>1, <2>6, <2>8
    <2>10. CatalogueTypeOK'
        BY <1>1, <2>1, <2>2, <2>5, <2>6, <2>8 DEF Inv, CatalogueTypeOK
    <2>11. RowsKept
        <3>1. \A l \in Courts : court[l].there => court'[l] = court[l] BY <1>1, <2>9
        <3>2. now' \in Nat /\ now <= now' BY <1>1, <1>2
        <3>3. UNCHANGED user /\ UNCHANGED venue /\ UNCHANGED hold BY <1>1
        <3> QED BY <3>1, <3>2, <3>3, Zenon DEF RowsKept, OffKept
    <2>12. CourtAdded(k)'
        BY <2>3, <2>4, <2>7, <2>9 DEF CourtAdded, AdditionFits, Paired, Refusals
    <2>13. CourtStands(k)'
        <3>1. venue' = venue /\ now' = now BY <1>1
        <3> QED BY <1>2, <2>7, <2>9, <3>1 DEF CourtStands
    <2>14. CourtsKept BY <2>9, <2>12, <2>13, Zenon DEF CourtsKept
    <2>15. Unique'
        <3>1. Unique /\ user' = user BY <1>1 DEF Inv
        <3>2. \A l \in Courts : court[l].there =>
                  court[l].venue # call.venue \/ court[l].name # call.name
            BY <1>4 DEF NameTaken
        <3> QED BY <2>7, <2>9, <3>1, <3>2 DEF Unique
    <2>16. KeysKept BY <2>15 DEF KeysKept
    <2> QED BY <1>1, <2>10, <2>11, <2>14, <2>16, OthersKept, UntouchedKept
<1>5. CASE /\ NameTaken(call.venue, call.name) /\ UNCHANGED court
           /\ add' = [add EXCEPT ![k] = Answered(call, "court_name_taken")]
    <2> DEFINE told == Answered(call, "court_name_taken")
    <2>1. told \in Addition BY <1>1, AnsweredTypes
    <2>2. /\ told.pc = "done" /\ told.code = "court_name_taken"
          /\ told.venue = call.venue /\ told.name = call.name
        BY <1>1 DEF Answered, Addition
    <2>3. \E l \in Courts \ {k} :
              court[l].there /\ court[l].venue = call.venue /\ court[l].name = call.name
        BY <1>1, <1>5 DEF NameTaken
    <2> HIDE DEF told, call
    <2>4. AdditionFits(k, told) BY <1>1, <2>2, <2>3 DEF AdditionFits, Paired
    <2> QED BY <1>1, <1>5, <2>1, <2>4, AdditionMoves DEF told
<1>6. CASE UNCHANGED court /\ add' = [add EXCEPT ![k] = Answered(NoAddition, "internal_error")]
    <2>1. /\ Answered(NoAddition, "internal_error") \in Addition
          /\ AdditionFits(k, Answered(NoAddition, "internal_error"))
        BY <1>1, NoCalls, AnsweredTypes, AnsweredFits
    <2> QED BY <1>1, <1>6, <2>1, AdditionMoves
<1> QED BY <1>3, <1>4, <1>5, <1>6

-----------------------------------------------------------------------------
(* Steps around the code.                                                  *)

LEMMA DeactivateUserStep ==
    ASSUME Inv, NEW a \in Accounts, DeactivateUser(a)
    PROVE  Inv'
<1>1. /\ user \in [Accounts -> Account] /\ now \in Nat /\ user[a].there
      /\ user[a].off = Never /\ user' = [user EXCEPT ![a].off = now]
      /\ UNCHANGED <<now, venue, court, hold, register, create, add, book>>
    BY DEF DeactivateUser, calls, Inv, CatalogueTypeOK
<1>2. CatalogueTypeOK' BY <1>1 DEF Inv, CatalogueTypeOK, Account
<1>3. /\ user'[a].there = user[a].there /\ user'[a].email = user[a].email
      /\ user'[a].phone = user[a].phone /\ user'[a].role = user[a].role
      /\ user'[a].off = now
      /\ \A b \in Accounts \ {a} : user'[b] = user[b]
    BY <1>1 DEF Account
<1>4. RowsKept
    <2>1. now' \in Nat /\ now <= now' BY <1>1
    <2>2. UNCHANGED venue /\ UNCHANGED court /\ UNCHANGED hold BY <1>1
    <2> QED BY <1>1, <1>3, <2>1, <2>2, Zenon DEF RowsKept, OffKept
<1>5. \A b \in Accounts : user'[b].there = user[b].there BY <1>3
<1>6. UNCHANGED register /\ UNCHANGED court BY <1>1
<1>7. AccountsKept BY <1>5, <1>6, Zenon DEF AccountsKept
<1>8. KeysKept BY <1>5, <1>6, Zenon DEF KeysKept
<1> QED BY <1>1, <1>2, <1>4, <1>7, <1>8, OthersKept, UntouchedKept

LEMMA DeactivateVenueStep ==
    ASSUME Inv, NEW v \in Venues, DeactivateVenue(v)
    PROVE  Inv'
<1>1. /\ venue \in [Venues -> Venue] /\ now \in Nat /\ venue[v].there
      /\ venue[v].off = Never /\ venue' = [venue EXCEPT ![v].off = now]
      /\ UNCHANGED <<now, user, court, hold, register, create, add, book>>
    BY DEF DeactivateVenue, calls, Inv, CatalogueTypeOK
<1>2. CatalogueTypeOK' BY <1>1 DEF Inv, CatalogueTypeOK, Venue
<1>3. /\ venue'[v].there = venue[v].there /\ venue'[v].owner = venue[v].owner
      /\ venue'[v].city = venue[v].city /\ venue'[v].timezone = venue[v].timezone
      /\ venue'[v].off = now
      /\ \A w \in Venues \ {v} : venue'[w] = venue[w]
    BY <1>1 DEF Venue
<1>4. RowsKept
    <2>1. now' \in Nat /\ now <= now' BY <1>1
    <2>2. UNCHANGED user /\ UNCHANGED court /\ UNCHANGED hold BY <1>1
    <2> QED BY <1>1, <1>3, <2>1, <2>2, Zenon DEF RowsKept, OffKept
<1>5. \A w \in Venues : venue'[w].there = venue[w].there BY <1>3
<1>6. UNCHANGED create BY <1>1
<1>7. VenuesKept BY <1>5, <1>6, Zenon DEF VenuesKept
<1> QED BY <1>1, <1>2, <1>4, <1>7, OthersKept, UntouchedKept

LEMMA DeactivateCourtStep ==
    ASSUME Inv, NEW k \in Courts, DeactivateCourt(k)
    PROVE  Inv'
<1>1. /\ court \in [Courts -> Court] /\ now \in Nat /\ court[k].there
      /\ court[k].off = Never /\ court' = [court EXCEPT ![k].off = now]
      /\ UNCHANGED <<now, user, venue, hold, register, create, add, book>>
    BY DEF DeactivateCourt, calls, Inv, CatalogueTypeOK
<1>2. CatalogueTypeOK' BY <1>1 DEF Inv, CatalogueTypeOK, Court
<1>3. /\ court'[k].there = court[k].there /\ court'[k].venue = court[k].venue
      /\ court'[k].name = court[k].name /\ court'[k].off = now
      /\ \A l \in Courts \ {k} : court'[l] = court[l]
    BY <1>1 DEF Court
<1>4. RowsKept
    <2>1. now' \in Nat /\ now <= now' BY <1>1
    <2>2. UNCHANGED user /\ UNCHANGED venue /\ UNCHANGED hold BY <1>1
    <2> QED BY <1>1, <1>3, <2>1, <2>2, Zenon DEF RowsKept, OffKept
<1>5. \A l \in Courts : court'[l].there = court[l].there BY <1>3
<1>6. UNCHANGED add /\ UNCHANGED user BY <1>1
<1>7. CourtsKept BY <1>5, <1>6, Zenon DEF CourtsKept
<1>8. KeysKept BY <1>5, <1>6, Zenon DEF KeysKept
<1> QED BY <1>1, <1>2, <1>4, <1>7, <1>8, OthersKept, UntouchedKept

LEMMA QuietStep ==
    ASSUME Inv, Tick \/ UNCHANGED vars
    PROVE  Inv'
<1>1. now \in Nat /\ now' \in Nat /\ now <= now' BY DEF Tick, vars, Inv, CatalogueTypeOK
<1>2. UNCHANGED <<user, venue, court, hold, register, create, add, book>>
    BY DEF Tick, vars, tables, calls
<1>3. CatalogueTypeOK' BY <1>1, <1>2 DEF Inv, CatalogueTypeOK
<1>4. UNCHANGED user /\ UNCHANGED venue /\ UNCHANGED court /\ UNCHANGED hold BY <1>2
<1>5. RowsKept BY <1>1, <1>4, Zenon DEF RowsKept, OffKept
<1> QED BY <1>2, <1>3, <1>5, OthersKept, UntouchedKept

-----------------------------------------------------------------------------
(* The theorems.                                                           *)

LEMMA CatalogueInit == Init => Inv
<1> SUFFICES ASSUME Init PROVE Inv OBVIOUS
<1>1. CatalogueTypeOK
    BY NoCalls DEF Init, CatalogueTypeOK, NoAccount, Account, NoVenue, Venue, NoCourt, Court,
       NoHold, Hold
<1>2. \A a \in Accounts : Registered(a) /\ UserStands(a)
    BY DEF Init, Registered, UserStands, Paired, NoRegistration, NoAccount, Refusals
<1>3. \A v \in Venues : VenueCreated(v) /\ VenueStands(v)
    BY DEF Init, VenueCreated, CreationFits, VenueStands, Paired, NoCreation, NoVenue, Refusals
<1>4. \A k \in Courts : CourtAdded(k) /\ CourtStands(k)
    BY DEF Init, CourtAdded, AdditionFits, CourtStands, Paired, NoAddition, NoCourt, Refusals
<1>5. \A h \in Holds : SlotBooked(h) /\ HoldStands(h)
    BY DEF Init, SlotBooked, BookingFits, HoldStands, Paired, NoBooking, NoHold, Refusals
<1>6. Unique BY DEF Init, Unique, NoAccount, NoCourt
<1> QED BY <1>1, <1>2, <1>3, <1>4, <1>5, <1>6 DEF Inv

LEMMA CatalogueStep == Inv /\ [Next]_vars => Inv'
<1> SUFFICES ASSUME Inv, [Next]_vars PROVE Inv' OBVIOUS
<1>1. CASE \E a \in Accounts : Register(a) \/ DeactivateUser(a)
    BY <1>1, createUserStep, CreateUserStep, DeactivateUserStep DEF Register
<1>2. CASE \E v \in Venues : RegisterVenue(v) \/ DeactivateVenue(v)
    BY <1>2, createVenueStep, GetOwnerStep, CreateVenueStep, DeactivateVenueStep
    DEF RegisterVenue
<1>3. CASE \E k \in Courts : AddCourt(k) \/ DeactivateCourt(k)
    BY <1>3, createCourtStep, GetVenueStep, CreateCourtStep, DeactivateCourtStep DEF AddCourt
<1>4. CASE \E h \in Holds : Book(h)
    BY <1>4, createBookingStep, GetPlayerStep, GetCourtWithVenueStep, HoldSlotStep DEF Book
<1>5. CASE Tick \/ UNCHANGED vars BY <1>5, QuietStep
<1> QED BY <1>1, <1>2, <1>3, <1>4, <1>5 DEF Next

\* The inductive invariant holds in every reachable state.
THEOREM CatalogueInvariance == Spec => []Inv
BY CatalogueInit, CatalogueStep, PTL DEF Spec

\* Every variable keeps its type.
THEOREM CatalogueTyped == Spec => []CatalogueTypeOK
BY CatalogueInvariance, PTL DEF Inv

\* No error is answered with 201, and an internal one with no 4xx.
LEMMA ErrorStatuses ==
    /\ \A kind \in Kinds : statusFor(kind) # 201
    /\ statusFor("internal") \notin 400..499 /\ 201 \notin 400..499
BY DEF Kinds, statusFor

LEMMA ErrorKinds ==
    ASSUME NEW code \in Codes
    PROVE  /\ KindOf(code) \in Kinds
           /\ code \in {"", "internal_error"} => KindOf(code) = "internal"
BY DEF Kinds, KindOf

\* What a status says of the code behind it.
LEMMA StatusOfCode ==
    ASSUME NEW call, call.code \in Codes
    PROVE  /\ Status(call) = 201 => call.code = "created"
           /\ Status(call) \in 400..499 => call.code \in Refusals
<1>1. CASE call.code = "created"
    <2>1. Status(call) = 201 BY <1>1 DEF Status
    <2> QED BY <1>1, <2>1, ErrorStatuses, Zenon
<1>2. CASE call.code # "created"
    <2>1. Status(call) = statusFor(KindOf(call.code)) BY <1>2, Zenon DEF Status
    <2>2. Status(call) # 201
        <3>1. KindOf(call.code) \in Kinds BY ErrorKinds, Zenon
        <3> QED BY <2>1, <3>1, ErrorStatuses, Zenon
    <2>3. call.code \in {"", "internal_error"} => Status(call) \notin 400..499
        BY <2>1, ErrorStatuses, ErrorKinds, Zenon
    <2>4. call.code \in Refusals \/ call.code \in {"", "internal_error"}
        BY <1>2 DEF Refusals
    <2> QED BY <2>2, <2>3, <2>4, Zenon
<1> QED BY <1>1, <1>2

LEMMA PairedTells ==
    ASSUME NEW call, NEW row, call.code \in Codes, Paired(call, row)
    PROVE  AnswerTellsRow(call, row)
BY StatusOfCode DEF Paired, AnswerTellsRow

\* After 201 the row is there, after any 4xx it is not, whatever the other requests
\* do at the same time.
THEOREM AnswersCanBeTrusted == Spec => []AnswersTellRows
<1>1. Inv => AnswersTellRows
    <2> SUFFICES ASSUME Inv PROVE AnswersTellRows OBVIOUS
    <2>1. ASSUME NEW a \in Accounts PROVE AnswerTellsRow(register[a], user[a])
        BY PairedTells DEF Inv, CatalogueTypeOK, Registration, Registered
    <2>2. ASSUME NEW v \in Venues PROVE AnswerTellsRow(create[v], venue[v])
        BY PairedTells DEF Inv, CatalogueTypeOK, Creation, VenueCreated, CreationFits
    <2>3. ASSUME NEW k \in Courts PROVE AnswerTellsRow(add[k], court[k])
        BY PairedTells DEF Inv, CatalogueTypeOK, Addition, CourtAdded, AdditionFits
    <2>4. ASSUME NEW h \in Holds PROVE AnswerTellsRow(book[h], hold[h])
        BY PairedTells DEF Inv, CatalogueTypeOK, Booking, SlotBooked, BookingFits
    <2> QED BY <2>1, <2>2, <2>3, <2>4 DEF AnswersTellRows
<1> QED BY <1>1, CatalogueInvariance, PTL

\* No two calls are told they took one key.
THEOREM KeysHaveOneWinner == Spec => []OneWinner
<1>1. Inv => OneWinner
    <2> SUFFICES ASSUME Inv PROVE OneWinner OBVIOUS
    <2>1. Unique BY DEF Inv
    <2>2. \A a \in Accounts : register[a].code = "created" =>
              /\ user[a].there /\ user[a].email = register[a].form.email
              /\ user[a].phone = register[a].form.phone
        BY DEF Inv, Registered, Paired
    <2>3. \A k \in Courts : add[k].code = "created" =>
              court[k].there /\ court[k].venue = add[k].venue /\ court[k].name = add[k].name
        BY DEF Inv, CourtAdded, AdditionFits, Paired
    <2> QED BY <2>1, <2>2, <2>3 DEF OneWinner, Unique
<1> QED BY <1>1, CatalogueInvariance, PTL

\* A clash that is told of is there.
THEOREM ClashesAreTrue == Spec => []ConflictsAreReal
<1>1. Inv => ConflictsAreReal
    BY DEF Inv, Registered, CourtAdded, AdditionFits, ConflictsAreReal
<1> QED BY <1>1, CatalogueInvariance, PTL

\* Whoever stands behind a row was entitled to it.
THEOREM RowsAreWellOwned == Spec => []WellOwned
<1>1. Inv => WellOwned
    BY DEF Inv, VenueStands, CourtStands, HoldStands, WellOwned
<1> QED BY <1>1, CatalogueInvariance, PTL

-----------------------------------------------------------------------------
(* What a stale check may still create.                                    *)

\* A call's insert comes within a request's time of its beginning.
LEMMA WithinRequest ==
    ASSUME NEW start \in Nat, now \in Nat, NEW row, row.off \in Times, NEW grace \in Nat,
           now < start + RequestTimeout, row.off = Never \/ start <= row.off + grace
    PROVE  StillOpen(row, grace + RequestTimeout)
BY CatalogueTimeAssumption DEF StillOpen

\* Nothing is created under what was deactivated more than a request's time
\* ago, a court excepted, whose owner may have been deactivated Grace earlier.
THEOREM CreationIsTimely == Spec => CreatedInTime
<1> DEFINE VenueTimely == \A v \in Venues : ~venue[v].there /\ venue'[v].there =>
               StillOpen(user[venue'[v].owner], RequestTimeout)
           CourtTimely == \A k \in Courts : ~court[k].there /\ court'[k].there =>
               /\ venue[court'[k].venue].owner = add[k].by
               /\ StillOpen(venue[court'[k].venue], RequestTimeout)
               /\ StillOpen(user[venue[court'[k].venue].owner], Grace + RequestTimeout)
           HoldTimely == \A h \in Holds : ~hold[h].there /\ hold'[h].there =>
               /\ StillOpen(user[hold'[h].player], RequestTimeout)
               /\ StillOpen(court[hold'[h].court], RequestTimeout)
               /\ StillOpen(venue[court[hold'[h].court].venue], RequestTimeout)
<1>1. ASSUME Inv, [Next]_vars PROVE VenueTimely
    <2> SUFFICES ASSUME NEW v \in Venues, ~venue[v].there, venue'[v].there
                 PROVE  StillOpen(user[venue'[v].owner], RequestTimeout)
        OBVIOUS
    <2>1. venue' # venue OBVIOUS
    <2>2. venue \in [Venues -> Venue] /\ now \in Nat /\ user \in [Accounts -> Account]
        BY <1>1 DEF Inv, CatalogueTypeOK
    <2>3. PICK w \in Venues : CreateVenue(w) \/ DeactivateVenue(w)
        BY <1>1, <2>1
        DEF Next, vars, calls, tables, Register, createUser, CreateUser, DeactivateUser,
            RegisterVenue, createVenue, GetOwner, AddCourt, createCourt, GetVenue, CreateCourt,
            DeactivateCourt, Book, createBooking, GetPlayer, GetCourtWithVenue, HoldSlot, Tick
    <2>4. CASE DeactivateVenue(w) BY <2>2, <2>4 DEF DeactivateVenue, Venue
    <2>5. CASE CreateVenue(w)
        <3>1. w = v /\ InsertVenue(v) /\ create[v].pc = "checked" /\ ~ContextDone(create[v])
            BY <2>1, <2>2, <2>5 DEF CreateVenue, InsertVenue
        <3>2. venue'[v].owner = create[v].by BY <2>2, <3>1 DEF InsertVenue
        <3>3. /\ create[v].start \in Nat /\ create[v].by \in Accounts
              /\ OpenAt(user[create[v].by], create[v].start)
            BY <1>1, <3>1 DEF Inv, VenueCreated, CreationFits, Begun, LetIn
        <3>4. now < create[v].start + RequestTimeout
            BY <2>2, <3>1, <3>3, CatalogueTimeAssumption DEF ContextDone
        <3>5. user[create[v].by].off \in Times BY <2>2, <3>3 DEF Account
        <3> QED BY <2>2, <3>2, <3>3, <3>4, <3>5, CatalogueTimeAssumption DEF OpenAt, StillOpen
    <2> QED BY <2>3, <2>4, <2>5
<1>2. ASSUME Inv, [Next]_vars PROVE CourtTimely
    <2> SUFFICES ASSUME NEW k \in Courts, ~court[k].there, court'[k].there
                 PROVE  /\ venue[court'[k].venue].owner = add[k].by
                        /\ StillOpen(venue[court'[k].venue], RequestTimeout)
                        /\ StillOpen(user[venue[court'[k].venue].owner],
                                     Grace + RequestTimeout)
        OBVIOUS
    <2>1. court' # court OBVIOUS
    <2>2. /\ court \in [Courts -> Court] /\ now \in Nat /\ user \in [Accounts -> Account]
          /\ venue \in [Venues -> Venue]
        BY <1>2 DEF Inv, CatalogueTypeOK
    <2>3. PICK l \in Courts : CreateCourt(l) \/ DeactivateCourt(l)
        BY <1>2, <2>1
        DEF Next, vars, calls, tables, Register, createUser, CreateUser, DeactivateUser,
            RegisterVenue, createVenue, GetOwner, CreateVenue, DeactivateVenue, AddCourt,
            createCourt, GetVenue, Book, createBooking, GetPlayer, GetCourtWithVenue, HoldSlot,
            Tick
    <2>4. CASE DeactivateCourt(l) BY <2>2, <2>4 DEF DeactivateCourt, Court
    <2>5. CASE CreateCourt(l)
        <3> DEFINE v == add[k].venue
        <3>1. l = k /\ InsertCourt(k) /\ add[k].pc = "checked" /\ ~ContextDone(add[k])
            BY <2>1, <2>2, <2>5 DEF CreateCourt, InsertCourt
        <3>2. court'[k].venue = v BY <2>2, <3>1 DEF InsertCourt
        <3>3. /\ add[k].start \in Nat /\ LetIn(add[k], add[k].by) /\ v \in Venues
              /\ venue[v].owner = add[k].by /\ OpenAt(venue[v], add[k].start)
            BY <1>2, <3>1 DEF Inv, CourtAdded, AdditionFits, Begun
        <3>4. now < add[k].start + RequestTimeout
            BY <2>2, <3>1, <3>3, CatalogueTimeAssumption DEF ContextDone
        <3>5. user[add[k].by].off \in Times /\ venue[v].off \in Times
            BY <2>2, <3>3 DEF Account, Venue, LetIn
        <3> HIDE DEF v
        <3>6. StillOpen(venue[v], RequestTimeout)
            BY <2>2, <3>3, <3>4, <3>5, CatalogueTimeAssumption DEF OpenAt, StillOpen
        <3>7. StillOpen(user[venue[v].owner], Grace + RequestTimeout)
            BY <2>2, <3>3, <3>4, <3>5, WithinRequest, CatalogueTimeAssumption DEF LetIn
        <3> QED BY <3>2, <3>3, <3>6, <3>7
    <2> QED BY <2>3, <2>4, <2>5
<1>3. ASSUME Inv, [Next]_vars PROVE HoldTimely
    <2> SUFFICES ASSUME NEW h \in Holds, ~hold[h].there, hold'[h].there
                 PROVE  /\ StillOpen(user[hold'[h].player], RequestTimeout)
                        /\ StillOpen(court[hold'[h].court], RequestTimeout)
                        /\ StillOpen(venue[court[hold'[h].court].venue], RequestTimeout)
        OBVIOUS
    <2>1. hold' # hold OBVIOUS
    <2>2. /\ court \in [Courts -> Court] /\ now \in Nat /\ user \in [Accounts -> Account]
          /\ venue \in [Venues -> Venue] /\ hold \in [Holds -> Hold]
        BY <1>3 DEF Inv, CatalogueTypeOK
    <2>3. PICK g \in Holds : HoldSlot(g)
        BY <1>3, <2>1
        DEF Next, vars, calls, tables, Register, createUser, CreateUser, DeactivateUser,
            RegisterVenue, createVenue, GetOwner, CreateVenue, DeactivateVenue, AddCourt,
            createCourt, GetVenue, CreateCourt, DeactivateCourt, Book, createBooking, GetPlayer,
            GetCourtWithVenue, Tick
    <2> DEFINE k == book[h].court
               a == book[h].by
    <2>4. g = h /\ InsertHold(h) /\ book[h].pc = "checked" /\ ~ContextDone(book[h])
        BY <2>1, <2>2, <2>3 DEF HoldSlot, InsertHold
    <2>5. hold'[h].player = a /\ hold'[h].court = k BY <2>2, <2>4 DEF InsertHold
    <2>6. /\ book[h].start \in Nat /\ a \in Accounts /\ OpenAt(user[a], book[h].start)
          /\ k \in Courts /\ court[k].there /\ OpenAt(court[k], book[h].start)
          /\ OpenAt(venue[court[k].venue], book[h].start)
        BY <1>3, <2>4 DEF Inv, SlotBooked, BookingFits, Begun, LetIn
    <2>7. court[k].venue \in Venues BY <1>3, <2>6 DEF Inv, CourtStands
    <2>8. now < book[h].start + RequestTimeout
        BY <2>2, <2>4, <2>6, CatalogueTimeAssumption DEF ContextDone
    <2>9. /\ user[a].off \in Times /\ court[k].off \in Times
          /\ venue[court[k].venue].off \in Times
        BY <2>2, <2>6, <2>7 DEF Account, Court, Venue
    <2> HIDE DEF a, k
    <2> QED BY <2>2, <2>5, <2>6, <2>8, <2>9, CatalogueTimeAssumption DEF OpenAt, StillOpen
<1>4. Inv /\ [Next]_vars => [VenueTimely /\ CourtTimely /\ HoldTimely]_vars
    BY <1>1, <1>2, <1>3
<1> QED BY <1>4, CatalogueInvariance, PTL DEF Spec, CreatedInTime

=============================================================================
