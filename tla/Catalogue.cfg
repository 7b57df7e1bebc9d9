SPECIFICATION Spec
CONSTANTS
    e1 = e1
    e2 = e2
    p1 = p1
    p2 = p2
    hanoi = hanoi
    saigon_time = saigon_time
    Accounts = {a1, a2}
    Venues = {v1}
    Courts = {c1, c2}
    Holds = {h1}
    Emails = {e1, e2}
    Phones = {p1, p2}
    Signups <- Forms
    Cities = {hanoi}
    TimezoneOf <- SeededTimezone
    Nowhere = Nowhere
    Names = {n1}
    RequestTimeout = 1
    Grace = 2
    MaxTime = 1
    CanFail = TRUE
    None = None
SYMMETRY Interchangeable
INVARIANTS CatalogueTypeOK AnswersTellRows OneWinner ConflictsAreReal WellOwned
PROPERTIES CreatedInTime
CHECK_DEADLOCK FALSE
