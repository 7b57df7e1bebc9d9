SPECIFICATION Spec
CONSTANTS
    c1 = c1
    c2 = c2
    Courts = {c1, c2}
    Offset <- TwoZones
    BookingHorizon = 26
    Hours = {2, 5, 24}
    Prices = {3, 5}
    Dates = {0, 1}
    ColumnLimit = 8
    StartTime = 24
    MaxTime = 25
    MaxBookings = 1
INVARIANT AmountIsCost
