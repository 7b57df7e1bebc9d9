SPECIFICATION Spec
CONSTANTS
    slot1 = slot1
    Bookings = {b1, b2}
    Slots = {slot1}
    SlotOf <- SameSlot
    StartsAt <- SlotBegins
    Loaders = {l1, l2}
    ConfirmAttempts = 2
    PaymentHold = 2
    RequestTimeout = 1
    ClockSkew = 1
    Drifts <- SlowOrFast
    Lag = 1
    MaxTime = 4
    NoBooking = NoBooking
SYMMETRY Interchangeable
INVARIANTS CheckoutTypeOK ShownConfirmedIsSold FormsEndWithHolds OneFormPerSlot
PROPERTIES PollsStopOnNews
