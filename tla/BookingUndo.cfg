SPECIFICATION Spec
CONSTANTS
    court1 = court1
    Bookings = {b1, b2}
    Slots = {court1}
    SlotOf <- SameSlot
    Deliveries = {d1}
    Sweepers = {w1}
    PaymentHold = 2
    RequestTimeout = 1
    ClockSkew = 0
    MaxTime = 3
    Faults = {}
    NoIntent = NoIntent
PROPERTY UnpayableHoldGoesBack
