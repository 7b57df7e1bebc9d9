SPECIFICATION Spec
CONSTANTS
    court1 = court1
    Bookings = {b1, b2}
    Slots = {court1}
    SlotOf <- SameSlot
    Deliveries = {d1}
    Sweepers = {w1}
    PaymentHold = 3
    RequestTimeout = 2
    ClockSkew = 1
    MaxTime = 3
    Faults = {"db", "gateway", "client", "crash"}
    NoIntent = NoIntent
SYMMETRY Interchangeable
INVARIANTS TypeOK OneHoldPerSlot PaidIsPlaced
PROPERTIES NoEarlyRelease AnsweredWhileHeld InTimeIsKept ImplementsHoldLedger
