SPECIFICATION FairSpec
CONSTANTS
    court1 = court1
    Bookings = {b1}
    Slots = {court1}
    SlotOf <- SameSlot
    Deliveries = {d1, d2}
    Sweepers = {w1}
    PaymentHold = 2
    RequestTimeout = 1
    ClockSkew = 0
    MaxTime = 3
    Faults = {"db", "client", "crash"}
    NoIntent = NoIntent
INVARIANTS RecordedIffConfirmed AckedIsSettled RefundsAreDue
PROPERTIES LapsedHoldsEnd PaymentsSettle ConfirmedStays
