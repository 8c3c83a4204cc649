SPECIFICATION ServiceSpec
CONSTANTS
    None = None
    Bookings = {b1}
    Refs = {r1, r2}
    Requests = {t1, t2, t3}
    s1 = s1
    s2 = s2
    Reservations = {t1, t2, t3}
    Schedules <- AllSchedules
    Dates = {1, 2}
    Seats = 2
    Capacity <- SameCapacity
    Trips <- AskedTrips
SYMMETRY Interchangeable
INVARIANTS
    TypeOK
    VerifiedIffPaid
    PaidWasCharged
    RefundsAreLate
    WebhookPaidIsAudited
    AckedIsDecided
    SeatTypeOK
    CountedSeatsFit
    OneCleaner
    CleanupCommitted
PROPERTIES
    ConfirmsOnlyReserved
    ConfirmedStaysPaid
    PaidKept
CHECK_DEADLOCK FALSE
