SPECIFICATION FairSpec
CONSTANTS
    Bookings = {b1}
    Refs = {r1}
    Requests = {t1, t2}
    None = None
PROPERTIES
    LapsedReservationEnds
    LateChargeIsRefunded
CHECK_DEADLOCK FALSE
