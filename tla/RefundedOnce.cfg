SPECIFICATION Spec
CONSTANTS
    Bookings = {b1}
    Refs = {r1}
    Requests = {t1, t2}
    None = None
INVARIANT RefundedOnce
CHECK_DEADLOCK FALSE
