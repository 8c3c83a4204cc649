SPECIFICATION Spec
CONSTANTS
    Bookings = {b1}
    Refs = {r1}
    Requests = {t1, t2}
    None = None
PROPERTY DocumentedLifecycle
CHECK_DEADLOCK FALSE
