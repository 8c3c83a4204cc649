SPECIFICATION AdminSpec
CONSTANTS
    Admins = {a1, a2}
    Requests = {t1, t2}
    MaxSuperAdmins = 2
    None = None
SYMMETRY Interchangeable
INVARIANT
    LastSuperAdminStays
CHECK_DEADLOCK FALSE
