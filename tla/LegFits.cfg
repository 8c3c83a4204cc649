SPECIFICATION SeatSpec
CONSTANTS
    None = None
    s1 = s1
    s2 = s2
    Requests = {b1, b2}
    Reservations = {b1, b2}
    Schedules <- AllSchedules
    Dates = {1, 2}
    Seats = 2
    Capacity <- SameCapacity
    Trips <- AskedTrips
INVARIANT LegFits
CHECK_DEADLOCK FALSE
