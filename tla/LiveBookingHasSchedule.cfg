SPECIFICATION CatalogRuns
CONSTANTS
    here = here
    there = there
    outward = outward
    homeward = homeward
    lagos = lagos
    lagoon = lagoon
    abuja = abuja
    Requests = {t1, t2}
    Shifts <- DeletionShifts
    None = None
    Cities = {here, there}
    CityNames <- TheNames
    Prefix <- ThePrefix
    MaxSuffix = 2
    Schedules = {outward, homeward}
    Bookings = {b1}
    Prices = {1, 2}
SYMMETRY Interchangeable
CHECK_DEADLOCK FALSE
INVARIANT
    LiveBookingHasSchedule
