SPECIFICATION MCSpec
CONSTANTS
    None = None
    ada = ada
    bola = bola
    adasMail = adasMail
    secret = secret
    early = early
    late = late
    monday = monday
    firstRide = firstRide
    firstLead = firstLead
    firstEnquiry = firstEnquiry
    first = first
    second = second
    expands = expands
    opens = opens
    Requests = {t1, t2}
    Shifts <- MCShifts
    Accounts = {ada, bola}
    Emails = {adasMail, otherMail}
    Passwords = {secret, other}
    Tokens = {k1, k2}
    TripBookings = {early, late}
    Departures = {monday}
    Capacity <- OfficeCapacity
    References = {p1, p2}
    Rides = {firstRide}
    Routes = {ikeja, lekki}
    Metres <- OfficeMetres
    Tariffs <- OfficeTariffs
    Parties <- OfficeParties
    MaxHistory = 4
    MaxRows = 2
    Leads = {firstLead, l2}
    Enquiries = {firstEnquiry, q2}
    MaxPerAddress = 2
    MaxApprovals = 2
    Articles = {first, second}
    Vacancies = {v1}
    Cars = {car1}
    Subscriptions = {s1, s2}
    Departing = {d1, d2}
    Titles = {expands, opens}
    Slug <- OfficeSlug
    Readers = {r1, r2}
    MaxCounter = 2
    here = here
    there = there
    outward = outward
    homeward = homeward
    lagos = lagos
    lagoon = lagoon
    abuja = abuja
    Cities = {here, there}
    CityNames <- TheNames
    Prefix <- ThePrefix
    MaxSuffix = 2
    Schedules = {outward, homeward}
    Bookings = {b1}
    Prices = {1, 2}
    Admins = {a1, a2, a3}
    MaxSuperAdmins = 2
SYMMETRY Interchangeable
INVARIANTS
    OfficeTypeOK
    TokenUsedOnce
    LatestLinkWorks
    TripFits
    LegacyPaidWasCharged
    LegacyAnsweredIsPaid
    HistoryIsLegal
    BreakdownAddsUp
    RouteMeasuredOnce
    LeadIsKnown
    OneLeadPerWindow
    ApprovalMailedOnce
    SlugFollowsTitle
    OnePendingRequest
    CatalogTypeOK
    TogglesCount
    AdminTypeOK
    CapHolds
    CapExceededByRequests
    SomeoneCanAct
    SeededOnce
CHECK_DEADLOCK FALSE
