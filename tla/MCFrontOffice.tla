--------------------------- MODULE MCFrontOffice ---------------------------
(***************************************************************************)
(* FrontOffice's instance for TLC, of which MCBackOffice is made.  A       *)
(* behaviour is one shift: operations on the same documents, since the     *)
(* others cannot disturb them.  A shift that needs a document starts with  *)
(* it as the service creates it.                                           *)
(***************************************************************************)
EXTENDS FrontOffice, TLC

CONSTANTS
    ada, bola,              \* accounts
    adasMail, secret,       \* what ada registered with
    early, late,            \* bookings of trips
    monday,                 \* a departure
    firstRide, firstLead, firstEnquiry,
    first, second,          \* articles
    expands, opens          \* titles

Members == {"createUser", "loginUser", "updateProfile"}
Keys == {"forgotPassword", "resetPassword", "changePassword"}
Trips == {"createUserBooking"}
Payments == {"initializePayment", "webhook", "verifyPayment"}
RidePrices == {"createRide", "toggleRule"}
RideRules == {"createRule", "updateRule", "toggleRule"}
RideStatuses == {"updateStatus"}
Reviews == {"reviewTransfer"}
Drafting == {"createArticle"}
Writing == {"updateArticle"}
Showing == {"togglePublic", "updateArticle"}
Mailing == {"subscribe", "requestUnsubscribe"}

OfficeShifts ==
    {Members, Keys, Trips, Payments, RidePrices, RideRules, RideStatuses, Reviews,
     Drafting, Writing, Showing, {"subscribe"}, {"requestUnsubscribe"}}
       \cup {{f} : f \in Forms}

OfficeCapacity == monday :> 2
OfficeSlug == expands :> "expands" @@ opens :> "opens"

(* Fares whose charges are not whole, so that rounding has work to do. *)
OfficeTariffs ==
    {[baseFare |-> 33, perKmRate |-> 3, freeKm |-> 10, perExtraPassenger |-> 5, perExtraCar |-> 20],
     [baseFare |-> 46, perKmRate |-> 1, freeKm |-> 0, perExtraPassenger |-> 7, perExtraCar |-> 0]}
OfficeMetres == {10650}
OfficeParties == {[passengers |-> 3, cars |-> 2]}

-----------------------------------------------------------------------------
RidersSeeded ==
    IF shift = Keys
    THEN /\ email = [a \in Accounts |-> IF a = ada THEN adasMail ELSE None]
         /\ password = [a \in Accounts |-> IF a = ada THEN secret ELSE None]
         /\ token = [a \in Accounts |-> None] /\ latest = token
         /\ lapsed = {} /\ mailed = {} /\ signedIn = {}
         /\ uses = [k \in Tokens |-> 0]
    ELSE RiderInit

TripsSeeded ==
    IF shift = Payments
    THEN /\ departure = [b \in TripBookings |-> monday]
         /\ passengers = [b \in TripBookings |-> 1]
         /\ paymentReference = [b \in TripBookings |-> None]
         /\ opened = [k \in References |-> None]
         /\ charge = [k \in References |-> "none"]
         /\ bookingPaid = {} /\ loggedPayments = {} /\ offered = {} /\ answered = {}
    ELSE LegacyInit

RidesSeeded ==
    /\ mapsKey \in IF "createRide" \in shift THEN BOOLEAN ELSE {TRUE}
    /\ distances = <<>>
    /\ tariff \in IF shift = RidePrices THEN Tariffs ELSE {None}
    /\ tariffActive = (shift = RidePrices)
    /\ ride = [b \in Rides |->
          IF shift = RideStatuses /\ b = firstRide
          THEN [status |-> "pending_payment", history |-> <<"pending_payment">>,
                price |-> [baseFare |-> 33, serviceCharge |-> 3, vat |-> 2, total |-> 38]]
          ELSE None]

LeadsSeeded ==
    /\ adminEmail \in IF shift \in {{f} : f \in Forms} THEN BOOLEAN ELSE {TRUE}
    /\ lead = [l \in Leads |->
          IF shift = Reviews /\ l = firstLead
          THEN [form |-> "AirportTransfer", enquiry |-> firstEnquiry, status |-> "pending",
                recent |-> TRUE, edited |-> FALSE, deleted |-> FALSE]
          ELSE None]
    /\ told = [l \in Leads |-> {}] /\ reported = told
    /\ entered = [l \in Leads |-> 0] /\ approvalMails = entered
    /\ silenced = {}

(* Two articles of one title were created; to toggle, the second was deleted. *)
NewsSeeded ==
    IF shift \in {Writing, Showing}
    THEN /\ LET gone == IF shift = Writing THEN {} ELSE {second} IN
            /\ title = first :> expands @@ second :> IF gone = {} THEN expands ELSE None
            /\ slug = first :> <<"expands", 0>>
                         @@ second :> IF gone = {} THEN <<"expands", 2>> ELSE None
            /\ public = {first, second} \ gone
            /\ removed = gone
         /\ listings = {}
         /\ subscriber = [s \in Subscriptions |-> None]
         /\ leaving = [d \in Departing |-> None]
    ELSE NewsInit

OfficeSeeded == RidersSeeded /\ TripsSeeded /\ RidesSeeded /\ LeadsSeeded /\ NewsSeeded
=============================================================================
