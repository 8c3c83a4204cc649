---------------------------- MODULE RideBookings ----------------------------
(***************************************************************************)
(* On-demand rides: ShuttleBookingService with MapsService's cache of      *)
(* distances, the pricing rules and calculatePrice, and the ride's status  *)
(* with its history.  Money is counted in 1/Unit naira, distances in       *)
(* metres; the code's doubles are taken for exact.                         *)
(***************************************************************************)
EXTENDS Handlers, Integers, SequencesExt

CONSTANTS
    Rides,        \* documents that may come to exist
    Routes,       \* a pick-up and a drop-off location
    Metres,       \* distances Google may answer
    Tariffs,      \* the fares of a pricing rule: see calculatePrice
    Parties,      \* passengers and cars a ride is asked for
    MaxHistory,   \* bound on a ride's statusHistory
    MaxRows       \* bound on the cached distances

VARIABLES
    mapsKey,              \* GOOGLE_MAPS_API_KEY is configured
    distances,            \* the cache: rows of a route and its metres
    tariff, tariffActive, \* the rule of a service; its shuttleType is unique
    ride                  \* None: there is no such document

rideVars == <<mapsKey, distances, tariff, tariffActive, ride>>

-----------------------------------------------------------------------------
(* isValidStatusTransition *)
Transitions ==
    ({"pending_payment"} \X {"paid", "cancelled"})
        \cup ({"paid"} \X {"confirmed", "refund_requested"})
        \cup ({"confirmed"} \X {"completed", "cancelled"})
        \cup {<<"refund_requested", "refund_pending">>, <<"refund_pending", "refunded">>}

BookingStatus == UNION {{p[1], p[2]} : p \in Transitions}

\* Mutant of IsValidTransition: any booking that is not over can be cancelled.
IsValidTransitionOrCancel(from, to) ==
    <<from, to>> \in Transitions \/ (to = "cancelled" /\ from # "cancelled")

IsValidTransition(from, to) == <<from, to>> \in Transitions

-----------------------------------------------------------------------------
(* calculatePrice *)
Unit == 100000

(* getSurgeMultiplier, in hundredths, by the hour of the day. *)
SurgeMultiplier(hour) ==
    CASE hour >= 22 \/ hour < 5 -> 125
      [] hour \in 6..8 -> 115
      [] hour \in 16..18 -> 120
      [] OTHER -> 100

(* Math.round(n / d): halves go up. *)
Round(n, d) == (2 * n + d) \div (2 * d)

Beyond(n, free) == IF n > free THEN n - free ELSE 0

Fare(rule, party, metres, surge) ==
    ( (rule.baseFare + Beyond(party.passengers, 1) * rule.perExtraPassenger
                     + Beyond(party.cars, 1) * rule.perExtraCar) * 1000
      + Beyond(metres, rule.freeKm * 1000) * rule.perKmRate ) * surge

\* Mutant of CalculatePrice: the total is rounded once, from the exact charges.
CalculatePriceOnce(rule, party, metres, surge) ==
    LET price == Fare(rule, party, metres, surge) IN
    [baseFare |-> Round(price, Unit), serviceCharge |-> Round(price, 10 * Unit),
     vat |-> Round(3 * price, 40 * Unit), total |-> Round(47 * price, 40 * Unit)]

CalculatePrice(rule, party, metres, surge) ==
    LET price == Fare(rule, party, metres, surge)
        serviceCharge == Round(price, 10 * Unit)
        vat == Round(3 * price, 40 * Unit) IN
    [baseFare |-> Round(price, Unit), serviceCharge |-> serviceCharge, vat |-> vat,
     total |-> Round(price + (serviceCharge + vat) * Unit, Unit)]

-----------------------------------------------------------------------------
Breakdown == [baseFare : Int, serviceCharge : Int, vat : Int, total : Int]

Ride == [status : BookingStatus, history : Seq(BookingStatus), price : Breakdown]

(* CreatePricingDto bounds the base fare alone. *)
ASSUME RideAssumptions ==
    /\ None \notin Rides \cup Routes \cup Tariffs \cup Ride
    /\ Tariffs \subseteq [baseFare : Nat, perKmRate : Int, freeKm : Int,
                          perExtraPassenger : Int, perExtraCar : Int]
    /\ Parties \subseteq [passengers : Nat, cars : Nat]
    /\ Metres \subseteq Nat

RideTypeOK ==
    /\ mapsKey \in BOOLEAN /\ tariffActive \in BOOLEAN
    /\ distances \in Seq(Routes \X Nat)
    /\ tariff \in Tariffs \cup {None}
    /\ ride \in [Rides -> Ride \cup {None}]

RideInit ==
    /\ mapsKey \in BOOLEAN
    /\ distances = <<>>
    /\ tariff = None /\ tariffActive = FALSE
    /\ ride = [b \in Rides |-> None]

(* The operations, by the names their requests have. *)
RideOperations == {"createRide", "updateStatus", "createRule", "updateRule", "toggleRule"}

(* Writing what a step of a ride's request changes: one of the collections. *)
RideKept == UNCHANGED <<mapsKey, distances, tariff, tariffActive, ride, overlapped>>

-----------------------------------------------------------------------------
(* create; the surge is taken when the request comes in. *)
FallbackMetres == 10000

RideAsk(t) ==
    /\ \E route \in Routes, party \in Parties, hour \in {4, 7, 12, 17} :
          Start(t, [op |-> "createRide", at |-> IF mapsKey THEN "cache" ELSE "price",
                    route |-> route, party |-> party, surge |-> SurgeMultiplier(hour),
                    metres |-> FallbackMetres, price |-> None])
    /\ RideKept

(* getDistanceKm: findOne in the cache, else Google, then create a row. *)
Cached(route) == {row \in Range(distances) : row[1] = route}

Measuring(r, route) == r.op = "createRide" /\ r.at \in {"google", "store"} /\ r.route = route

\* Mutant of CacheFind: Google is always asked.
CacheSkip(t) ==
    /\ At(t, "createRide", "cache")
    /\ Continue(t, [req[t] EXCEPT !.at = "google"])
    /\ Overlap(t, "distance", LAMBDA u : Measuring(u, req[t].route))
    /\ UNCHANGED rideVars

CacheFind(t) ==
    LET r == req[t] IN
    /\ At(t, "createRide", "cache")
    /\ \/ /\ \E row \in Cached(r.route) :
                Continue(t, [r EXCEPT !.at = "price", !.metres = row[2]])
          /\ UNCHANGED overlapped
       \/ /\ Cached(r.route) = {}
          /\ Continue(t, [r EXCEPT !.at = "google"])
          /\ Overlap(t, "distance", LAMBDA u : Measuring(u, r.route))
    /\ UNCHANGED rideVars

AskGoogle(t) ==
    /\ At(t, "createRide", "google")
    /\ \E m \in Metres : Continue(t, [req[t] EXCEPT !.at = "store", !.metres = m])
    /\ RideKept

CacheStore(t) ==
    LET r == req[t] IN
    /\ At(t, "createRide", "store")
    /\ Len(distances) < MaxRows
    /\ Continue(t, [r EXCEPT !.at = "price"])
    /\ distances' = Append(distances, <<r.route, r.metres>>)
    /\ UNCHANGED <<mapsKey, tariff, tariffActive, ride, overlapped>>

(* PricingService.estimate: the active rule of the service. *)
Estimate(t) ==
    LET r == req[t] IN
    /\ At(t, "createRide", "price")
    /\ IF tariffActive
       THEN Continue(t, [r EXCEPT !.at = "insert",
                !.price = CalculatePrice(tariff, r.party, r.metres, r.surge)])
       ELSE Finish(t)
    /\ RideKept

\* Mutant of RideInsert: the ride is stored before it is priced.
RideInsertUnpriced(t) ==
    /\ At(t, "createRide", "insert")
    /\ Finish(t)
    /\ \E b \in Fresh({b \in Rides : ride[b] = None}) :
          /\ ride' = [ride EXCEPT ![b] =
                [status |-> "pending_payment", history |-> <<"pending_payment">>, price |-> None]]
    /\ UNCHANGED <<mapsKey, distances, tariff, tariffActive, overlapped>>

(* bookingModel.create; the reference is random, and unique or it throws. *)
RideInsert(t) ==
    /\ At(t, "createRide", "insert")
    /\ Finish(t)
    /\ \E b \in Fresh({b \in Rides : ride[b] = None}) :
          /\ ride' = [ride EXCEPT ![b] =
                [status |-> "pending_payment", history |-> <<"pending_payment">>,
                 price |-> req[t].price]]
    /\ UNCHANGED <<mapsKey, distances, tariff, tariffActive, overlapped>>

-----------------------------------------------------------------------------
(* updateStatus: findById and the transition's validation, then the save, which
   sets the status and pushes to the history in one update. *)
StatusAsk(t) ==
    /\ \E b \in Rides, s \in BookingStatus :
          /\ ride[b] # None
          /\ Start(t, [op |-> "updateStatus", at |-> "find", id |-> b, status |-> s])
    /\ RideKept

StatusFind(t) ==
    LET r == req[t] IN
    /\ At(t, "updateStatus", "find")
    /\ IF IsValidTransition(ride[r.id].status, r.status)
       THEN /\ Continue(t, [r EXCEPT !.at = "save"])
            /\ Overlap(t, "status", LAMBDA u : u.op = r.op /\ u.at = "save" /\ u.id = r.id)
       ELSE Finish(t) /\ UNCHANGED overlapped
    /\ UNCHANGED rideVars

StatusSave(t) ==
    LET r == req[t] IN
    /\ At(t, "updateStatus", "save")
    /\ Len(ride[r.id].history) < MaxHistory
    /\ Finish(t)
    /\ ride' = [ride EXCEPT ![r.id].status = r.status, ![r.id].history = Append(@, r.status)]
    /\ UNCHANGED <<mapsKey, distances, tariff, tariffActive, overlapped>>

-----------------------------------------------------------------------------
(* The pricing rules.  Both services create one unless they find one (the admin's
   looks for an active one only), and the unique index stops a second one. *)
RuleAsk(t) ==
    /\ \/ \E rule \in Tariffs : Start(t, [op |-> "createRule", at |-> "find", rule |-> rule])
       \/ \E rule \in Tariffs : Start(t, [op |-> "updateRule", at |-> "find", rule |-> rule])
       \/ \E flag \in BOOLEAN : Start(t, [op |-> "toggleRule", at |-> "find", flag |-> flag])
    /\ RideKept

RuleFind(t) ==
    LET r == req[t] IN
    /\ r.op \in {"createRule", "updateRule", "toggleRule"} /\ r.at = "find"
    /\ IF tariff = None <=> r.op = "createRule"
       THEN Continue(t, [r EXCEPT !.at = "save"]) ELSE Finish(t)
    /\ RideKept

RuleCreate(t) ==
    /\ At(t, "createRule", "save")
    /\ Finish(t)
    /\ IF tariff = None
       THEN tariff' = req[t].rule /\ tariffActive' = TRUE
       ELSE UNCHANGED <<tariff, tariffActive>>
    /\ UNCHANGED <<mapsKey, distances, ride, overlapped>>

RuleUpdate(t) ==
    /\ At(t, "updateRule", "save")
    /\ Finish(t)
    /\ tariff' = req[t].rule
    /\ UNCHANGED <<mapsKey, distances, tariffActive, ride, overlapped>>

RuleToggle(t) ==
    /\ At(t, "toggleRule", "save")
    /\ Finish(t)
    /\ tariffActive' = req[t].flag
    /\ UNCHANGED <<mapsKey, distances, tariff, ride, overlapped>>

-----------------------------------------------------------------------------
RideStep(t) ==
    \/ RideAsk(t) \/ CacheFind(t) \/ AskGoogle(t) \/ CacheStore(t) \/ Estimate(t) \/ RideInsert(t)
    \/ StatusAsk(t) \/ StatusFind(t) \/ StatusSave(t)
    \/ RuleAsk(t) \/ RuleFind(t) \/ RuleCreate(t) \/ RuleUpdate(t) \/ RuleToggle(t)

RideNext == \E t \in Requests : RideStep(t)

RideSpec == HandlersInit /\ RideInit /\ [][RideNext]_<<handlers, rideVars>>

-----------------------------------------------------------------------------
(* A ride's history ends with its status and begins with pending_payment, and it
   took legal transitions only (shuttle-booking.service.ts:231), unless two
   changes of one ride overlapped between the validation and the save. *)
HistoryIsLegal ==
    \A b \in Rides : ride[b] # None =>
        LET h == ride[b].history IN
        /\ Head(h) = "pending_payment" /\ Last(h) = ride[b].status
        /\ "status" \notin overlapped =>
              \A i \in 1..Len(h) - 1 : <<h[i], h[i + 1]>> \in Transitions

(* The parts a customer is shown add up to the total they are charged
   (pricing.engine.ts:52), although each of them is rounded on its own. *)
BreakdownAddsUp ==
    \A b \in Rides : ride[b] # None =>
        LET p == ride[b].price IN p.baseFare + p.serviceCharge + p.vat = p.total

(* One distance is kept of a route (maps.service.ts:33), so that the next ride is
   priced by the same, unless two measurements of it overlapped. *)
RouteMeasuredOnce ==
    "distance" \notin overlapped =>
        \A i, j \in 1..Len(distances) : distances[i][1] = distances[j][1] => i = j
=============================================================================
