--------------------------- MODULE LegacyBookings ---------------------------
(***************************************************************************)
(* The bookings of trips, which the shuttle services are to replace:       *)
(* BookingsService.createUserBooking and the 'booking' source of           *)
(* PaymentsService.  No transaction is used, no booking is ever cancelled, *)
(* and every initialization opens another Paystack transaction.            *)
(***************************************************************************)
EXTENDS Handlers, Functions

CONSTANTS
    TripBookings,  \* documents that may come to exist
    Departures,    \* a trip on a day; trips are created by nobody any more
    Capacity,      \* of the trip of a departure
    References     \* of Paystack transactions

ASSUME LegacyAssumptions ==
    /\ IsFiniteSet(TripBookings)
    /\ None \notin TripBookings \cup Departures \cup References
    /\ Capacity \in [Departures -> Nat \ {0}]

VARIABLES
    departure,   \* None: there is no such document
    passengers,
    bookingPaid,           \* status is PAID; it is PENDING_PAYMENT otherwise
    paymentReference,
    loggedPayments,        \* BOOKING_PAYMENT_SUCCESS entries
    opened, offered, charge, answered
        \* Paystack's transactions: their booking, those whose URL was handed
        \* out, what was paid, and the webhooks answered 200

documents == <<departure, passengers, bookingPaid, paymentReference, loggedPayments>>
paystack == <<opened, offered, charge, answered>>
legacyVars == <<documents, paystack>>

LegacyTypeOK ==
    /\ departure \in [TripBookings -> Departures \cup {None}]
    /\ passengers \in [TripBookings -> Nat]
    /\ bookingPaid \subseteq TripBookings
    /\ paymentReference \in [TripBookings -> References \cup {None}]
    /\ loggedPayments \subseteq References
    /\ opened \in [References -> TripBookings \cup {None}]
    /\ charge \in [References -> {"none", "full", "other"}]
    /\ offered \subseteq References /\ answered \subseteq References

LegacyInit ==
    /\ departure = [b \in TripBookings |-> None]
    /\ passengers = [b \in TripBookings |-> 0]
    /\ paymentReference = [b \in TripBookings |-> None]
    /\ opened = [k \in References |-> None]
    /\ charge = [k \in References |-> "none"]
    /\ bookingPaid = {} /\ loggedPayments = {} /\ offered = {} /\ answered = {}

(* The operations, by the names their requests have. *)
LegacyOperations == {"createUserBooking", "initializePayment", "webhook", "verifyPayment"}

LegacyAsked(op, at, b, k) == [op |-> op, at |-> at, id |-> b, ref |-> k]

Made == {b \in TripBookings : departure[b] # None}

-----------------------------------------------------------------------------
(* createUserBooking: the aggregate, then the insertion.  The comparison with
   'CANCELLED' excludes nothing: no booking has that status. *)
Seats(d) == SumFunctionOnSet(passengers, {b \in Made : departure[b] = d})

InsertingInto(r, d) == r.op = "createUserBooking" /\ r.at = "insert" /\ r.departure = d

TripAsk(t) ==
    /\ \E d \in Departures : \E n \in 1..Capacity[d] :
          Start(t, [op |-> "createUserBooking", at |-> "count", departure |-> d, seats |-> n])
    /\ UNCHANGED <<legacyVars, overlapped>>

\* Mutant of EnoughSeats: a full trip takes one more.
EnoughSeatsOrOne(d, n) == n <= Capacity[d] + 1 - Seats(d)

EnoughSeats(d, n) == n <= Capacity[d] - Seats(d)

TripCount(t) ==
    LET r == req[t] IN
    /\ At(t, "createUserBooking", "count")
    /\ \/ ~EnoughSeats(r.departure, r.seats) /\ Finish(t) /\ UNCHANGED overlapped
       \/ /\ EnoughSeats(r.departure, r.seats)
          /\ Continue(t, [r EXCEPT !.at = "insert"])
          /\ Overlap(t, "seats", LAMBDA u : InsertingInto(u, r.departure))
    /\ UNCHANGED legacyVars

TripInsert(t) ==
    LET r == req[t] IN
    /\ At(t, "createUserBooking", "insert")
    /\ Finish(t)
    /\ \E b \in Fresh(TripBookings \ Made) :
          /\ departure' = [departure EXCEPT ![b] = r.departure]
          /\ passengers' = [passengers EXCEPT ![b] = r.seats]
    /\ UNCHANGED <<bookingPaid, paymentReference, loggedPayments, paystack, overlapped>>

-----------------------------------------------------------------------------
(* initializePayment: findById, Paystack, save; then the URL is handed out. *)
PayAsk(t) ==
    /\ \E b \in Made : Start(t, LegacyAsked("initializePayment", "find", b, None))
    /\ UNCHANGED <<legacyVars, overlapped>>

PayFind(t) ==
    LET r == req[t] IN
    /\ At(t, "initializePayment", "find")
    /\ IF r.id \in bookingPaid THEN Finish(t) ELSE Continue(t, [r EXCEPT !.at = "open"])
    /\ UNCHANGED <<legacyVars, overlapped>>

PayOpen(t) ==
    LET r == req[t] IN
    /\ At(t, "initializePayment", "open")
    /\ \E k \in Fresh({k \in References : opened[k] = None}) :
          /\ opened' = [opened EXCEPT ![k] = r.id]
          /\ Continue(t, [r EXCEPT !.at = "save", !.ref = k])
    /\ UNCHANGED <<documents, offered, charge, answered, overlapped>>

\* Mutant of PaySave: the URL is returned before the reference is stored.
PaySaveLater(t) ==
    LET r == req[t] IN
    /\ At(t, "initializePayment", "save")
    /\ \/ /\ r.ref \notin offered
          /\ offered' = offered \cup {r.ref}
          /\ UNCHANGED <<handlers, paymentReference>>
       \/ /\ Finish(t)
          /\ paymentReference' = [paymentReference EXCEPT ![r.id] = r.ref]
          /\ UNCHANGED <<offered, overlapped>>
    /\ UNCHANGED <<departure, passengers, bookingPaid, loggedPayments, opened, charge, answered>>

PaySave(t) ==
    LET r == req[t] IN
    /\ At(t, "initializePayment", "save")
    /\ Finish(t)
    /\ paymentReference' = [paymentReference EXCEPT ![r.id] = r.ref]
    /\ offered' = offered \cup {r.ref}
    /\ UNCHANGED <<departure, passengers, bookingPaid, loggedPayments, opened, charge, answered,
                   overlapped>>

(* The customer pays, the amount asked for or another one. *)
Charge(k) ==
    /\ "initializePayment" \in shift
    /\ k \in offered /\ charge[k] = "none"
    /\ \E amount \in {"full", "other"} : charge' = [charge EXCEPT ![k] = amount]
    /\ UNCHANGED <<handlers, documents, opened, offered, answered>>

-----------------------------------------------------------------------------
(* handleBookingPayment: Paystack sends a charge again until it is answered 200,
   and sometimes after that. *)
HookAsk(t) ==
    /\ \E k \in References :
          /\ charge[k] # "none"
          /\ Start(t, LegacyAsked("webhook", "find", opened[k], k))
    /\ UNCHANGED <<legacyVars, overlapped>>

(* The guards on reference and amount; what they ignore is answered 200. *)
HookFind(t) ==
    LET r == req[t] IN
    /\ At(t, "webhook", "find")
    /\ IF paymentReference[r.id] = r.ref /\ charge[r.ref] = "full"
       THEN Continue(t, [r EXCEPT !.at = "update"]) /\ UNCHANGED answered
       ELSE Finish(t) /\ answered' = answered \cup {r.ref}
    /\ UNCHANGED <<documents, opened, offered, charge, overlapped>>

(* updateOne, if it is not paid yet. *)
HookUpdate(t) ==
    LET r == req[t] IN
    /\ At(t, "webhook", "update")
    /\ Continue(t, [r EXCEPT !.at = "log"])
    /\ bookingPaid' = bookingPaid \cup {r.id}
    /\ UNCHANGED <<departure, passengers, paymentReference, loggedPayments, paystack, overlapped>>

(* auditService.log, whether or not the update matched; then 200. *)
HookLog(t) ==
    LET r == req[t] IN
    /\ At(t, "webhook", "log")
    /\ Finish(t)
    /\ loggedPayments' = loggedPayments \cup {r.ref}
    /\ answered' = answered \cup {r.ref}
    /\ UNCHANGED <<departure, passengers, bookingPaid, paymentReference, opened, offered, charge,
                   overlapped>>

-----------------------------------------------------------------------------
(* verifyPayment, by the customer's return from Paystack or by the cron, for the
   booking in the transaction's metadata: the reference is not compared. *)
VerifyAsk(t) ==
    /\ \E k \in offered : Start(t, LegacyAsked("verifyPayment", "charge", opened[k], k))
    /\ UNCHANGED <<legacyVars, overlapped>>

(* reconcileBookings: some booking in the age window with a reference is pending. *)
ReconcileBookings(t) ==
    /\ \E b \in Made \ bookingPaid :
          /\ paymentReference[b] # None
          /\ Start(t, LegacyAsked("verifyPayment", "charge", b, paymentReference[b]))
    /\ UNCHANGED <<legacyVars, overlapped>>

VerifyCharged(t) ==
    LET r == req[t] IN
    /\ At(t, "verifyPayment", "charge")
    /\ IF charge[r.ref] = "none" THEN Finish(t) ELSE Continue(t, [r EXCEPT !.at = "find"])
    /\ UNCHANGED <<legacyVars, overlapped>>

\* Mutant of VerifyDeclined: Paystack's word suffices, whatever the amount.
VerifyDeclinedPaid(r) == r.id \in bookingPaid

VerifyDeclined(r) == r.id \in bookingPaid \/ charge[r.ref] # "full"

VerifyFind(t) ==
    LET r == req[t] IN
    /\ At(t, "verifyPayment", "find")
    /\ IF VerifyDeclined(r) THEN Finish(t) ELSE Continue(t, [r EXCEPT !.at = "save"])
    /\ UNCHANGED <<legacyVars, overlapped>>

VerifySave(t) ==
    /\ At(t, "verifyPayment", "save")
    /\ Finish(t)
    /\ bookingPaid' = bookingPaid \cup {req[t].id}
    /\ UNCHANGED <<departure, passengers, paymentReference, loggedPayments, paystack, overlapped>>

-----------------------------------------------------------------------------
LegacyStep(t) ==
    \/ TripAsk(t) \/ TripCount(t) \/ TripInsert(t)
    \/ PayAsk(t) \/ PayFind(t) \/ PayOpen(t) \/ PaySave(t)
    \/ HookAsk(t) \/ HookFind(t) \/ HookUpdate(t) \/ HookLog(t)
    \/ VerifyAsk(t) \/ ReconcileBookings(t) \/ VerifyCharged(t) \/ VerifyFind(t) \/ VerifySave(t)

LegacyNext ==
    \/ \E t \in Requests : LegacyStep(t)
    \/ \E k \in References : Charge(k)

LegacySpec == HandlersInit /\ LegacyInit /\ [][LegacyNext]_<<handlers, legacyVars>>

-----------------------------------------------------------------------------
(* No trip is overbooked (booking.service.ts:47), unless two creations for one
   departure overlapped between the count and the insertion. *)
TripFits ==
    "seats" \notin overlapped => \A d \in Departures : Seats(d) <= Capacity[d]

(* A booking is paid, and logged as paid, only by a charge in full of one of its
   own Paystack transactions, whichever of its references is stored by now. *)
LegacyPaidWasCharged ==
    /\ \A b \in bookingPaid : \E k \in References : opened[k] = b /\ charge[k] = "full"
    /\ \A k \in loggedPayments : charge[k] = "full" /\ opened[k] \in bookingPaid

(* Paystack is never answered 200 for a full charge of the reference a booking
   still has while the booking stays unpaid or unlogged: 200 ends its retries. *)
LegacyAnsweredIsPaid ==
    \A k \in answered : charge[k] = "full" /\ paymentReference[opened[k]] = k =>
        opened[k] \in bookingPaid /\ k \in loggedPayments
=============================================================================
