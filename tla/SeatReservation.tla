-------------------------- MODULE SeatReservation --------------------------
(***************************************************************************)
(* createShuttle: a transaction that expires lapsed reservations, counts   *)
(* the seats that are taken, and inserts the booking.  MongoDB runs it     *)
(* under snapshot isolation: it reads the bookings as they were when it    *)
(* began and is aborted only if it writes a document somebody else wrote   *)
(* meanwhile.  Many requests run it at once, beside the clean-up cron and  *)
(* the payment handlers, whose effect on a booking is BookingLifecycle's.  *)
(***************************************************************************)
EXTENDS Process, Functions, FiniteSets

CONSTANTS
    Reservations,  \* the bookings createShuttle may insert, one per request
    Schedules,
    Dates,         \* a set of numbers: calendar days
    Capacity,      \* seats of a vehicle, per schedule
    Trips          \* what riders ask for: slot of each leg, seatCount

Slot == Schedules \X Dates

(* None: no return leg, or no trip yet.  A round trip does not
   return before it travels; a return leg may use any schedule, the outbound one
   included. *)
ASSUME SeatAssumptions ==
    /\ Dates \subseteq Nat
    /\ Capacity \in [Schedules -> Nat \ {0}]
    /\ None \notin Slot \cup Trips
    /\ \A q \in Trips :
        /\ q \in [outbound : Slot, return : Slot \cup {None}, seatCount : Nat \ {0}]
        /\ q.return # None => q.outbound[2] <= q.return[2]

VARIABLES
    committed,  \* the status of a booking; "absent" if there is no document
    lapsed,     \* bookings whose expiresAt has passed while RESERVED
    trip,       \* what a request asks for, and its booking then holds
    stage,      \* how far a request's transaction is
    view,       \* the statuses a transaction reads: its snapshot, its writes
    cleaned     \* the reservations a transaction expired

seatVars == <<committed, lapsed, trip, stage, view, cleaned>>

Legs == {"outbound", "return"}
SeatStatus == {"reserved", "paid", "expired", "refund_pending", "absent"}
Stages == {"idle", "clean", "insert", "done"}

SeatTypeOK ==
    /\ committed \in [Reservations -> SeatStatus]
    /\ lapsed \subseteq Reservations
    /\ trip \in [Reservations -> Trips \cup {None}]
    /\ stage \in [Reservations -> Stages]
    /\ view \in [Reservations -> [Reservations -> SeatStatus]]
    /\ cleaned \in [Reservations -> SUBSET Reservations]

NothingSeen == [c \in Reservations |-> "absent"]

SeatInit ==
    /\ committed = [b \in Reservations |-> "absent"]
    /\ lapsed = {}
    /\ trip = [b \in Reservations |-> None]
    /\ stage = [b \in Reservations |-> "idle"]
    /\ view = [b \in Reservations |-> NothingSeen]
    /\ cleaned = [b \in Reservations |-> {}]

-----------------------------------------------------------------------------
(* Seats *)

(* The statuses that hold a seat. *)
Holding == {"reserved", "paid"}

SeatsOf(bs) == SumFunctionOnSet([c \in bs |-> trip[c].seatCount], bs)

(* Math.max(capacity - booked, 0) *)
Left(slot, booked) == IF booked > Capacity[slot[1]] THEN 0 ELSE Capacity[slot[1]] - booked

(* The bookings that hold a seat of the slot on that leg, as v shows them. *)
Holders(v, leg, slot) == {c \in Reservations : v[c] \in Holding /\ trip[c][leg] = slot}

(* ShuttleServicesService.getAvailableSeats: one leg. *)
Available(v, leg, slot) == Left(slot, SeatsOf(Holders(v, leg, slot)))

-----------------------------------------------------------------------------
(* createShuttle *)

(* The transaction holds the reservations it expired until it ends. *)
Unheld(c) == \A b \in Reservations : stage[b] = "insert" => c \notin cleaned[b]

(* The request is valid, and the transaction's first read, of the user, takes
   the snapshot. *)
Begin(b) ==
    /\ stage[b] = "idle"
    /\ \E q \in Trips : trip' = [trip EXCEPT ![b] = q]
    /\ stage' = [stage EXCEPT ![b] = "clean"]
    /\ view' = [view EXCEPT ![b] = committed]
    /\ UNCHANGED <<committed, lapsed, cleaned>>

(* Travels out on the same schedule, or returns on the same one. *)
SharesSchedule(b, c) ==
    \/ trip[b].outbound[1] = trip[c].outbound[1]
    \/ /\ trip[b].return # None /\ trip[c].return # None
       /\ trip[b].return[1] = trip[c].return[1]

(* What updateMany matches in the transaction's snapshot. *)
Reclaimable(b) ==
    {c \in lapsed : view[b][c] = "reserved" /\ SharesSchedule(b, c)}

\* Mutant of Conflicting: writes are not checked against later commits.
ConflictingLocks(b) == {c \in Reclaimable(b) : ~Unheld(c)}

\* Mutant of Conflicting: writes are not checked against other transactions.
ConflictingCommits(b) == {c \in Reclaimable(b) : committed[c] # view[b][c]}

(* MongoDB aborts a transaction that writes a document which another one has
   written and not committed, or which changed after the snapshot. *)
Conflicting(b) == {c \in Reclaimable(b) : ~Unheld(c) \/ committed[c] # view[b][c]}

Clean(b) ==
    /\ stage[b] = "clean"
    /\ Conflicting(b) = {}
    /\ stage' = [stage EXCEPT ![b] = "insert"]
    /\ cleaned' = [cleaned EXCEPT ![b] = Reclaimable(b)]
    /\ view' = [view EXCEPT ![b] =
                    [c \in Reservations |-> IF c \in Reclaimable(b) THEN "expired" ELSE @[c]]]
    /\ UNCHANGED <<committed, lapsed, trip>>

\* Mutant of Fits: the return leg is not checked.
FitsOutbound(b) ==
    trip[b].seatCount <= Available(view[b], "outbound", trip[b].outbound)

(* The seat checks of both legs, each for itself. *)
Fits(b) ==
    \A leg \in Legs :
        trip[b][leg] # None => trip[b].seatCount <= Available(view[b], leg, trip[b][leg])

\* Mutant of Insert: the key of the enum instead of its value.
InsertMisspelt(b) ==
    /\ stage[b] = "insert"
    /\ Fits(b)
    /\ committed' = [committed EXCEPT ![b] = "RESERVED"]
    /\ stage' = [stage EXCEPT ![b] = "done"]
    /\ UNCHANGED <<lapsed, trip, view, cleaned>>

\* Mutant of Insert: the clean-up's updateMany is not part of the transaction.
InsertAlone(b) ==
    /\ stage[b] = "insert"
    /\ Fits(b)
    /\ committed' = [committed EXCEPT ![b] = "reserved"]
    /\ stage' = [stage EXCEPT ![b] = "done"]
    /\ UNCHANGED <<lapsed, trip, view, cleaned>>

(* The booking is inserted and the transaction commits, with what it cleaned. *)
Insert(b) ==
    /\ stage[b] = "insert"
    /\ Fits(b)
    /\ committed' = [c \in Reservations |-> IF c = b THEN "reserved"
                                            ELSE IF c \in cleaned[b] THEN "expired"
                                            ELSE committed[c]]
    /\ stage' = [stage EXCEPT ![b] = "done"]
    /\ UNCHANGED <<lapsed, trip, view, cleaned>>

(* No seat is left, the schedule is gone or inactive, a write conflicts, a call
   fails or the process dies: nothing of the transaction remains, and nothing
   retries it but the rider. *)
Abort(b) ==
    /\ stage[b] \in {"clean", "insert"}
    /\ stage' = [stage EXCEPT ![b] = "idle"]
    /\ trip' = [trip EXCEPT ![b] = None]
    /\ view' = [view EXCEPT ![b] = NothingSeen]
    /\ cleaned' = [cleaned EXCEPT ![b] = {}]
    /\ UNCHANGED <<committed, lapsed>>

-----------------------------------------------------------------------------
(* The other writers of a booking.  ShuttlePayments implements this lifecycle, the
   racing one; any booking may be paid in full. *)
Booking == INSTANCE BookingLifecycle WITH
    Bookings <- Reservations, status <- committed, funded <- Reservations

Lapse(b) ==
    /\ committed[b] = "reserved" /\ b \notin lapsed
    /\ lapsed' = lapsed \cup {b}
    /\ UNCHANGED <<committed, trip, stage, view, cleaned>>

(* expireReservations *)
ExpireReservations(b) ==
    /\ b \in lapsed /\ Unheld(b)
    /\ Booking!Expire(b)
    /\ UNCHANGED <<lapsed, trip, stage, view, cleaned>>

(* The payment handlers and deleteBooking; a refund is owed for late money. *)
Settle(b) ==
    /\ Unheld(b)
    /\ \/ Booking!Pay(b) \/ Booking!StalePay(b)
       \/ b \in lapsed /\ Booking!OweRefund(b)
       \/ Booking!Remove(b) \/ Booking!StaleRemove(b)
    /\ UNCHANGED <<lapsed, trip, stage, view, cleaned>>

SeatNext == \E b \in Reservations :
    \/ Begin(b) \/ Clean(b) \/ Insert(b) \/ Abort(b)
    \/ Lapse(b) \/ ExpireReservations(b) \/ Settle(b)

SeatSpec == SeatInit /\ [][SeatNext]_seatVars

-----------------------------------------------------------------------------
(* Properties *)

(* b was created by a transaction that counted c's seats. *)
Counted(b, c) == view[b][c] \in Holding

(* Of two bookings on a leg of a slot, one counted the other. *)
InTurn(leg, slot) ==
    \A b, c \in Holders(committed, leg, slot) : b # c => Counted(b, c) \/ Counted(c, b)

(* No leg is oversold by bookings created one after the other, whatever expired,
   was paid late or was deleted in between: overselling takes two holders of
   whom neither was counted when the other was created. *)
CountedSeatsFit ==
    \A leg \in Legs, slot \in Slot :
        InTurn(leg, slot) =>
            SeatsOf(Holders(committed, leg, slot)) <= Capacity[slot[1]]

(* Two bookings did not both expire one reservation to take its seats: "if two
   requests race, only one can commit" (shuttle-services.service.ts:229) holds of
   requests that clean a reservation in common. *)
OneCleaner ==
    \A b, c \in Reservations :
        b # c /\ stage[b] = "done" /\ stage[c] = "done" => cleaned[b] \cap cleaned[c] = {}

(* "the cleanup and the new booking are atomic" (shuttle-services.service.ts:228):
   once the booking is there, nothing it counted as expired is RESERVED. *)
CleanupCommitted ==
    \A b, c \in Reservations :
        stage[b] = "done" /\ c \in cleaned[b] => committed[c] # "reserved"

StaysPaid(b) == committed[b] = "paid" => committed'[b] \in {"paid", "absent"}

(* A payment committed after the snapshot is not overwritten by the transaction's
   clean-up: a PAID booking stays PAID until it is deleted. *)
PaidKept == [][\A b \in Reservations : StaysPaid(b)]_seatVars

(* "If two requests race, only one can commit - the other aborts and retries"
   (shuttle-services.service.ts:229): a leg's seats are never oversold while no
   booking was paid after it expired. *)
LegFits ==
    \A leg \in Legs, slot \in Slot :
        (\A b \in Holders(committed, leg, slot) : b \notin lapsed) =>
            SeatsOf(Holders(committed, leg, slot)) <= Capacity[slot[1]]
============================================================================
