-------------------------- MODULE MCShuttleService --------------------------
(***************************************************************************)
(* The shuttle service for TLC.  A behaviour is seen from one of two sides: *)
(* the payment of a booking, or the seats of the bookings of a schedule.    *)
(* What one side does to the other is a step of it (Settle, and the         *)
(* reservation ShuttlePayments starts with), so they are never explored     *)
(* together; a creation and a request are the same thing.                   *)
(***************************************************************************)
EXTENDS MCShuttlePayments, MCSeatReservation

VARIABLE side

(* Bound: three requests in flight while one reference is in use, two then. *)
Load ==
    Cardinality({t \in Requests : pc[t] # "idle"})
        <= IF \E r \in Refs : charge[r] = "unused" THEN 3 ELSE 2

ServiceInit ==
    /\ side \in {"payments", "seats"}
    /\ Init
    /\ SeatInit

ServiceNext ==
    \/ side = "payments" /\ Next /\ Load' /\ UNCHANGED <<side, seatVars>>
    \/ side = "seats" /\ SeatNext /\ UNCHANGED <<side, vars>>

ServiceSpec == ServiceInit /\ [][ServiceNext]_<<side, vars, seatVars>>
=============================================================================
