------------------------- MODULE MCSeatReservation -------------------------
(***************************************************************************)
(* SeatReservation for TLC.  Schedules are model values, and each has the  *)
(* same number of seats.                                                   *)
(***************************************************************************)
EXTENDS SeatReservation, TLC

CONSTANTS s1, s2, Seats

AllSchedules == {s1, s2}
SameCapacity == [s \in AllSchedules |-> Seats]

OneWay(s, d, n) == [outbound |-> <<s, d>>, return |-> None, seatCount |-> n]
RoundTrip(s, d, r, e, n) ==
    [outbound |-> <<s, d>>, return |-> <<r, e>>, seatCount |-> n]

(* The relations two bookings can have: the same slot, the same schedule on
   another day, one leg or both in common, seats that fit together or do not. *)
AskedTrips ==
    {OneWay(s1, 1, 2), OneWay(s1, 2, 1),
     RoundTrip(s1, 1, s2, 2, 1), RoundTrip(s2, 1, s2, 2, 2)}
============================================================================
