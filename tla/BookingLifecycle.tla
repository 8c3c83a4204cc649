------------------------- MODULE BookingLifecycle --------------------------
(***************************************************************************)
(* The life of a shuttle booking.  Next is the lifecycle as the repository *)
(* documents it (the status enum in ARCHITECTURE.md, the comments on       *)
(* deleteBooking and on the late payment): PAID is reached from RESERVED,  *)
(* by a booking someone paid in full, and only EXPIRED is deleted.         *)
(* StalePay and StaleRemove are what becomes of it when a handler writes   *)
(* on the strength of a status that another one has changed since it was   *)
(* read; RacingNext allows them too.                                       *)
(***************************************************************************)
CONSTANT Bookings

VARIABLES
    status,     \* per booking, as in the document; "absent" once deleted
    funded      \* bookings for which Paystack charged the full amount

lifecycle == <<status, funded>>

Init ==
    /\ status = [b \in Bookings |-> "reserved"]
    /\ funded = {}

Move(b, from, to) ==
    /\ status[b] \in from
    /\ status' = [status EXCEPT ![b] = to]

Fund(b) ==
    /\ funded' = funded \cup {b}
    /\ UNCHANGED status

Pay(b) == b \in funded /\ Move(b, {"reserved"}, "paid")

Expire(b) == Move(b, {"reserved"}, "expired")

(* Late money: the reservation was cleaned up, or is about to be. *)
OweRefund(b) == Move(b, {"reserved", "expired"}, "refund_pending")

Remove(b) == Move(b, {"expired"}, "absent")

Next == \E b \in Bookings :
    \/ Fund(b)
    \/ (Pay(b) \/ Expire(b) \/ OweRefund(b) \/ Remove(b)) /\ UNCHANGED funded

Spec == Init /\ [][Next]_lifecycle

-----------------------------------------------------------------------------
(* The booking was RESERVED when the payment was verified. *)
StalePay(b) == b \in funded /\ Move(b, {"expired", "refund_pending"}, "paid")

(* The booking was EXPIRED when its deletion was allowed. *)
StaleRemove(b) == Move(b, {"paid", "refund_pending"}, "absent")

RacingNext ==
    \/ Next
    \/ \E b \in Bookings : (StalePay(b) \/ StaleRemove(b)) /\ UNCHANGED funded

RacingSpec == Init /\ [][RacingNext]_lifecycle
============================================================================
