---------------------------- MODULE FrontOffice ----------------------------
(***************************************************************************)
(* The services beside the shuttle: they share the process, and so its     *)
(* death, and no document.  A request of one is interleaved with requests  *)
(* of the same or of another one, as the shift has them.                   *)
(***************************************************************************)
EXTENDS RiderAccounts, LegacyBookings, RideBookings, LeadForms, Newsroom

officeVars == <<handlers, riderVars, legacyVars, rideVars, leadVars, newsVars>>

OfficeTypeOK == RiderTypeOK /\ LegacyTypeOK /\ RideTypeOK /\ LeadTypeOK /\ NewsTypeOK

OfficeInit == HandlersInit /\ RiderInit /\ LegacyInit /\ RideInit /\ LeadInit /\ NewsInit

(* The process dies, or a call a handler waits for throws; a lead's handler also
   catches what its notifications throw: LeadDies. *)
OfficeFail(t) ==
    /\ Fail(t)
    /\ ~Submitting(req[t])
    /\ UNCHANGED <<riderVars, legacyVars, rideVars, leadVars, newsVars>>

OfficeNext ==
    \/ /\ Open(RiderOperations) /\ RiderNext
       /\ UNCHANGED <<legacyVars, rideVars, leadVars, newsVars>>
    \/ /\ Open(LegacyOperations) /\ LegacyNext
       /\ UNCHANGED <<riderVars, rideVars, leadVars, newsVars>>
    \/ /\ Open(RideOperations) /\ RideNext
       /\ UNCHANGED <<riderVars, legacyVars, leadVars, newsVars>>
    \/ /\ Open(LeadOperations) /\ LeadNext
       /\ UNCHANGED <<riderVars, legacyVars, rideVars, newsVars>>
    \/ /\ Open(NewsOperations) /\ NewsNext
       /\ UNCHANGED <<riderVars, legacyVars, rideVars, leadVars>>
    \/ \E t \in Requests : OfficeFail(t)

OfficeSpec == OfficeInit /\ [][OfficeNext]_officeVars
=============================================================================
