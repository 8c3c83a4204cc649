----------------------------- MODULE BackOffice -----------------------------
(***************************************************************************)
(* The services that use no transaction, in the one process that runs them *)
(* all: the front office, the catalogue of cities and schedules, and the   *)
(* administration.  They share the requests in flight, and no document.    *)
(***************************************************************************)
EXTENDS FrontOffice, ScheduleCatalog, AdminAccounts

CatalogOperations == CityOperations \cup ScheduleOperations \cup {"createShuttle", "settle"}
AdminOperations == {"bootstrap", "createAdmin", "setAdminStatus"}

backOfficeVars == <<officeVars, cityVars, catalogVars, adminVars>>

BackOfficeInit == OfficeInit /\ CityInit /\ ScheduleInit /\ BookingInit /\ AdminInit

BackOfficeNext ==
    \/ /\ ~Open(CatalogOperations \cup AdminOperations)
       /\ OfficeNext
       /\ UNCHANGED <<cityVars, catalogVars, adminVars>>
    \/ /\ Open(CatalogOperations)
       /\ CatalogNext
       /\ UNCHANGED <<riderVars, legacyVars, rideVars, leadVars, newsVars, adminVars>>
    \/ /\ Open(AdminOperations)
       /\ AdminNext
       /\ UNCHANGED <<officeVars, cityVars, catalogVars>>

BackOfficeSpec == BackOfficeInit /\ [][BackOfficeNext]_backOfficeVars
=============================================================================
