---------------------------- MODULE MCBackOffice ----------------------------
(***************************************************************************)
(* BackOffice for TLC: a behaviour is a shift of one of its three parts.   *)
(***************************************************************************)
EXTENDS BackOffice, MCFrontOffice, MCScheduleCatalog

MCShifts == OfficeShifts \cup CatalogShifts \cup {AdminOperations}

MCInit ==
    /\ HandlersInit
    /\ OfficeSeeded
    /\ IF shift \in CatalogShifts THEN CatalogSeeded ELSE CityInit /\ ScheduleInit /\ BookingInit
    /\ AdminInit

MCSpec == MCInit /\ [][BackOfficeNext]_backOfficeVars
=============================================================================
