------------------------- MODULE MCScheduleCatalog -------------------------
(***************************************************************************)
(* ScheduleCatalog for TLC.  The operations are explored in groups of      *)
(* those that touch the same documents, each from a state the service has  *)
(* reached with one request at a time.                                     *)
(***************************************************************************)
EXTENDS ScheduleCatalog, TLC

CONSTANTS
    lagos, lagoon, abuja,   \* names of cities: two have one prefix
    here, there,            \* cities
    outward, homeward       \* schedules

TheNames == {lagos, lagoon, abuja}
ThePrefix == lagos :> "lag" @@ lagoon :> "lag" @@ abuja :> "abu"

Founding == {"createCity", "updateCity"}
CityToggles == {"createCity", "toggleCity"}
Fares == {"createSchedule", "updateSchedule"}
Toggles == {"toggleSchedule", "deleteSchedule", "createSchedule"}
Deletion == {"deleteSchedule", "createShuttle", "settle"}
Closing == {"toggleSchedule", "createShuttle"}

CatalogShifts == {Founding, CityToggles, Fares, Toggles, Deletion, Closing}

(* One shift at a time, for what goes wrong in it. *)
RouteShifts == {Founding \cup {"createSchedule"}}
FareShifts == {Fares}
DeletionShifts == {Deletion}

Interchangeable == Permutations(Requests)

-----------------------------------------------------------------------------
(* One city was created. *)
OneFounded ==
    /\ name = (here :> lagos @@ there :> None)
    /\ code = (here :> <<"lag", 0>> @@ there :> None)
    /\ serving = {here} /\ flips = {}

(* Two cities were. *)
Founded ==
    /\ name = (here :> lagos @@ there :> abuja)
    /\ code = (here :> <<"lag", 0>> @@ there :> <<"abu", 0>>)
    /\ serving = Cities /\ flips = {}

(* A schedule was created each way. *)
Opened ==
    LET route(c, d) == [from |-> code[c], to |-> code[d], basePrice |-> 1,
                        single |-> None, isActive |-> TRUE] IN
    /\ schedule = (outward :> route(here, there) @@ homeward :> route(there, here))
    /\ named = [s \in Schedules |-> Cities]
    /\ turned = {}

(* Or they were deleted again, but for one that was never created. *)
OneToCome ==
    /\ schedule = [s \in Schedules |-> None]
    /\ named = (outward :> {} @@ homeward :> Cities)
    /\ turned = {}

CatalogSeeded ==
    /\ BookingInit
    /\ CASE shift = Founding -> OneFounded /\ ScheduleInit
         [] shift = CityToggles -> CityInit /\ ScheduleInit
         [] OTHER -> Founded /\ IF "createSchedule" \in shift THEN OneToCome ELSE Opened

CatalogRuns == HandlersInit /\ CatalogSeeded /\ [][CatalogNext]_serviceVars
=============================================================================
