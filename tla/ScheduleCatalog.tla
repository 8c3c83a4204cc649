-------------------------- MODULE ScheduleCatalog --------------------------
(***************************************************************************)
(* ScheduleService beside CityService and createShuttle: routes name their *)
(* cities by code, a fare is kept twice (basePrice and the "single" plan), *)
(* and a schedule may be deleted once no live booking refers to it.  No    *)
(* check runs in a transaction with the write it guards; createShuttle     *)
(* reads its schedules outside its session.                                *)
(***************************************************************************)
EXTENDS CityCodes

CONSTANTS
    Schedules,  \* documents that may come to exist
    Bookings,   \* documents of shuttle-services that may come to exist
    Prices

(* What the "single" plan costs; None: there is none. *)
SinglePlan == Prices \cup {None}

Schedule == [from : Codes, to : Codes, basePrice : Prices, single : SinglePlan, isActive : BOOLEAN]

ASSUME CatalogAssumptions == None \notin Schedules \cup Bookings \cup Prices \cup Schedule

VARIABLES
    schedule,          \* the collection; None: there is no such document
    legs,              \* the schedules a booking refers to
    status, funded,    \* of bookings, as in BookingLifecycle
    named,             \* history: the cities a schedule was created for
    turned,            \* history: schedules that toggles should have left inactive
    straddled, revived \* history, see BookInsert and Settle

scheduleVars == <<schedule, named, turned>>
bookingVars == <<legs, status, funded, straddled, revived>>
catalogVars == <<scheduleVars, bookingVars>>

Booking == INSTANCE BookingLifecycle

Statuses == {"absent", "reserved", "paid", "expired", "refund_pending"}

CatalogTypeOK ==
    /\ CityTypeOK
    /\ schedule \in [Schedules -> Schedule \cup {None}]
    /\ legs \in [Bookings -> SUBSET Schedules]
    /\ status \in [Bookings -> Statuses]
    /\ funded \subseteq Bookings
    /\ named \in [Schedules -> SUBSET Cities]
    /\ turned \subseteq Schedules
    /\ straddled \subseteq Bookings /\ revived \subseteq Bookings

Exists(s) == schedule[s] # None

ScheduleInit ==
    /\ schedule = [s \in Schedules |-> None]
    /\ named = [s \in Schedules |-> {}]
    /\ turned = {}

BookingInit ==
    /\ legs = [b \in Bookings |-> {}]
    /\ status = [b \in Bookings |-> "absent"]
    /\ funded = {} /\ straddled = {} /\ revived = {}

-----------------------------------------------------------------------------
(* createSchedule *)

(* assertSinglePlanMatchesBasePrice; single is None if no plan has that key. *)
SinglePlanMatches(price, single) == single \in {None, price}

CreateScheduleStart(t) ==
    /\ Open({"createSchedule"})
    /\ \E c, d \in Stored, p \in Prices, q \in SinglePlan, active \in BOOLEAN :
          /\ c # d
          /\ Start(t, [op |-> "createSchedule", at |-> "from", from |-> code[c], to |-> code[d],
                       price |-> p, plan |-> q, active |-> active, cities |-> {c, d}])
    /\ UNCHANGED overlapped

(* cityModel.exists, once for each end; inactive cities pass. *)
CityOfRoute(t) ==
    LET r == req[t] IN
    /\ r.op = "createSchedule" /\ r.at \in {"from", "to"}
    /\ IF ~CodeExists(r[r.at]) THEN Finish(t)
       ELSE IF r.at = "from" THEN Continue(t, [r EXCEPT !.at = "to"])
       ELSE IF SinglePlanMatches(r.price, r.plan) THEN Continue(t, [r EXCEPT !.at = "insert"])
       ELSE Finish(t)
    /\ UNCHANGED overlapped

ScheduleInsert(t) ==
    LET r == req[t] IN
    /\ At(t, "createSchedule", "insert")
    /\ Finish(t)
    /\ \E s \in Schedules :
          /\ named[s] = {}
          /\ schedule' = [schedule EXCEPT ![s] =
                [from |-> r.from, to |-> r.to, basePrice |-> r.price,
                 single |-> r.plan, isActive |-> r.active]]
          /\ named' = [named EXCEPT ![s] = r.cities]
          /\ turned' = IF r.active THEN turned ELSE turned \cup {s}
    /\ UNCHANGED overlapped

-----------------------------------------------------------------------------
(* updateSchedule: a payload may hold a base price, plans, or both. *)

Pricing(r) == r.op = "updateSchedule" /\ r.at = "write"

UpdateStart(t) ==
    /\ Open({"updateSchedule"})
    /\ \E s \in Schedules, p \in Prices \cup {None}, q \in SinglePlan, both \in BOOLEAN :
          /\ p # None \/ both
          /\ both \/ q = None
          /\ Start(t, [op |-> "updateSchedule", at |-> "check", id |-> s,
                       price |-> p, plans |-> both, single |-> q])
    /\ UNCHANGED overlapped

(* The payload over the stored values passes the guard. *)
Checked(s, r) ==
    SinglePlanMatches(IF r.price = None THEN s.basePrice ELSE r.price,
                      IF r.plans THEN r.single ELSE s.single)

UpdateCheck(t) ==
    LET r == req[t] IN
    /\ At(t, "updateSchedule", "check")
    /\ \/ /\ Exists(r.id) /\ Checked(schedule[r.id], r)
          /\ Continue(t, [r EXCEPT !.at = "write"])
          /\ Overlap(t, "price", LAMBDA u : Pricing(u) /\ u.id = r.id)
       \/ /\ Exists(r.id) => ~Checked(schedule[r.id], r)
          /\ Finish(t)
          /\ UNCHANGED overlapped

\* Mutant of UpdateWrite: a field the payload lacks is cleared.
UpdateWriteAll(t) ==
    LET r == req[t] IN
    /\ At(t, "updateSchedule", "write")
    /\ Finish(t)
    /\ Exists(r.id)
    /\ schedule' = [schedule EXCEPT ![r.id].basePrice = r.price, ![r.id].single = r.single]
    /\ UNCHANGED <<named, turned, overlapped>>

(* findByIdAndUpdate with the payload. *)
UpdateWrite(t) ==
    LET r == req[t] IN
    /\ At(t, "updateSchedule", "write")
    /\ Finish(t)
    /\ schedule' = IF ~Exists(r.id) THEN schedule ELSE
          [schedule EXCEPT
              ![r.id].basePrice = IF r.price = None THEN @ ELSE r.price,
              ![r.id].single = IF r.plans THEN r.single ELSE @]
    /\ UNCHANGED <<named, turned, overlapped>>

-----------------------------------------------------------------------------
(* toggleSchedule *)

ToggleStart(t) ==
    /\ \E s \in Schedules :
          Start(t, [op |-> "toggleSchedule", at |-> "find", id |-> s, flag |-> FALSE])
    /\ UNCHANGED overlapped

ToggleFind(t) ==
    LET r == req[t] IN
    /\ At(t, "toggleSchedule", "find")
    /\ IF Exists(r.id)
       THEN /\ Continue(t, [r EXCEPT !.at = "save", !.flag = ~schedule[r.id].isActive])
            /\ Overlap(t, "toggle", LAMBDA u : u.op = r.op /\ u.at = "save" /\ u.id = r.id)
       ELSE Finish(t) /\ UNCHANGED overlapped

\* Mutant of ToggleSave: it only ever deactivates, being called a soft delete.
ToggleSaveOff(t) ==
    LET r == req[t] IN
    /\ At(t, "toggleSchedule", "save")
    /\ Finish(t)
    /\ Exists(r.id)
    /\ schedule' = [schedule EXCEPT ![r.id].isActive = FALSE]
    /\ turned' = (turned \ {r.id}) \cup ({r.id} \ turned)
    /\ UNCHANGED <<named, overlapped>>

(* save() throws if the document is gone. *)
ToggleSave(t) ==
    LET r == req[t] IN
    /\ At(t, "toggleSchedule", "save")
    /\ Finish(t)
    /\ IF Exists(r.id)
       THEN /\ schedule' = [schedule EXCEPT ![r.id].isActive = r.flag]
            /\ turned' = (turned \ {r.id}) \cup ({r.id} \ turned)
       ELSE UNCHANGED <<schedule, turned>>
    /\ UNCHANGED <<named, overlapped>>

-----------------------------------------------------------------------------
(* deleteSchedule *)

Live == {"reserved", "paid", "refund_pending"}

DeleteStart(t) ==
    /\ \E s \in Schedules : Start(t, [op |-> "deleteSchedule", at |-> "count", id |-> s])
    /\ UNCHANGED overlapped

DeleteCount(t) ==
    LET r == req[t] IN
    /\ At(t, "deleteSchedule", "count")
    /\ IF \E b \in Bookings : r.id \in legs[b] /\ status[b] \in Live
       THEN Finish(t) ELSE Continue(t, [r EXCEPT !.at = "delete"])
    /\ UNCHANGED overlapped

DeleteWrite(t) ==
    LET r == req[t] IN
    /\ At(t, "deleteSchedule", "delete")
    /\ Finish(t)
    /\ schedule' = [schedule EXCEPT ![r.id] = None]
    /\ UNCHANGED <<named, turned, overlapped>>

-----------------------------------------------------------------------------
(* createShuttle, as far as it concerns schedules *)

Bookable(s) == Exists(s) /\ schedule[s].isActive

BookStart(t) ==
    /\ \E out \in Schedules, back \in Schedules \cup {None} :
          Start(t, [op |-> "createShuttle", at |-> "outbound", outbound |-> out, return |-> back])
    /\ UNCHANGED overlapped

(* findById of each leg's schedule, outside the session. *)
BookFind(t) ==
    LET r == req[t] IN
    /\ r.op = "createShuttle" /\ r.at \in {"outbound", "return"}
    /\ IF ~Bookable(r[r.at]) THEN Finish(t)
       ELSE IF r.at = "outbound" /\ r.return # None
       THEN Continue(t, [r EXCEPT !.at = "return"])
       ELSE Continue(t, [r EXCEPT !.at = "insert"])
    /\ UNCHANGED overlapped

(* The commit.  The creation straddled a deletion if a schedule it read was
   counted for deletion before the booking could be seen. *)
BookInsert(t) ==
    LET r == req[t]
        ss == {r.outbound, r.return} \ {None} IN
    /\ At(t, "createShuttle", "insert")
    /\ Finish(t)
    /\ \E b \in Bookings :
          /\ status[b] = "absent" /\ legs[b] = {}
          /\ status' = [status EXCEPT ![b] = "reserved"]
          /\ legs' = [legs EXCEPT ![b] = ss]
          /\ straddled' =
                IF \E s \in ss : ~Exists(s) \/ \E u \in Requests :
                       At(u, "deleteSchedule", "delete") /\ req[u].id = s
                THEN straddled \cup {b} ELSE straddled
    /\ UNCHANGED <<funded, revived, overlapped>>

(* The payment handlers, clean-up and deleteBooking: some step of BookingLifecycle.
   An expired booking is revived by a payment that comes late. *)
Settle(b) ==
    /\ "settle" \in shift
    /\ \/ /\ b \notin funded
          /\ Booking!Fund(b)
       \/ /\ \/ Booking!Pay(b) \/ Booking!Expire(b) \/ Booking!OweRefund(b) \/ Booking!Remove(b)
             \/ Booking!StalePay(b) \/ Booking!StaleRemove(b)
          /\ UNCHANGED funded
    /\ revived' = IF status[b] = "expired" /\ status'[b] \in Live
                  THEN revived \cup {b} ELSE revived
    /\ UNCHANGED <<handlers, legs, straddled>>

-----------------------------------------------------------------------------
ScheduleStep(t) ==
    \/ ScheduleInsert(t) \/ UpdateWrite(t) \/ ToggleSave(t) \/ DeleteWrite(t)
    \/ /\ \/ CreateScheduleStart(t) \/ CityOfRoute(t)
          \/ UpdateStart(t) \/ UpdateCheck(t)
          \/ ToggleStart(t) \/ ToggleFind(t)
          \/ DeleteStart(t) \/ DeleteCount(t)
       /\ UNCHANGED scheduleVars

BookStep(t) ==
    \/ BookInsert(t)
    \/ (BookStart(t) \/ BookFind(t)) /\ UNCHANGED bookingVars

ScheduleOperations == {"createSchedule", "updateSchedule", "toggleSchedule", "deleteSchedule"}

CatalogNext ==
    \/ /\ Open(CityOperations)
       /\ \E t \in Requests : CityStep(t) /\ UNCHANGED catalogVars
    \/ /\ Open(ScheduleOperations)
       /\ \E t \in Requests : ScheduleStep(t) /\ UNCHANGED <<cityVars, bookingVars>>
    \/ /\ Open({"createShuttle"})
       /\ \E t \in Requests : BookStep(t) /\ UNCHANGED <<cityVars, scheduleVars>>
    \/ \E t \in Requests : Fail(t) /\ UNCHANGED <<cityVars, catalogVars>>
    \/ \E b \in Bookings : Settle(b) /\ UNCHANGED <<cityVars, scheduleVars>>

serviceVars == <<handlers, cityVars, catalogVars>>

CatalogSpec == HandlersInit /\ CityInit /\ ScheduleInit /\ BookingInit /\ [][CatalogNext]_serviceVars

-----------------------------------------------------------------------------
(* Properties *)

(* "basePrice and the "single" plan's price must never diverge"
   (schedule.service.ts:313): a fare's two copies agree. *)
PriceAgrees ==
    \A s \in Schedules :
        Exists(s) => SinglePlanMatches(schedule[s].basePrice, schedule[s].single)

(* "refuses to delete a schedule that still has bookings referencing it"
   (schedule.service.ts:352): a live booking's schedules exist, so that populate
   finds them. *)
LiveBookingHasSchedule ==
    \A b \in Bookings : status[b] \in Live => \A s \in legs[b] : Exists(s)

(* No acknowledged toggle of a city or a schedule is lost, unless two toggles of
   the same document overlapped. *)
TogglesCount ==
    "toggle" \notin overlapped =>
        /\ \A c \in Stored : c \in serving <=> c \notin flips
        /\ \A s \in Schedules : Exists(s) => schedule[s].isActive = (s \notin turned)

(* "the code is immutable" (city.controller.ts:35): a schedule's codes still name
   the cities it was created for. *)
RouteCitiesStand ==
    \A s \in Schedules : Exists(s) =>
        \A c \in named[s] : code[c] \in {schedule[s].from, schedule[s].to}
=============================================================================
