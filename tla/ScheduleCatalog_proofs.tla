----------------------- MODULE ScheduleCatalog_proofs -----------------------
(***************************************************************************)
(* Proofs about ScheduleCatalog and CityCodes, for any cities, schedules,  *)
(* prices and requests.  The invariant of the cities stands on its own,    *)
(* the schedules' routes are made of the cities' codes, and bookings refer *)
(* to schedules.                                                           *)
(***************************************************************************)
EXTENDS ScheduleCatalog, Handlers_proofs

-----------------------------------------------------------------------------
(* Cities *)

CityRequest ==
    [op : CityOperations, at : {"find", "dup", "code", "save"}, city : Cities \cup {None},
     name : CityNames \cup {None}, read : Codes \cup {None}, n : Nat, flag : BOOLEAN]

(* No city is ever deleted. *)
CityTyping(r) ==
    r.op \in CityOperations =>
        /\ r \in CityRequest
        /\ r.op # "toggleCity" => r.name \in CityNames
        /\ r.op # "createCity" => r.city \in Stored

CityRequests == \A t \in Requests : CityTyping(req[t])

StoredHasCode ==
    /\ \A c \in Stored : code[c] \in Codes
    /\ flips \subseteq Stored

(* While no two toggles of a city overlapped, what one saves is the opposite of
   what is stored. *)
ToggleCityInv ==
    "toggle" \notin overlapped =>
        /\ \A t, u \in Requests :
              TogglingCity(req[t]) /\ TogglingCity(req[u]) /\ req[t].city = req[u].city => t = u
        /\ \A t \in Requests :
              TogglingCity(req[t]) => (req[t].flag <=> req[t].city \notin serving)
        /\ \A c \in Stored : c \in serving <=> c \notin flips

CityInv ==
    /\ CityTypeOK /\ CityRequests /\ StoredHasCode
    /\ ToggleCityInv

(* Anything else the process does. *)
CityAside == Foreign(CityOperations) /\ UNCHANGED cityVars

-----------------------------------------------------------------------------
(* Schedules *)

TogglingSchedule(r) == r.op = "toggleSchedule" /\ r.at = "save"

CreatingTyping(r) ==
    r.op = "createSchedule" =>
        /\ r \in [op : {"createSchedule"}, at : {"from", "to", "insert"}, from : Codes, to : Codes,
                  price : Prices, plan : SinglePlan, active : BOOLEAN, cities : (SUBSET Cities) \ {{}}]
        /\ r.at = "insert" => SinglePlanMatches(r.price, r.plan)

UpdatingTyping(r) ==
    r.op = "updateSchedule" =>
        /\ r \in [op : {"updateSchedule"}, at : {"check", "write"}, id : Schedules,
                  price : Prices \cup {None}, plans : BOOLEAN, single : SinglePlan]
        /\ r.at = "write" => named[r.id] # {}

TogglingTyping(r) ==
    r.op = "toggleSchedule" =>
        /\ r \in [op : {"toggleSchedule"}, at : {"find", "save"}, id : Schedules, flag : BOOLEAN]
        /\ r.at = "save" => named[r.id] # {}

DeletingTyping(r) ==
    r.op = "deleteSchedule" =>
        r \in [op : {"deleteSchedule"}, at : {"count", "delete"}, id : Schedules]

ScheduleTyping(r) == CreatingTyping(r) /\ UpdatingTyping(r) /\ TogglingTyping(r) /\ DeletingTyping(r)

ScheduleRequests == \A t \in Requests : ScheduleTyping(req[t])

ScheduleTypeOK ==
    /\ schedule \in [Schedules -> Schedule \cup {None}]
    /\ named \in [Schedules -> SUBSET Cities]
    /\ turned \subseteq Schedules

(* A schedule that was never created is not there and was never toggled. *)
NamedOnce == \A s \in Schedules : named[s] = {} => ~Exists(s) /\ s \notin turned

(* While no two updates of a schedule overlapped, what one has checked still holds. *)
PriceInv ==
    "price" \notin overlapped =>
        /\ \A t, u \in Requests :
              Pricing(req[t]) /\ Pricing(req[u]) /\ req[t].id = req[u].id => t = u
        /\ \A t \in Requests :
              Pricing(req[t]) /\ Exists(req[t].id) => Checked(schedule[req[t].id], req[t])

(* PriceAgrees, but for two updates of one schedule that overlapped. *)
PriceAgreesInTurn ==
    "price" \notin overlapped =>
        \A s \in Schedules :
            Exists(s) => SinglePlanMatches(schedule[s].basePrice, schedule[s].single)

ToggleScheduleInv ==
    "toggle" \notin overlapped =>
        /\ \A t, u \in Requests :
              TogglingSchedule(req[t]) /\ TogglingSchedule(req[u]) /\ req[t].id = req[u].id => t = u
        /\ \A t \in Requests :
              TogglingSchedule(req[t]) /\ Exists(req[t].id) =>
                  req[t].flag = ~schedule[req[t].id].isActive
        /\ \A s \in Schedules : Exists(s) => schedule[s].isActive = (s \notin turned)

ScheduleInv ==
    /\ ScheduleTypeOK /\ ScheduleRequests /\ NamedOnce
    /\ PriceInv /\ PriceAgreesInTurn /\ ToggleScheduleInv

ScheduleAside == Foreign(ScheduleOperations) /\ UNCHANGED scheduleVars

-----------------------------------------------------------------------------
(* Bookings *)

BookTyping(r) ==
    r.op = "createShuttle" =>
        r \in [op : {"createShuttle"}, at : {"outbound", "return", "insert"},
               outbound : Schedules, return : Schedules \cup {None}]

BookRequests == \A t \in Requests : BookTyping(req[t])

BookTypeOK ==
    /\ legs \in [Bookings -> SUBSET Schedules]
    /\ status \in [Bookings -> Statuses]
    /\ funded \subseteq Bookings
    /\ straddled \subseteq Bookings /\ revived \subseteq Bookings

(* LiveBookingHasSchedule, but for a booking that was created while the deletion was
   under way, and for one that a late payment revived. *)
DeletedUnused ==
    \A b \in Bookings \ (straddled \cup revived) :
        status[b] \in Live => \A s \in legs[b] : Exists(s)

(* A schedule about to be deleted has no live booking that deleteSchedule could
   have counted. *)
Deleting(r) == r.op = "deleteSchedule" /\ r.at = "delete"

DeleteInv ==
    \A t \in Requests, b \in Bookings \ (straddled \cup revived) :
        Deleting(req[t]) /\ req[t].id \in legs[b] => status[b] \notin Live

BookInv == BookTypeOK /\ BookRequests /\ DeleteInv /\ DeletedUnused

CatalogInv == HandlersOK /\ CityInv /\ ScheduleInv /\ BookInv

-----------------------------------------------------------------------------
LEMMA CityInvInit == HandlersInit /\ CityInit => CityInv
<1> SUFFICES ASSUME HandlersInit, CityInit PROVE CityInv
  OBVIOUS
<1>1. \A t \in Requests : req[t] = Idle
  BY DEF HandlersInit
<1>2. CityTypeOK /\ Stored = {} /\ StoredHasCode
  BY DEF CityInit, CityTypeOK, Stored, StoredHasCode
<1>3. CityRequests /\ ToggleCityInv
  BY <1>1, <1>2, IdleHasNoOperation
     DEF CityRequests, CityTyping, CityOperations, ToggleCityInv, TogglingCity
<1>4. QED
  BY <1>2, <1>3 DEF CityInv

(* Steps that write no city. *)
CityReads(t) ==
    CityStart(t) \/ RenameFind(t) \/ NameTaken(t) \/ GenerateUniqueCode(t) \/ ToggleCityFind(t)

LEMMA CityReadsOne ==
  ASSUME HandlersOK, CityInv, NEW t \in Requests, CityReads(t)
  PROVE  /\ UNCHANGED cityVars /\ overlapped \subseteq overlapped'
         /\ HandlersOK' /\ Moves(t, req'[t])
         /\ req'[t].op \in CityOperations \cup {"none"} /\ CityTyping(req'[t])
<1> USE DEF CityTyping, CityRequest, CityOperations, At
<1>1. CityTyping(req[t])
  BY DEF CityInv, CityRequests
<1>2. CASE CityStart(t)
  <2>1. PICK op \in CityOperations, c \in Cities \cup {None}, n \in CityNames \cup {None} :
           /\ Start(t, CityAsked(op, c, n))
           /\ op # "toggleCity" => n \in CityNames
           /\ op # "createCity" => c \in Stored
    BY <1>2 DEF CityStart, Stored
  <2>2. CityAsked(op, c, n) \in CityRequest /\ CityAsked(op, c, n).op = op
        /\ "op" \in DOMAIN CityAsked(op, c, n) /\ CityTyping(CityAsked(op, c, n))
    BY <2>1 DEF CityAsked
  <2>3. QED
    BY <1>2, <2>1, <2>2, StartMoves DEF CityStart, Moves
<1>3. CASE RenameFind(t)
  <2>1. req[t] \in CityRequest /\ req[t].op = "updateCity" /\ UNCHANGED cityVars
        /\ req[t].city \in Stored /\ UNCHANGED overlapped
    BY <1>1, <1>3 DEF RenameFind
  <2>2. CASE Finish(t)
    BY <2>1, <2>2, FinishMoves, IdleHasNoOperation DEF Moves
  <2>3. CASE Continue(t, [req[t] EXCEPT !.at = "dup", !.read = code[req[t].city]])
    <3> DEFINE r == [req[t] EXCEPT !.at = "dup", !.read = code[req[t].city]]
    <3>1. /\ r \in CityRequest /\ r.op = req[t].op /\ r.city = req[t].city /\ r.name = req[t].name
          /\ "op" \in DOMAIN r
      BY <2>1 DEF CityInv, CityTypeOK, Stored
    <3>2. HandlersOK' /\ Moves(t, r)
      BY <2>3, <3>1, ContinueMoves
    <3>3. QED
      BY <1>1, <2>1, <3>1, <3>2 DEF Moves
  <2>4. QED
    BY <1>3, <2>2, <2>3 DEF RenameFind
<1>4. CASE NameTaken(t)
  BY <1>1, <1>4 DEF NameTaken, HandlersOK, Moves, Continue, Finish, Idle
<1>5. CASE GenerateUniqueCode(t)
  BY <1>1, <1>5 DEF GenerateUniqueCode, HandlersOK, Moves, Continue, Finish, Idle
<1>6. CASE ToggleCityFind(t)
  <2>1. req[t] \in CityRequest /\ req[t].op = "toggleCity" /\ UNCHANGED cityVars
        /\ req[t].city \in Stored /\ overlapped \subseteq overlapped'
    BY <1>1, <1>6 DEF ToggleCityFind, Overlap
  <2> DEFINE r == [req[t] EXCEPT !.at = "save", !.flag = req[t].city \notin serving]
  <2>2. /\ r \in CityRequest /\ r.op = req[t].op /\ r.city = req[t].city /\ r.name = req[t].name
        /\ "op" \in DOMAIN r
    BY <2>1
  <2>3. HandlersOK' /\ Moves(t, r)
    BY <1>6, <2>2, ContinueMoves DEF ToggleCityFind
  <2>4. QED
    BY <1>1, <2>1, <2>2, <2>3 DEF Moves
<1>7. QED
  BY <1>2, <1>3, <1>4, <1>5, <1>6 DEF CityReads

(* What a request that starts toggling has found. *)
LEMMA CityToggleFound ==
  ASSUME HandlersOK, CityInv, NEW t \in Requests, CityReads(t), TogglingCity(req'[t])
  PROVE  /\ req'[t].flag <=> req'[t].city \notin serving
         /\ "toggle" \notin overlapped' =>
               \A u \in Requests \ {t} : TogglingCity(req[u]) => req[u].city # req'[t].city
<1> USE DEF CityTyping, CityRequest, CityOperations, At, TogglingCity
<1>1. CityTyping(req[t])
  BY DEF CityInv, CityRequests
<1>2. CASE CityStart(t)
  <2>1. PICK op, c, n : Start(t, CityAsked(op, c, n))
    BY <1>2 DEF CityStart
  <2>2. req'[t].at \in {"dup", "find"}
    BY <2>1 DEF Start, CityAsked, HandlersOK
  <2>3. QED
    BY <2>2
<1>3. CASE RenameFind(t)
  <2>1. req[t] \in CityRequest
    BY <1>1, <1>3 DEF RenameFind
  <2> DEFINE r == [req[t] EXCEPT !.at = "dup", !.read = code[req[t].city]]
  <2>2. r.at = "dup"
    BY <2>1
  <2>3. req'[t] = Idle \/ req'[t] = r
    BY <1>3 DEF RenameFind, HandlersOK, Continue, Finish
  <2> HIDE DEF r
  <2>4. QED
    BY <2>2, <2>3 DEF Idle
<1>4. CASE NameTaken(t)
  <2>1. req[t] \in CityRequest
    BY <1>1, <1>4 DEF NameTaken
  <2> DEFINE r == [req[t] EXCEPT !.at = "code"]
  <2>2. r.at = "code"
    BY <2>1
  <2>3. req'[t] = Idle \/ req'[t] = r
    BY <1>4 DEF NameTaken, HandlersOK, Continue, Finish
  <2> HIDE DEF r
  <2>4. QED
    BY <2>2, <2>3 DEF Idle
<1>5. CASE GenerateUniqueCode(t)
  <2>1. req[t] \in CityRequest /\ req[t].op # "toggleCity"
    BY <1>1, <1>5 DEF GenerateUniqueCode
  <2>2. req'[t] = Idle \/ req'[t].op = req[t].op
    BY <1>5, <2>1 DEF GenerateUniqueCode, HandlersOK, Continue
  <2>3. QED
    BY <2>1, <2>2 DEF Idle
<1>6. CASE ToggleCityFind(t)
  <2>1. req[t] \in CityRequest /\ req[t].op = "toggleCity"
    BY <1>1, <1>6 DEF ToggleCityFind
  <2> DEFINE r == [req[t] EXCEPT !.at = "save", !.flag = req[t].city \notin serving]
  <2>2. r.op = "toggleCity" /\ r.city = req[t].city /\ r.flag = (req[t].city \notin serving)
    BY <2>1
  <2>3. req'[t] = r
    BY <1>6 DEF ToggleCityFind, Continue, HandlersOK
  <2>4. "toggle" \notin overlapped' =>
           \A u \in Requests \ {t} : TogglingCity(req[u]) => req[u].city # req[t].city
    BY <1>6 DEF ToggleCityFind, Overlap
  <2>5. QED
    BY <2>2, <2>3, <2>4
<1>7. QED
  BY <1>2, <1>3, <1>4, <1>5, <1>6 DEF CityReads

LEMMA CityReadsStep ==
  ASSUME HandlersOK, CityInv, NEW t \in Requests, CityReads(t)
  PROVE  CityInv'
<1>1. /\ UNCHANGED cityVars /\ overlapped \subseteq overlapped' /\ Moves(t, req'[t])
      /\ CityTyping(req'[t])
  BY CityReadsOne
<1>2. CityTypeOK' /\ StoredHasCode' /\ UNCHANGED Stored
  BY <1>1 DEF CityInv, CityTypeOK, StoredHasCode, cityVars, Stored
<1>3. CityRequests'
  BY <1>1, <1>2 DEF CityInv, CityRequests, CityTyping, Moves
<1>4. ToggleCityInv'
  BY <1>1, <1>2, CityToggleFound DEF CityInv, ToggleCityInv, Moves, cityVars
<1>5. QED
  BY <1>2, <1>3, <1>4 DEF CityInv

(* The writes end their request. *)
CityWrites(t) == CityCreate(t) \/ RenameSave(t) \/ ToggleCitySave(t)

LEMMA CityWritesOne ==
  ASSUME HandlersOK, CityInv, NEW t \in Requests, CityWrites(t)
  PROVE  /\ HandlersOK' /\ Moves(t, Idle) /\ UNCHANGED overlapped
         /\ CityTyping(req[t]) /\ Stored \subseteq Stored' /\ CityRequests'
         /\ \A u \in Requests : TogglingCity(req'[u]) =>
               u # t /\ req'[u] = req[u]
<1>1. HandlersOK' /\ Moves(t, Idle) /\ UNCHANGED overlapped /\ CityTyping(req[t])
  BY FinishMoves DEF CityWrites, CityCreate, RenameSave, ToggleCitySave, CityInv, CityRequests
<1>2. Stored \subseteq Stored'
  BY <1>1, CityAssumptions
     DEF CityWrites, CityCreate, RenameSave, ToggleCitySave, cityVars, Stored, CityInv, CityTypeOK,
         CityTyping, CityOperations, At
<1>3. CityRequests'
  BY <1>1, <1>2, IdleHasNoOperation
     DEF CityInv, CityRequests, CityTyping, CityRequest, CityOperations, Moves
<1>4. QED
  BY <1>1, <1>2, <1>3, IdleHasNoOperation DEF Moves, TogglingCity

LEMMA CityCreateStep ==
  ASSUME HandlersOK, CityInv, NEW t \in Requests, CityCreate(t)
  PROVE  CityInv'
<1> USE CityWritesOne DEF CityWrites
<1> DEFINE r == req[t]
           k == <<Prefix[r.name], r.n>>
<1>1. r.name \in CityNames /\ k \in Codes /\ k # None /\ r.name # None
  BY CityAssumptions DEF CityCreate, At, CityTyping, CityOperations, CityRequest, Codes, CityPrefixes
<1>2. CASE UNCHANGED cityVars
  BY <1>2 DEF CityInv, CityTypeOK, StoredHasCode, Stored, ToggleCityInv, cityVars
<1>3. ASSUME NEW c \in Cities \ Stored,
             name' = [name EXCEPT ![c] = r.name],
             code' = [code EXCEPT ![c] = k],
             serving' = serving \cup {c}, UNCHANGED flips
      PROVE  CityInv'
  <2>1. CityTypeOK' /\ Stored' = Stored \cup {c}
    BY <1>1, <1>3, CityAssumptions DEF CityInv, CityTypeOK, Stored
  <2>2. StoredHasCode'
    BY <1>1, <1>3, <2>1 DEF CityInv, CityTypeOK, StoredHasCode, Stored
  <2>3. \A u \in Requests : TogglingCity(req[u]) => req[u].city # c
    BY <1>3 DEF CityInv, CityRequests, CityTyping, CityOperations, TogglingCity
  <2>4. ToggleCityInv'
    BY <1>3, <2>1, <2>3 DEF CityInv, CityTypeOK, ToggleCityInv, StoredHasCode
  <2>5. QED
    BY <2>1, <2>2, <2>4 DEF CityInv
<1>4. QED
  BY <1>2, <1>3 DEF CityCreate

LEMMA RenameSaveStep ==
  ASSUME HandlersOK, CityInv, NEW t \in Requests, RenameSave(t)
  PROVE  CityInv'
<1> USE CityWritesOne DEF CityWrites
<1> DEFINE r == req[t]
           k == <<Prefix[r.name], r.n>>
           c == r.city
<1>1. /\ r.name \in CityNames /\ k \in Codes /\ k # None /\ r.name # None
      /\ c \in Stored
  <2>1. CityTyping(r) /\ r.op = "updateCity"
    BY DEF RenameSave, At, CityInv, CityRequests
  <2>2. r \in CityRequest /\ r.name \in CityNames /\ c \in Stored
    BY <2>1 DEF CityTyping, CityOperations
  <2>3. r.n \in Nat /\ r.name # None
    BY <2>2, CityAssumptions DEF CityRequest
  <2>4. k \in Codes /\ k # None
    BY <2>2, <2>3, CityAssumptions DEF Codes, CityPrefixes
  <2>5. QED
    BY <2>1, <2>2, <2>3, <2>4
<1>2. CASE UNCHANGED cityVars
  BY <1>2 DEF CityInv, CityTypeOK, StoredHasCode, Stored, ToggleCityInv, cityVars
<1>3. ASSUME name' = [name EXCEPT ![c] = r.name],
             code' = [code EXCEPT ![c] = IF k = r.read THEN @ ELSE k],
             UNCHANGED <<serving, flips>>
      PROVE  CityInv'
  <2>1. CityTypeOK' /\ Stored' = Stored
    BY <1>1, <1>3 DEF CityInv, CityTypeOK, Stored
  <2>2. StoredHasCode'
    BY <1>1, <1>3, <2>1 DEF CityInv, CityTypeOK, StoredHasCode, Stored
  <2>3. ToggleCityInv'
    BY <1>3, <2>1 DEF CityInv, ToggleCityInv
  <2>4. QED
    BY <2>1, <2>2, <2>3 DEF CityInv
<1>4. QED
  BY <1>2, <1>3 DEF RenameSave

LEMMA ToggleCitySaveStep ==
  ASSUME HandlersOK, CityInv, NEW t \in Requests, ToggleCitySave(t)
  PROVE  CityInv'
<1> USE CityWritesOne DEF CityWrites
<1> DEFINE c == req[t].city
<1>1. /\ c \in Stored /\ TogglingCity(req[t])
      /\ serving' = IF req[t].flag THEN serving \cup {c} ELSE serving \ {c}
      /\ flips' = (flips \ {c}) \cup ({c} \ flips)
      /\ UNCHANGED <<name, code>>
  BY DEF ToggleCitySave, At, CityTyping, CityOperations, TogglingCity
<1>2. CityTypeOK' /\ Stored' = Stored /\ StoredHasCode'
  BY <1>1 DEF CityInv, CityTypeOK, Stored, StoredHasCode
<1>3. ToggleCityInv'
  <2> SUFFICES ASSUME "toggle" \notin overlapped PROVE ToggleCityInv'
    BY DEF ToggleCityInv
  <2>1. req[t].flag <=> c \notin serving
    BY <1>1 DEF CityInv, ToggleCityInv
  <2>2. \A u \in Requests \ {t} : TogglingCity(req[u]) => req[u].city # c
    BY <1>1 DEF CityInv, ToggleCityInv
  <2>3. \A d \in Stored : d \in serving' <=> d \notin flips'
    BY <1>1, <2>1 DEF CityInv, ToggleCityInv
  <2>4. \A u \in Requests : TogglingCity(req'[u]) =>
           (req'[u].flag <=> req'[u].city \notin serving')
    BY <1>1, <2>2 DEF CityInv, ToggleCityInv
  <2>5. QED
    BY <1>2, <2>3, <2>4 DEF CityInv, ToggleCityInv
<1>4. QED
  BY <1>2, <1>3 DEF CityInv

LEMMA CityAsideStep ==
  ASSUME CityInv, CityAside
  PROVE  CityInv'
<1>1. UNCHANGED cityVars /\ UNCHANGED Stored /\ overlapped \subseteq overlapped'
  BY DEF CityAside, Foreign, cityVars, Stored
<1>2. CityTypeOK' /\ StoredHasCode'
  BY <1>1 DEF CityInv, CityTypeOK, StoredHasCode, cityVars
<1>3. \A u \in Requests : TogglingCity(req'[u]) => req'[u] = req[u]
  BY DEF CityAside, Foreign, CityOperations, TogglingCity
<1>4. CityRequests'
  BY <1>1 DEF CityInv, CityAside, Foreign, CityRequests, CityTyping
<1>5. ToggleCityInv'
  BY <1>1, <1>3 DEF CityInv, ToggleCityInv, cityVars
<1>6. QED
  BY <1>2, <1>4, <1>5 DEF CityInv

LEMMA CityInvStep ==
  ASSUME HandlersOK, CityInv, (\E t \in Requests : CityStep(t)) \/ CityAside
  PROVE  CityInv'
<1>1. ASSUME NEW t \in Requests, CityStep(t) PROVE CityInv'
  BY <1>1, CityReadsStep, CityCreateStep, RenameSaveStep, ToggleCitySaveStep DEF CityStep, CityReads
<1>2. QED
  BY <1>1, CityAsideStep

LEMMA CityStepOf ==
  ASSUME HandlersOK, CityInv, NEW t \in Requests, CityStep(t)
  PROVE  HandlersOK' /\ StepOf(CityOperations)
<1>1. req[t].op \in CityOperations \cup {"none"}
  BY IdleHasNoOperation
     DEF CityStep, CityStart, RenameFind, NameTaken, GenerateUniqueCode, ToggleCityFind, CityCreate,
         RenameSave, ToggleCitySave, At, Start, CityOperations
<1>2. CASE CityReads(t)
  BY <1>1, <1>2, CityReadsOne DEF Moves, StepOf
<1>3. CASE CityWrites(t)
  BY <1>1, <1>3, CityWritesOne, IdleHasNoOperation DEF Moves, StepOf
<1>4. QED
  BY <1>2, <1>3 DEF CityStep, CityReads, CityWrites

-----------------------------------------------------------------------------
LEMMA ScheduleInvInit == HandlersInit /\ ScheduleInit => ScheduleInv
<1> SUFFICES ASSUME HandlersInit, ScheduleInit PROVE ScheduleInv
  OBVIOUS
<1>1. \A t \in Requests : req[t] = Idle
  BY DEF HandlersInit
<1>2. ScheduleTypeOK /\ NamedOnce /\ \A s \in Schedules : ~Exists(s)
  BY DEF ScheduleInit, ScheduleTypeOK, NamedOnce, Exists
<1>3. ScheduleRequests
  BY <1>1, IdleHasNoOperation
     DEF ScheduleRequests, ScheduleTyping, CreatingTyping, UpdatingTyping, TogglingTyping,
         DeletingTyping
<1>4. PriceInv /\ PriceAgreesInTurn /\ ToggleScheduleInv
  BY <1>1, <1>2, IdleHasNoOperation
     DEF PriceInv, PriceAgreesInTurn, Pricing, ToggleScheduleInv, TogglingSchedule
<1>5. QED
  BY <1>2, <1>3, <1>4 DEF ScheduleInv

(* Steps that write no schedule. *)
ScheduleReads(t) ==
    \/ CreateScheduleStart(t) \/ CityOfRoute(t) \/ UpdateStart(t) \/ UpdateCheck(t)
    \/ ToggleStart(t) \/ ToggleFind(t) \/ DeleteStart(t) \/ DeleteCount(t)

LEMMA ScheduleReadsOne ==
  ASSUME HandlersOK, CityInv, ScheduleInv, NEW t \in Requests, ScheduleReads(t)
  PROVE  /\ overlapped \subseteq overlapped' /\ HandlersOK' /\ Moves(t, req'[t])
         /\ req'[t].op \in ScheduleOperations \cup {"none"} /\ ScheduleTyping(req'[t])
<1> USE DEF ScheduleTyping, CreatingTyping, UpdatingTyping, TogglingTyping, DeletingTyping,
            ScheduleOperations, At
<1>1. ScheduleTyping(req[t])
  BY DEF ScheduleInv, ScheduleRequests
<1>2. CASE CreateScheduleStart(t)
  <2>1. PICK c \in Stored, d \in Stored, p \in Prices, q \in SinglePlan, active \in BOOLEAN :
           Start(t, [op |-> "createSchedule", at |-> "from", from |-> code[c], to |-> code[d],
                     price |-> p, plan |-> q, active |-> active, cities |-> {c, d}])
    BY <1>2 DEF CreateScheduleStart
  <2> DEFINE r == [op |-> "createSchedule", at |-> "from", from |-> code[c], to |-> code[d],
                   price |-> p, plan |-> q, active |-> active, cities |-> {c, d}]
  <2>2. code[c] \in Codes /\ code[d] \in Codes /\ {c, d} \in (SUBSET Cities) \ {{}}
    BY DEF CityInv, StoredHasCode, Stored
  <2>3. "op" \in DOMAIN r /\ r.op = "createSchedule" /\ ScheduleTyping(r)
    BY <2>2
  <2>4. QED
    BY <1>2, <2>1, <2>3, StartMoves DEF CreateScheduleStart, Moves
<1>3. CASE CityOfRoute(t)
  <2>1. CASE Finish(t)
    BY <1>3, <2>1, FinishMoves, IdleHasNoOperation DEF CityOfRoute, Moves
  <2>2. CASE ~Finish(t)
    <3>1. PICK v \in {"to", "insert"} :
             /\ Continue(t, [req[t] EXCEPT !.at = v])
             /\ v = "insert" => SinglePlanMatches(req[t].price, req[t].plan)
      BY <1>3, <2>2 DEF CityOfRoute
    <3> DEFINE r == [req[t] EXCEPT !.at = v]
    <3>2. "op" \in DOMAIN r /\ r.op = "createSchedule" /\ ScheduleTyping(r)
      BY <1>1, <1>3, <3>1 DEF CityOfRoute
    <3>3. QED
      BY <1>3, <3>1, <3>2, ContinueMoves DEF CityOfRoute, Moves
  <2>3. QED
    BY <2>1, <2>2
<1>4. CASE UpdateStart(t) \/ ToggleStart(t) \/ DeleteStart(t)
  <2>1. CASE UpdateStart(t)
    <3>1. PICK s \in Schedules, p \in Prices \cup {None}, q \in SinglePlan, both \in BOOLEAN :
             Start(t, [op |-> "updateSchedule", at |-> "check", id |-> s,
                       price |-> p, plans |-> both, single |-> q])
      BY <2>1 DEF UpdateStart
    <3>2. ScheduleTyping([op |-> "updateSchedule", at |-> "check", id |-> s,
                          price |-> p, plans |-> both, single |-> q])
      OBVIOUS
    <3>3. QED
      BY <2>1, <3>1, <3>2, StartMoves DEF UpdateStart, Moves
  <2>2. CASE ToggleStart(t) \/ DeleteStart(t)
    <3>1. PICK s \in Schedules :
             \/ Start(t, [op |-> "toggleSchedule", at |-> "find", id |-> s, flag |-> FALSE])
             \/ Start(t, [op |-> "deleteSchedule", at |-> "count", id |-> s])
      BY <2>2 DEF ToggleStart, DeleteStart
    <3>2. /\ ScheduleTyping([op |-> "toggleSchedule", at |-> "find", id |-> s, flag |-> FALSE])
          /\ ScheduleTyping([op |-> "deleteSchedule", at |-> "count", id |-> s])
      OBVIOUS
    <3>3. QED
      BY <2>2, <3>1, <3>2, StartMoves DEF ToggleStart, DeleteStart, Moves
  <2>3. QED
    BY <1>4, <2>1, <2>2
<1>5. CASE UpdateCheck(t)
  <2>1. CASE Finish(t)
    BY <1>5, <2>1, FinishMoves, IdleHasNoOperation DEF UpdateCheck, Overlap, Moves
  <2>2. CASE ~Finish(t)
    <3>1. /\ req[t].op = "updateSchedule" /\ named[req[t].id] # {}
          /\ Continue(t, [req[t] EXCEPT !.at = "write"])
          /\ overlapped \subseteq overlapped'
      BY <1>1, <1>5, <2>2 DEF UpdateCheck, Overlap, ScheduleInv, NamedOnce
    <3>2. QED
      BY <1>1, <3>1 DEF HandlersOK, Moves, Continue
  <2>3. QED
    BY <2>1, <2>2
<1>6. CASE ToggleFind(t)
  <2>1. CASE Finish(t)
    BY <1>6, <2>1, FinishMoves, IdleHasNoOperation DEF ToggleFind, Moves, Overlap
  <2>2. CASE ~Finish(t)
    <3> DEFINE r == [req[t] EXCEPT !.at = "save", !.flag = ~schedule[req[t].id].isActive]
    <3>1. /\ req[t].op = "toggleSchedule" /\ Exists(req[t].id) /\ req[t].id \in Schedules
          /\ Continue(t, r)
          /\ overlapped \subseteq overlapped'
      BY <1>1, <1>6, <2>2 DEF ToggleFind, Overlap
    <3>2. named[req[t].id] # {} /\ schedule[req[t].id].isActive \in BOOLEAN
      BY <3>1 DEF ScheduleInv, NamedOnce, ScheduleTypeOK, Exists, Schedule
    <3>3. "op" \in DOMAIN r /\ r.op = "toggleSchedule" /\ ScheduleTyping(r)
      BY <1>1, <3>1, <3>2
    <3> HIDE DEF r
    <3>4. HandlersOK' /\ Moves(t, r)
      BY <3>1, <3>3, ContinueMoves
    <3>5. QED
      BY <3>1, <3>3, <3>4 DEF Moves
  <2>3. QED
    BY <2>1, <2>2
<1>7. CASE DeleteCount(t)
  BY <1>1, <1>7 DEF DeleteCount, HandlersOK, Moves, Continue, Finish, Idle
<1>8. QED
  BY <1>2, <1>3, <1>4, <1>5, <1>6, <1>7 DEF ScheduleReads

(* What a request about to write has found. *)
LEMMA ScheduleFound ==
  ASSUME HandlersOK, CityInv, ScheduleInv, NEW t \in Requests, ScheduleReads(t)
  PROVE  /\ Pricing(req'[t]) =>
               /\ Exists(req'[t].id) /\ Checked(schedule[req'[t].id], req'[t])
               /\ "price" \notin overlapped' =>
                     \A u \in Requests \ {t} : Pricing(req[u]) => req[u].id # req'[t].id
         /\ TogglingSchedule(req'[t]) =>
               /\ req'[t].flag = ~schedule[req'[t].id].isActive
               /\ "toggle" \notin overlapped' =>
                     \A u \in Requests \ {t} : TogglingSchedule(req[u]) => req[u].id # req'[t].id
<1> USE DEF Pricing, TogglingSchedule, At
<1>1. ScheduleTyping(req[t])
  BY DEF ScheduleInv, ScheduleRequests
<1>2. CASE Finish(t)
  BY <1>2, FinishMoves, IdleHasNoOperation DEF Moves
<1>3. CASE UpdateCheck(t) /\ ~Finish(t)
  <2> DEFINE r == [req[t] EXCEPT !.at = "write"]
  <2>1. /\ Exists(req[t].id) /\ Checked(schedule[req[t].id], req[t])
        /\ Continue(t, r)
        /\ Overlap(t, "price", LAMBDA u : Pricing(u) /\ u.id = req[t].id)
        /\ req[t].op = "updateSchedule"
    BY <1>3 DEF UpdateCheck
  <2>2. /\ req'[t] = r /\ r.op = req[t].op /\ r.id = req[t].id /\ r.price = req[t].price
        /\ r.plans = req[t].plans /\ r.single = req[t].single
    BY <1>1, <2>1 DEF Continue, HandlersOK, ScheduleTyping, UpdatingTyping
  <2>3. "price" \notin overlapped' =>
           \A u \in Requests \ {t} : Pricing(req[u]) => req[u].id # req[t].id
    BY <2>1 DEF Overlap
  <2>4. QED
    BY <2>1, <2>2, <2>3 DEF Checked
<1>4. CASE ToggleFind(t) /\ ~Finish(t)
  <2> DEFINE r == [req[t] EXCEPT !.at = "save", !.flag = ~schedule[req[t].id].isActive]
  <2>1. /\ Continue(t, r) /\ req[t].op = "toggleSchedule"
        /\ Overlap(t, "toggle", LAMBDA u : u.op = req[t].op /\ u.at = "save" /\ u.id = req[t].id)
    BY <1>4 DEF ToggleFind
  <2>2. /\ req'[t] = r /\ r.op = req[t].op /\ r.id = req[t].id
        /\ r.flag = ~schedule[req[t].id].isActive
    BY <1>1, <2>1 DEF Continue, HandlersOK, ScheduleTyping, TogglingTyping
  <2>3. "toggle" \notin overlapped' =>
           \A u \in Requests \ {t} : TogglingSchedule(req[u]) => req[u].id # req[t].id
    BY <2>1 DEF Overlap
  <2>4. QED
    BY <2>1, <2>2, <2>3
<1>5. CASE CreateScheduleStart(t) \/ UpdateStart(t) \/ ToggleStart(t) \/ DeleteStart(t)
  BY <1>5 DEF CreateScheduleStart, UpdateStart, ToggleStart, DeleteStart, Start, HandlersOK
<1>6. CASE (CityOfRoute(t) \/ DeleteCount(t)) /\ ~Finish(t)
  BY <1>1, <1>6 DEF CityOfRoute, DeleteCount, Continue, HandlersOK, ScheduleTyping, CreatingTyping,
       DeletingTyping
<1>7. QED
  BY <1>2, <1>3, <1>4, <1>5, <1>6 DEF ScheduleReads

LEMMA ScheduleReadsStep ==
  ASSUME HandlersOK, CityInv, ScheduleInv, NEW t \in Requests, ScheduleReads(t),
         UNCHANGED scheduleVars
  PROVE  ScheduleInv'
<1>1. /\ overlapped \subseteq overlapped' /\ Moves(t, req'[t]) /\ ScheduleTyping(req'[t])
  BY ScheduleReadsOne
<1>2. /\ ScheduleTypeOK' /\ NamedOnce' /\ PriceAgreesInTurn'
      /\ UNCHANGED <<schedule, named, turned>>
      /\ \A s : Exists(s)' <=> Exists(s)
  BY <1>1 DEF ScheduleInv, ScheduleTypeOK, NamedOnce, PriceAgreesInTurn, Exists, scheduleVars
<1>3. ScheduleRequests'
  BY <1>1, <1>2 DEF ScheduleInv, ScheduleRequests, ScheduleTyping, CreatingTyping, UpdatingTyping,
       TogglingTyping, DeletingTyping, Moves
<1>4. PriceInv'
  BY <1>1, <1>2, ScheduleFound DEF ScheduleInv, PriceInv, Moves
<1>5. ToggleScheduleInv'
  BY <1>1, <1>2, ScheduleFound DEF ScheduleInv, ToggleScheduleInv, Moves
<1>6. QED
  BY <1>2, <1>3, <1>4, <1>5 DEF ScheduleInv

ScheduleWrites(t) == ScheduleInsert(t) \/ UpdateWrite(t) \/ ToggleSave(t) \/ DeleteWrite(t)

LEMMA ScheduleWritesOne ==
  ASSUME HandlersOK, ScheduleInv, NEW t \in Requests, ScheduleWrites(t)
  PROVE  /\ HandlersOK' /\ Moves(t, Idle) /\ UNCHANGED overlapped /\ ScheduleTyping(req[t])
         /\ \A u \in Requests : Pricing(req'[u]) \/ TogglingSchedule(req'[u]) =>
               u # t /\ req'[u] = req[u]
<1>1. HandlersOK' /\ Moves(t, Idle) /\ UNCHANGED overlapped /\ ScheduleTyping(req[t])
  BY FinishMoves
     DEF ScheduleWrites, ScheduleInsert, UpdateWrite, ToggleSave, DeleteWrite, ScheduleInv,
         ScheduleRequests
<1>2. QED
  BY <1>1, IdleHasNoOperation DEF Moves, Pricing, TogglingSchedule

LEMMA ScheduleRequestsKept ==
  ASSUME ScheduleInv, NEW t \in Requests, Moves(t, Idle),
         \A s \in Schedules : named[s] # {} => named'[s] # {}
  PROVE  ScheduleRequests'
BY IdleHasNoOperation
   DEF ScheduleInv, ScheduleRequests, ScheduleTyping, CreatingTyping, UpdatingTyping,
       TogglingTyping, DeletingTyping, Moves

LEMMA ScheduleInsertStep ==
  ASSUME HandlersOK, ScheduleInv, NEW t \in Requests, ScheduleInsert(t)
  PROVE  ScheduleInv' /\ \A k \in Schedules : Exists(k) => Exists(k)'
<1> USE ScheduleWritesOne DEF ScheduleWrites
<1> DEFINE r == req[t]
           document == [from |-> r.from, to |-> r.to, basePrice |-> r.price,
                        single |-> r.plan, isActive |-> r.active]
<1>1. /\ document \in Schedule /\ r.cities \in (SUBSET Cities) \ {{}}
      /\ SinglePlanMatches(document.basePrice, document.single)
  BY DEF ScheduleInsert, At, ScheduleTyping, CreatingTyping, Schedule
<1>2. PICK s \in Schedules :
         /\ named[s] = {}
         /\ schedule' = [schedule EXCEPT ![s] = document]
         /\ named' = [named EXCEPT ![s] = r.cities]
         /\ turned' = IF r.active THEN turned ELSE turned \cup {s}
  BY DEF ScheduleInsert
<1>3. ScheduleTypeOK'
  BY <1>1, <1>2 DEF ScheduleInv, ScheduleTypeOK
<1>4. ScheduleRequests'
  BY <1>1, <1>2, ScheduleRequestsKept DEF ScheduleInv, ScheduleTypeOK
<1>5. NamedOnce'
  BY <1>1, <1>2 DEF ScheduleInv, ScheduleTypeOK, NamedOnce, Exists
<1>6. PriceAgreesInTurn'
  BY <1>1, <1>2 DEF ScheduleInv, ScheduleTypeOK, PriceAgreesInTurn, Exists
<1>7. \A u \in Requests : Pricing(req[u]) \/ TogglingSchedule(req[u]) =>
         req[u].id \in Schedules /\ req[u].id # s
  BY <1>2 DEF ScheduleInv, ScheduleRequests, ScheduleTyping, UpdatingTyping, TogglingTyping,
       Pricing, TogglingSchedule
<1>8. PriceInv'
  BY <1>2, <1>7 DEF ScheduleInv, ScheduleTypeOK, PriceInv, Exists
<1>9. ToggleScheduleInv'
  <2>1. document.isActive = r.active /\ r.active \in BOOLEAN /\ s \notin turned
    BY <1>2 DEF ScheduleInsert, At, ScheduleTyping, CreatingTyping, ScheduleInv, NamedOnce
  <2>2. QED
    BY <1>2, <1>7, <2>1 DEF ScheduleInv, ScheduleTypeOK, ToggleScheduleInv, Exists
<1>10. \A k \in Schedules : Exists(k) => Exists(k)'
  BY <1>2 DEF ScheduleInv, ScheduleTypeOK, NamedOnce, Exists
<1>11. QED
  BY <1>3, <1>4, <1>5, <1>6, <1>8, <1>9, <1>10 DEF ScheduleInv

(* The fields the payload holds are written over what they were checked with. *)
LEMMA UpdateWriteStep ==
  ASSUME HandlersOK, ScheduleInv, NEW t \in Requests, UpdateWrite(t)
  PROVE  ScheduleInv' /\ \A k \in Schedules : Exists(k) => Exists(k)'
<1> USE ScheduleWritesOne DEF ScheduleWrites
<1> DEFINE r == req[t]
           s == r.id
<1>1. /\ Pricing(r) /\ s \in Schedules /\ r.price \in Prices \cup {None} /\ r.single \in SinglePlan
      /\ named[s] # {} /\ UNCHANGED <<named, turned>>
  BY DEF UpdateWrite, At, ScheduleTyping, UpdatingTyping, Pricing
<1>2. ScheduleRequests'
  BY <1>1, ScheduleRequestsKept
<1>3. CASE UNCHANGED schedule
  BY <1>1, <1>2, <1>3 DEF ScheduleInv, ScheduleTypeOK, NamedOnce, PriceInv, PriceAgreesInTurn,
       ToggleScheduleInv, Exists
<1>4. CASE Exists(s) /\ schedule' # schedule
  <2> DEFINE price == IF r.price = None THEN schedule[s].basePrice ELSE r.price
             single == IF r.plans THEN r.single ELSE schedule[s].single
             document == [schedule[s] EXCEPT !.basePrice = price, !.single = single]
  <2>1. schedule[s] \in Schedule /\ schedule \in [Schedules -> Schedule \cup {None}]
    BY <1>1, <1>4 DEF ScheduleInv, ScheduleTypeOK, Exists
  <2>2. /\ document \in Schedule /\ document # None
        /\ document.basePrice = price /\ document.single = single
        /\ document.isActive = schedule[s].isActive
    BY <1>1, <2>1, CatalogAssumptions DEF Schedule
  <2>3. schedule' = [schedule EXCEPT ![s] = document]
    BY <1>1, <1>4, <2>1 DEF UpdateWrite
  <2>4. /\ schedule' \in [Schedules -> Schedule \cup {None}]
        /\ \A k \in Schedules \ {s} : schedule'[k] = schedule[k]
        /\ schedule'[s] = document
        /\ \A k \in Schedules : Exists(k)' <=> Exists(k)
    BY <1>1, <1>4, <2>1, <2>2, <2>3 DEF Exists
  <2>5. ScheduleTypeOK' /\ NamedOnce'
    BY <1>1, <2>4 DEF ScheduleInv, ScheduleTypeOK, NamedOnce
  <2>6. ASSUME "price" \notin overlapped
        PROVE  SinglePlanMatches(price, single)
    BY <1>1, <1>4, <2>6 DEF ScheduleInv, PriceInv, Checked
  <2> HIDE DEF document, price, single
  <2>7. PriceAgreesInTurn'
    <3> SUFFICES ASSUME "price" \notin overlapped', NEW k \in Schedules, Exists(k)'
                 PROVE  SinglePlanMatches(schedule'[k].basePrice, schedule'[k].single)
      BY DEF PriceAgreesInTurn, SinglePlanMatches
    <3>1. "price" \notin overlapped /\ Exists(k)
      BY <2>4
    <3>2. CASE k = s
      BY <2>2, <2>4, <2>6, <3>1, <3>2
    <3>3. CASE k # s
      BY <2>4, <3>1, <3>3 DEF ScheduleInv, PriceAgreesInTurn
    <3>4. QED
      BY <3>2, <3>3
  <2>8. ASSUME "price" \notin overlapped, NEW u \in Requests \ {t}, Pricing(req[u])
        PROVE  req[u].id \in Schedules /\ req[u].id # s
    BY <1>1, <2>8 DEF ScheduleInv, ScheduleRequests, ScheduleTyping, UpdatingTyping, PriceInv,
         Pricing
  <2>9. PriceInv'
    BY <2>4, <2>8 DEF ScheduleInv, PriceInv
  <2>10. \A k \in Schedules : Exists(k) => schedule'[k].isActive = schedule[k].isActive
    BY <2>2, <2>4
  <2>11. \A u \in Requests : TogglingSchedule(req[u]) => req[u].id \in Schedules
    BY DEF ScheduleInv, ScheduleRequests, ScheduleTyping, TogglingTyping, TogglingSchedule
  <2>12. ToggleScheduleInv'
    BY <1>1, <2>4, <2>10, <2>11 DEF ScheduleInv, ToggleScheduleInv
  <2>13. QED
    BY <1>2, <2>4, <2>5, <2>7, <2>9, <2>12 DEF ScheduleInv
<1>5. QED
  BY <1>3, <1>4 DEF UpdateWrite

LEMMA ToggleSaveStep ==
  ASSUME HandlersOK, ScheduleInv, NEW t \in Requests, ToggleSave(t)
  PROVE  ScheduleInv' /\ \A k \in Schedules : Exists(k) => Exists(k)'
<1> USE ScheduleWritesOne DEF ScheduleWrites
<1> DEFINE r == req[t]
           s == r.id
<1>1. /\ TogglingSchedule(r) /\ s \in Schedules /\ r.flag \in BOOLEAN
      /\ named[s] # {} /\ UNCHANGED named
  BY DEF ToggleSave, At, ScheduleTyping, TogglingTyping, TogglingSchedule
<1>2. ScheduleRequests'
  BY <1>1, ScheduleRequestsKept
<1>3. CASE UNCHANGED <<schedule, turned>>
  BY <1>1, <1>2, <1>3 DEF ScheduleInv, ScheduleTypeOK, NamedOnce, PriceInv, PriceAgreesInTurn,
       ToggleScheduleInv, Exists
<1>4. CASE /\ Exists(s)
           /\ schedule' = [schedule EXCEPT ![s].isActive = r.flag]
           /\ turned' = (turned \ {s}) \cup ({s} \ turned)
  <2> DEFINE document == [schedule[s] EXCEPT !.isActive = r.flag]
  <2>1. schedule[s] \in Schedule /\ schedule \in [Schedules -> Schedule \cup {None}]
    BY <1>1, <1>4 DEF ScheduleInv, ScheduleTypeOK, Exists
  <2>2. /\ document \in Schedule /\ document # None
        /\ document.basePrice = schedule[s].basePrice /\ document.single = schedule[s].single
        /\ document.isActive = r.flag
    BY <1>1, <2>1, CatalogAssumptions DEF Schedule
  <2>3. /\ schedule' \in [Schedules -> Schedule \cup {None}]
        /\ \A k \in Schedules \ {s} : schedule'[k] = schedule[k]
        /\ schedule'[s] = document
        /\ \A k \in Schedules : Exists(k)' <=> Exists(k)
    BY <1>1, <1>4, <2>1, <2>2 DEF Exists
  <2>4. ScheduleTypeOK' /\ NamedOnce'
    BY <1>1, <1>4, <2>3 DEF ScheduleInv, ScheduleTypeOK, NamedOnce
  <2>5. \A k \in Schedules : Exists(k) =>
           /\ schedule'[k].basePrice = schedule[k].basePrice
           /\ schedule'[k].single = schedule[k].single
    BY <2>2, <2>3
  <2>6. PriceAgreesInTurn'
    BY <2>3, <2>5 DEF ScheduleInv, PriceAgreesInTurn
  <2>7. \A u \in Requests : Pricing(req[u]) \/ TogglingSchedule(req[u]) => req[u].id \in Schedules
    BY DEF ScheduleInv, ScheduleRequests, ScheduleTyping, UpdatingTyping, TogglingTyping, Pricing,
         TogglingSchedule
  <2>8. PriceInv'
    BY <2>3, <2>5, <2>7 DEF ScheduleInv, PriceInv, Checked
  <2>9. ToggleScheduleInv'
    <3> SUFFICES ASSUME "toggle" \notin overlapped PROVE ToggleScheduleInv'
      BY DEF ToggleScheduleInv
    <3>1. r.flag = ~schedule[s].isActive /\ schedule[s].isActive = (s \notin turned)
      BY <1>1, <1>4 DEF ScheduleInv, ToggleScheduleInv
    <3>2. \A u \in Requests \ {t} : TogglingSchedule(req[u]) => req[u].id # s
      BY <1>1 DEF ScheduleInv, ToggleScheduleInv
    <3>3. \A k \in Schedules : Exists(k) => schedule'[k].isActive = (k \notin turned')
      BY <1>4, <2>2, <2>3, <3>1 DEF ScheduleInv, ToggleScheduleInv
    <3>4. QED
      BY <2>3, <2>7, <3>2, <3>3 DEF ScheduleInv, ToggleScheduleInv
  <2>10. QED
    BY <1>2, <2>3, <2>4, <2>6, <2>8, <2>9 DEF ScheduleInv
<1>5. QED
  BY <1>3, <1>4 DEF ToggleSave

LEMMA DeleteWriteStep ==
  ASSUME HandlersOK, ScheduleInv, NEW t \in Requests, DeleteWrite(t)
  PROVE  ScheduleInv'
<1> USE ScheduleWritesOne DEF ScheduleWrites
<1>1. UNCHANGED <<named, turned>> /\ schedule' = [schedule EXCEPT ![req[t].id] = None]
  BY DEF DeleteWrite
<1>2. \A s \in Schedules : Exists(s)' => Exists(s) /\ schedule'[s] = schedule[s]
  BY <1>1 DEF ScheduleInv, ScheduleTypeOK, Exists
<1>3. ScheduleTypeOK' /\ NamedOnce'
  BY <1>1, <1>2 DEF ScheduleInv, ScheduleTypeOK, NamedOnce
<1>4. ScheduleRequests'
  BY <1>1, ScheduleRequestsKept
<1>5. \A u \in Requests : Pricing(req[u]) \/ TogglingSchedule(req[u]) => req[u].id \in Schedules
  BY DEF ScheduleInv, ScheduleRequests, ScheduleTyping, UpdatingTyping, TogglingTyping, Pricing,
       TogglingSchedule
<1>6. PriceInv' /\ PriceAgreesInTurn'
  BY <1>2, <1>5 DEF ScheduleInv, PriceInv, PriceAgreesInTurn
<1>7. ToggleScheduleInv'
  BY <1>1, <1>2, <1>5 DEF ScheduleInv, ToggleScheduleInv
<1>8. QED
  BY <1>3, <1>4, <1>6, <1>7 DEF ScheduleInv

LEMMA ScheduleAsideStep ==
  ASSUME ScheduleInv, ScheduleAside
  PROVE  ScheduleInv'
<1>1. UNCHANGED <<schedule, named, turned>> /\ overlapped \subseteq overlapped'
      /\ \A s : Exists(s)' <=> Exists(s)
  BY DEF ScheduleAside, Foreign, scheduleVars, Exists
<1>2. ScheduleTypeOK' /\ NamedOnce' /\ PriceAgreesInTurn'
  BY <1>1 DEF ScheduleInv, ScheduleTypeOK, NamedOnce, PriceAgreesInTurn
<1>3. ScheduleRequests'
  BY <1>1 DEF ScheduleInv, ScheduleAside, Foreign, ScheduleOperations, ScheduleRequests,
       ScheduleTyping, CreatingTyping, UpdatingTyping, TogglingTyping, DeletingTyping
<1>4. \A u \in Requests : Pricing(req'[u]) \/ TogglingSchedule(req'[u]) => req'[u] = req[u]
  BY DEF ScheduleAside, Foreign, ScheduleOperations, Pricing, TogglingSchedule
<1>5. PriceInv' /\ ToggleScheduleInv'
  BY <1>1, <1>4 DEF ScheduleInv, PriceInv, ToggleScheduleInv
<1>6. QED
  BY <1>2, <1>3, <1>5 DEF ScheduleInv

LEMMA ScheduleInvStep ==
  ASSUME HandlersOK, CityInv, ScheduleInv, (\E t \in Requests : ScheduleStep(t)) \/ ScheduleAside
  PROVE  ScheduleInv'
<1>1. ASSUME NEW t \in Requests, ScheduleStep(t) PROVE ScheduleInv'
  BY <1>1, ScheduleReadsStep, ScheduleInsertStep, UpdateWriteStep, ToggleSaveStep, DeleteWriteStep
     DEF ScheduleStep, ScheduleReads
<1>2. QED
  BY <1>1, ScheduleAsideStep

LEMMA ScheduleStepOf ==
  ASSUME HandlersOK, CityInv, ScheduleInv, NEW t \in Requests, ScheduleStep(t)
  PROVE  HandlersOK' /\ StepOf(ScheduleOperations)
<1>1. req[t].op \in ScheduleOperations \cup {"none"}
  BY IdleHasNoOperation
     DEF ScheduleStep, ScheduleInsert, UpdateWrite, ToggleSave, DeleteWrite, CreateScheduleStart,
         CityOfRoute, UpdateStart, UpdateCheck, ToggleStart, ToggleFind, DeleteStart, DeleteCount,
         At, Start, ScheduleOperations
<1>2. CASE ScheduleReads(t)
  BY <1>1, <1>2, ScheduleReadsOne DEF Moves, StepOf
<1>3. CASE ScheduleWrites(t)
  BY <1>1, <1>3, ScheduleWritesOne, IdleHasNoOperation DEF Moves, StepOf
<1>4. QED
  BY <1>2, <1>3 DEF ScheduleStep, ScheduleReads, ScheduleWrites

-----------------------------------------------------------------------------
LEMMA BookInvInit == HandlersInit /\ BookingInit => BookInv
<1> SUFFICES ASSUME HandlersInit, BookingInit PROVE BookInv
  OBVIOUS
<1>1. BookTypeOK /\ DeletedUnused /\ BookRequests /\ DeleteInv
  BY IdleHasNoOperation
     DEF HandlersInit, BookingInit, BookTypeOK, Statuses, DeletedUnused, Live,
         BookRequests, BookTyping, DeleteInv, Deleting
<1>2. QED
  BY <1>1 DEF BookInv

(* A step of the schedules: one that counts finds no live booking, and only a
   deletion makes a schedule go. *)
LEMMA DeletionCounted ==
  ASSUME HandlersOK, CityInv, ScheduleInv, NEW t \in Requests, ScheduleStep(t)
  PROVE  /\ \A u \in Requests \ {t} : req'[u] = req[u]
         /\ req'[t].op \in ScheduleOperations \cup {"none"}
         /\ Deleting(req'[t]) =>
               \A b \in Bookings : req'[t].id \in legs[b] => status[b] \notin Live
         /\ \A s \in Schedules :
               Exists(s) => Exists(s)' \/ (Deleting(req[t]) /\ req[t].id = s)
<1>1. ScheduleTyping(req[t])
  BY DEF ScheduleInv, ScheduleRequests
<1>2. CASE ScheduleWrites(t)
  <2>1. Moves(t, Idle)
    BY <1>2, ScheduleWritesOne
  <2>2. \A s \in Schedules : Exists(s) => Exists(s)' \/ (Deleting(req[t]) /\ req[t].id = s)
    <3>1. CASE DeleteWrite(t)
      BY <3>1 DEF DeleteWrite, At, Deleting, Exists, ScheduleInv, ScheduleTypeOK
    <3>2. CASE ~DeleteWrite(t)
      BY <1>2, <3>2, ScheduleInsertStep, UpdateWriteStep, ToggleSaveStep DEF ScheduleWrites
    <3>3. QED
      BY <3>1, <3>2
  <2>3. QED
    BY <2>1, <2>2, IdleHasNoOperation DEF Moves, Deleting
<1>3. CASE ScheduleReads(t) /\ UNCHANGED scheduleVars
  <2>1. Moves(t, req'[t]) /\ req'[t].op \in ScheduleOperations \cup {"none"}
        /\ ScheduleTyping(req'[t])
    BY <1>3, ScheduleReadsOne
  <2>2. ASSUME Deleting(req'[t])
        PROVE  \A b \in Bookings : req'[t].id \in legs[b] => status[b] \notin Live
    <3>1. CASE Finish(t)
      BY <2>2, <3>1, FinishMoves, IdleHasNoOperation DEF Moves, Deleting
    <3>2. CASE DeleteCount(t) /\ ~Finish(t)
      BY <1>1, <3>2 DEF DeleteCount, At, Continue, HandlersOK, ScheduleTyping, DeletingTyping
    <3>3. CASE CreateScheduleStart(t) \/ UpdateStart(t) \/ ToggleStart(t) \/ DeleteStart(t)
      BY <2>2, <3>3 DEF CreateScheduleStart, UpdateStart, ToggleStart, DeleteStart, Start,
           HandlersOK, Deleting
    <3>4. CASE (CityOfRoute(t) \/ UpdateCheck(t)) /\ ~Finish(t)
      BY <1>1, <2>2, <3>4 DEF CityOfRoute, UpdateCheck, At, Continue, HandlersOK, ScheduleTyping,
           CreatingTyping, UpdatingTyping, Deleting
    <3>5. CASE ToggleFind(t) /\ ~Finish(t)
      <4> DEFINE r == [req[t] EXCEPT !.at = "save", !.flag = ~schedule[req[t].id].isActive]
      <4>1. Continue(t, r) /\ req[t].op = "toggleSchedule"
        BY <3>5 DEF ToggleFind, At
      <4>2. req'[t] = r /\ r.op = "toggleSchedule"
        BY <1>1, <4>1 DEF Continue, HandlersOK, ScheduleTyping, TogglingTyping
      <4>3. QED
        BY <2>2, <4>2 DEF Deleting
    <3>6. QED
      BY <1>3, <3>1, <3>2, <3>3, <3>4, <3>5 DEF ScheduleReads
  <2>3. QED
    BY <1>3, <2>1, <2>2 DEF Moves, scheduleVars, Exists
<1>4. QED
  BY <1>2, <1>3 DEF ScheduleStep, ScheduleWrites, ScheduleReads

LEMMA BookScheduleStep ==
  ASSUME HandlersOK, CityInv, ScheduleInv, BookInv, UNCHANGED bookingVars,
         NEW t \in Requests, ScheduleStep(t)
  PROVE  BookInv'
<1>1. /\ \A u \in Requests \ {t} : req'[u] = req[u]
      /\ req'[t].op \in ScheduleOperations \cup {"none"}
      /\ Deleting(req'[t]) => \A b \in Bookings : req'[t].id \in legs[b] => status[b] \notin Live
      /\ \A s \in Schedules : Exists(s) => Exists(s)' \/ (Deleting(req[t]) /\ req[t].id = s)
      /\ UNCHANGED <<legs, status, funded, straddled, revived>>
  BY DeletionCounted DEF bookingVars
<1>2. BookTypeOK' /\ BookRequests'
  BY <1>1 DEF BookInv, BookTypeOK, BookRequests, BookTyping, ScheduleOperations
<1>3. DeleteInv'
  BY <1>1 DEF BookInv, DeleteInv
<1>4. DeletedUnused'
  BY <1>1 DEF BookInv, BookTypeOK, DeleteInv, DeletedUnused
<1>5. QED
  BY <1>2, <1>3, <1>4 DEF BookInv

-----------------------------------------------------------------------------
LEMMA BookMoves ==
  ASSUME HandlersOK, BookInv, NEW t \in Requests, BookStep(t)
  PROVE  /\ HandlersOK' /\ Moves(t, req'[t]) /\ UNCHANGED overlapped
         /\ req'[t].op \in {"createShuttle", "none"} /\ BookTyping(req'[t])
<1>1. BookTyping(req[t])
  BY DEF BookInv, BookRequests
<1>2. CASE BookInsert(t)
  BY <1>2, FinishMoves, IdleHasNoOperation DEF BookInsert, Moves, BookTyping
<1>3. CASE BookStart(t)
  BY <1>3 DEF BookStart, Start, HandlersOK, Moves, BookTyping
<1>4. CASE BookFind(t)
  <2>1. CASE Finish(t)
    BY <1>4, <2>1, FinishMoves, IdleHasNoOperation DEF BookFind, Moves, BookTyping
  <2>2. CASE ~Finish(t)
    <3>1. PICK v \in {"return", "insert"} : Continue(t, [req[t] EXCEPT !.at = v])
      BY <1>4, <2>2 DEF BookFind
    <3>2. QED
      BY <1>1, <1>4, <3>1 DEF BookFind, Continue, HandlersOK, Moves, BookTyping
  <2>3. QED
    BY <2>1, <2>2
<1>5. QED
  BY <1>2, <1>3, <1>4 DEF BookStep

(* A booking is live from its insertion, when its schedules are there and none
   of them is about to go, or it straddled a deletion. *)
LEMMA BookInsertStep ==
  ASSUME HandlersOK, BookInv, NEW t \in Requests, BookInsert(t), UNCHANGED scheduleVars
  PROVE  BookInv'
<1> DEFINE r == req[t]
           ss == {r.outbound, r.return} \ {None}
<1>1. /\ HandlersOK' /\ Moves(t, Idle) /\ BookTyping(r) /\ r.op = "createShuttle"
      /\ \A s : Exists(s)' <=> Exists(s)
  BY FinishMoves DEF BookInsert, At, BookInv, BookRequests, scheduleVars, Exists
<1>2. PICK b \in Bookings :
         /\ status' = [status EXCEPT ![b] = "reserved"]
         /\ legs' = [legs EXCEPT ![b] = ss]
         /\ straddled' =
               IF \E s \in ss : ~Exists(s) \/ \E u \in Requests :
                      At(u, "deleteSchedule", "delete") /\ req[u].id = s
               THEN straddled \cup {b} ELSE straddled
  BY DEF BookInsert
<1>3. UNCHANGED <<funded, revived>>
  BY DEF BookInsert
<1>4. ss \subseteq Schedules
  BY <1>1 DEF BookTyping
<1>5. BookTypeOK'
  BY <1>2, <1>3, <1>4 DEF BookInv, BookTypeOK, Statuses
<1>6. BookRequests'
  BY <1>1, IdleHasNoOperation DEF BookInv, BookRequests, BookTyping, Moves
<1>7. b \notin straddled' =>
         \A s \in ss : Exists(s) /\ \A u \in Requests : ~(Deleting(req[u]) /\ req[u].id = s)
  BY <1>2 DEF At, Deleting
<1>8. \A u \in Requests : Deleting(req'[u]) => req'[u] = req[u]
  BY <1>1, IdleHasNoOperation DEF Moves, Deleting
<1>9. DeleteInv'
  BY <1>2, <1>3, <1>7, <1>8 DEF BookInv, BookTypeOK, DeleteInv
<1>10. DeletedUnused'
  BY <1>1, <1>2, <1>3, <1>7 DEF BookInv, BookTypeOK, DeletedUnused
<1>11. QED
  BY <1>5, <1>6, <1>9, <1>10 DEF BookInv

LEMMA BookInvStep ==
  ASSUME HandlersOK, BookInv, NEW t \in Requests, BookStep(t), UNCHANGED scheduleVars
  PROVE  BookInv'
<1>1. CASE BookInsert(t)
  BY <1>1, BookInsertStep
<1>2. CASE UNCHANGED bookingVars
  <2>1. Moves(t, req'[t]) /\ req'[t].op \in {"createShuttle", "none"} /\ BookTyping(req'[t])
    BY BookMoves
  <2>2. UNCHANGED <<legs, status, funded, straddled, revived>> /\ \A s : Exists(s)' <=> Exists(s)
    BY <1>2 DEF bookingVars, scheduleVars, Exists
  <2>3. QED
    BY <2>1, <2>2 DEF BookInv, BookTypeOK, BookRequests, BookTyping, DeleteInv, Deleting,
         DeletedUnused, Moves
<1>3. QED
  BY <1>1, <1>2 DEF BookStep

(* The payment code makes no booking live again but the one it revives. *)
LEMMA SettleStep ==
  ASSUME BookInv, NEW b \in Bookings, Settle(b), UNCHANGED scheduleVars
  PROVE  BookInv'
<1>1. /\ UNCHANGED <<req, legs, straddled>> /\ \A s : Exists(s)' <=> Exists(s)
      /\ revived' = IF status[b] = "expired" /\ status'[b] \in Live
                    THEN revived \cup {b} ELSE revived
  BY DEF Settle, handlers, scheduleVars, Exists
<1>2. PICK to \in Statuses :
         /\ status' = [status EXCEPT ![b] = to]
         /\ to \in Live => status[b] \in Live \cup {"expired"}
         /\ funded' \subseteq Bookings
  <2>1. CASE Booking!Fund(b)
    <3>1. status' = [status EXCEPT ![b] = status[b]] /\ status[b] \in Statuses
      BY <2>1 DEF Booking!Fund, BookInv, BookTypeOK
    <3>2. funded' \subseteq Bookings
      BY <2>1 DEF Booking!Fund, BookInv, BookTypeOK
    <3>3. QED
      BY <3>1, <3>2
  <2>2. CASE UNCHANGED funded /\ (Booking!Pay(b) \/ Booking!StalePay(b)
                                   \/ Booking!Expire(b) \/ Booking!OweRefund(b))
    BY <2>2 DEF Booking!Pay, Booking!StalePay, Booking!Expire, Booking!OweRefund, Booking!Move,
         BookInv, BookTypeOK, Statuses, Live
  <2>3. CASE UNCHANGED funded /\ (Booking!Remove(b) \/ Booking!StaleRemove(b))
    BY <2>3 DEF Booking!Remove, Booking!StaleRemove, Booking!Move, BookInv, BookTypeOK, Statuses,
         Live
  <2>4. QED
    BY <2>1, <2>2, <2>3 DEF Settle
<1>3. BookTypeOK' /\ BookRequests'
  BY <1>1, <1>2 DEF BookInv, BookTypeOK, BookRequests, BookTyping
<1>4. \A c \in Bookings \ (straddled' \cup revived') :
         /\ c \notin straddled \cup revived
         /\ status'[c] \in Live => status[c] \in Live
  BY <1>1, <1>2 DEF BookInv, BookTypeOK
<1>5. DeleteInv' /\ DeletedUnused'
  BY <1>1, <1>4 DEF BookInv, BookTypeOK, DeleteInv, DeletedUnused
<1>6. QED
  BY <1>3, <1>5 DEF BookInv

(* Anything else the process does. *)
LEMMA BookAsideStep ==
  ASSUME BookInv, Foreign(ScheduleOperations), Foreign({"createShuttle"}),
         UNCHANGED <<scheduleVars, bookingVars>>
  PROVE  BookInv'
<1>1. UNCHANGED <<legs, status, funded, straddled, revived>> /\ \A s : Exists(s)' <=> Exists(s)
  BY DEF bookingVars, scheduleVars, Exists
<1>2. \A u \in Requests : req'[u].op \in ScheduleOperations \cup {"createShuttle"} =>
         req'[u] = req[u]
  BY DEF Foreign
<1>3. QED
  BY <1>1, <1>2 DEF BookInv, BookTypeOK, BookRequests, BookTyping, DeleteInv, Deleting,
       ScheduleOperations, DeletedUnused

-----------------------------------------------------------------------------
LEMMA CatalogInvInit ==
  HandlersInit /\ CityInit /\ ScheduleInit /\ BookingInit => CatalogInv
BY InitOK, CityInvInit, ScheduleInvInit, BookInvInit DEF CatalogInv

LEMMA CatalogInvStep ==
  ASSUME CatalogInv, [CatalogNext]_serviceVars
  PROVE  CatalogInv'
<1> USE DEF CatalogInv
<1>0. /\ CityOperations \cap ScheduleOperations = {}
      /\ "createShuttle" \notin CityOperations \cup ScheduleOperations
      /\ "none" \notin CityOperations \cup ScheduleOperations \cup {"createShuttle"}
  BY DEF CityOperations, ScheduleOperations
<1>1. ASSUME NEW t \in Requests, CityStep(t), UNCHANGED catalogVars
      PROVE  CatalogInv'
  <2>1. HandlersOK' /\ CityInv' /\ StepOf(CityOperations)
    BY <1>1, CityInvStep, CityStepOf
  <2>2. Foreign(ScheduleOperations) /\ Foreign({"createShuttle"})
    BY <1>0, <2>1, OthersAreForeign
  <2>3. ScheduleAside /\ UNCHANGED <<scheduleVars, bookingVars>>
    BY <1>1, <2>2 DEF ScheduleAside, catalogVars
  <2>4. QED
    BY <2>1, <2>2, <2>3, ScheduleInvStep, BookAsideStep
<1>2. ASSUME NEW t \in Requests, ScheduleStep(t), UNCHANGED <<cityVars, bookingVars>>
      PROVE  CatalogInv'
  <2>1. HandlersOK' /\ ScheduleInv' /\ BookInv' /\ StepOf(ScheduleOperations)
    BY <1>2, ScheduleInvStep, ScheduleStepOf, BookScheduleStep
  <2>2. CityAside
    BY <1>0, <1>2, <2>1, OthersAreForeign DEF CityAside
  <2>3. QED
    BY <2>1, <2>2, CityInvStep
<1>3. ASSUME NEW t \in Requests, BookStep(t), UNCHANGED <<cityVars, scheduleVars>>
      PROVE  CatalogInv'
  <2>1. HandlersOK' /\ StepOf({"createShuttle"}) /\ BookInv'
    <3>1. req[t].op \in {"createShuttle", "none"}
      BY <1>3, IdleHasNoOperation DEF BookStep, BookInsert, BookStart, BookFind, At, Start
    <3>2. QED
      BY <1>3, <3>1, BookMoves, BookInvStep DEF Moves, StepOf
  <2>2. Foreign(CityOperations) /\ Foreign(ScheduleOperations)
    BY <1>0, <2>1, OthersAreForeign
  <2>3. QED
    BY <1>3, <2>1, <2>2, CityInvStep, ScheduleInvStep DEF CityAside, ScheduleAside
<1>4. ASSUME HandlersOK', Foreign(CityOperations), Foreign(ScheduleOperations),
             UNCHANGED <<cityVars, scheduleVars>>, BookInv'
      PROVE  CatalogInv'
  BY <1>4, CityInvStep, ScheduleInvStep DEF CityAside, ScheduleAside
<1>5. ASSUME NEW t \in Requests, Fail(t), UNCHANGED <<cityVars, catalogVars>>
      PROVE  CatalogInv'
  <2>1. /\ HandlersOK' /\ Foreign(CityOperations) /\ Foreign(ScheduleOperations)
        /\ Foreign({"createShuttle"})
    BY <1>0, <1>5, FailIsForeign
  <2>2. BookInv'
    BY <1>5, <2>1, BookAsideStep DEF catalogVars
  <2>3. QED
    BY <1>4, <1>5, <2>1, <2>2 DEF catalogVars
<1>6. ASSUME NEW b \in Bookings, Settle(b), UNCHANGED <<cityVars, scheduleVars>>
      PROVE  CatalogInv'
  <2>1. HandlersOK' /\ Foreign(CityOperations) /\ Foreign(ScheduleOperations)
    BY <1>6 DEF Settle, handlers, HandlersOK, Foreign
  <2>2. QED
    BY <1>4, <1>6, <2>1, SettleStep
<1>7. CASE UNCHANGED serviceVars
  <2>1. /\ HandlersOK' /\ Foreign(CityOperations) /\ Foreign(ScheduleOperations)
        /\ Foreign({"createShuttle"}) /\ UNCHANGED <<cityVars, scheduleVars, bookingVars>>
    BY <1>7 DEF serviceVars, handlers, catalogVars, HandlersOK, Foreign
  <2>2. QED
    BY <1>4, <2>1, BookAsideStep
<1>8. QED
  BY <1>1, <1>2, <1>3, <1>5, <1>6, <1>7 DEF CatalogNext

LEMMA CatalogInvImplies ==
  CatalogInv => CatalogTypeOK /\ PriceAgreesInTurn /\ DeletedUnused /\ TogglesCount
<1> SUFFICES ASSUME CatalogInv
             PROVE  CatalogTypeOK /\ PriceAgreesInTurn /\ DeletedUnused /\ TogglesCount
  OBVIOUS
<1>1. CatalogTypeOK
  BY DEF CatalogInv, CityInv, ScheduleInv, ScheduleTypeOK, BookInv, BookTypeOK, CatalogTypeOK
<1>2. TogglesCount
  BY DEF CatalogInv, CityInv, ToggleCityInv, ScheduleInv, ToggleScheduleInv, TogglesCount
<1>3. QED
  BY <1>1, <1>2 DEF CatalogInv, CityInv, ScheduleInv, BookInv

-----------------------------------------------------------------------------
(* Cities, schedules and bookings keep their invariants beside one another, in
   whichever order their handlers' awaits are served. *)
THEOREM CatalogInvariant == CatalogSpec => []CatalogInv
<1>1. HandlersInit /\ CityInit /\ ScheduleInit /\ BookingInit => CatalogInv
  BY CatalogInvInit
<1>2. CatalogInv /\ [CatalogNext]_serviceVars => CatalogInv'
  BY CatalogInvStep
<1>3. QED
  BY <1>1, <1>2, PTL DEF CatalogSpec

(* What is stored of cities, schedules and bookings is of the kinds the schemas
   have. *)
THEOREM CatalogIsTyped == CatalogSpec => []CatalogTypeOK
BY CatalogInvariant, CatalogInvImplies, PTL

(* The guard over the stored price keeps both prices of a fare equal
   (schedule.service.ts:313), whatever part of them a payload holds and however many
   payloads come, until two updates of a schedule overlap: PriceAgrees fails through
   that race alone. *)
THEOREM PricesAgreeInTurn == CatalogSpec => []PriceAgreesInTurn
BY CatalogInvariant, CatalogInvImplies, PTL

(* deleteSchedule's count (schedule.service.ts:367) refuses every schedule a live
   booking refers to, but one whose booking is just being created and one whose
   booking a late payment revives: LiveBookingHasSchedule fails through these alone. *)
THEOREM SchedulesDeletedUnused == CatalogSpec => []DeletedUnused
BY CatalogInvariant, CatalogInvImplies, PTL

(* No toggle that was acknowledged is lost (toggleCityStatus, toggleSchedule), unless
   two toggles of the same document overlapped. *)
THEOREM AllTogglesCount == CatalogSpec => []TogglesCount
BY CatalogInvariant, CatalogInvImplies, PTL

-----------------------------------------------------------------------------
(* Routes and the codes of their cities *)

Creating(r) == r.op = "createSchedule"

(* The cities of a route exist, and it names them by their codes: a schedule's, and
   that of a creation in flight. *)
RouteInv ==
    /\ \A s \in Schedules : named[s] \subseteq Stored
    /\ \A t \in Requests : Creating(req[t]) =>
          /\ req[t].cities \subseteq Stored
          /\ \A c \in req[t].cities : code[c] \in {req[t].from, req[t].to}
    /\ RouteCitiesStand

(* No city that exists is given another code. *)
CodesKept == \A c \in Stored : code'[c] = code[c]

LEMMA StoredKept ==
  ASSUME CatalogInv, [CatalogNext]_serviceVars
  PROVE  Stored \subseteq Stored'
<1> SUFFICES ASSUME NEW c \in Stored PROVE name'[c] # None
  BY DEF Stored
<1>1. name \in [Cities -> CityNames \cup {None}] /\ c \in Cities /\ name[c] # None
  BY DEF CatalogInv, CityInv, CityTypeOK, Stored
<1>2. ASSUME NEW t \in Requests, RenameSave(t) PROVE name'[c] # None
  <2>1. req[t].name \in CityNames
    BY <1>2 DEF RenameSave, At, CatalogInv, CityInv, CityRequests, CityTyping, CityOperations
  <2>2. name' = name \/ name' = [name EXCEPT ![req[t].city] = req[t].name]
    BY <1>2 DEF RenameSave, cityVars
  <2>3. QED
    BY <1>1, <2>1, <2>2, CityAssumptions
<1>3. ASSUME NEW t \in Requests, CityCreate(t) PROVE name'[c] # None
  <2>1. req[t].name \in CityNames
    BY <1>3 DEF CityCreate, At, CatalogInv, CityInv, CityRequests, CityTyping, CityOperations
  <2>2. name' = name \/ \E d \in Cities : name' = [name EXCEPT ![d] = req[t].name]
    BY <1>3 DEF CityCreate, cityVars
  <2>3. QED
    BY <1>1, <2>1, <2>2, CityAssumptions
<1>4. CASE UNCHANGED name
  BY <1>1, <1>4
<1>5. QED
  BY <1>2, <1>3, <1>4
     DEF CatalogNext, serviceVars, cityVars, CityStep, CityStart, RenameFind, NameTaken,
         GenerateUniqueCode, ToggleCityFind, ToggleCitySave

(* A creation keeps the route it was asked for, between two cities there were. *)
LEMMA CreationKeepsRoute ==
  ASSUME CatalogInv, NEW u \in Requests, ScheduleStep(u), Creating(req'[u])
  PROVE  \/ /\ Creating(req[u]) /\ req'[u].cities = req[u].cities
            /\ req'[u].from = req[u].from /\ req'[u].to = req[u].to
         \/ \E c, d \in Stored :
               req'[u].cities = {c, d} /\ req'[u].from = code[c] /\ req'[u].to = code[d]
<1> USE DEF HandlersOK, CatalogInv, Creating
<1>1. CASE CreateScheduleStart(u)
  BY <1>1 DEF CreateScheduleStart, Start
<1>2. CASE CityOfRoute(u)
  <2>1. /\ Creating(req[u])
        /\ req[u] \in [op : {"createSchedule"}, at : {"from", "to", "insert"}, from : Codes,
                      to : Codes, price : Prices, plan : SinglePlan, active : BOOLEAN,
                      cities : (SUBSET Cities) \ {{}}]
    BY <1>2 DEF CityOfRoute, ScheduleInv, ScheduleRequests, ScheduleTyping, CreatingTyping
  <2>2. \/ req' = [req EXCEPT ![u] = Idle]
        \/ \E s \in {"to", "insert"} : req' = [req EXCEPT ![u] = [req[u] EXCEPT !.at = s]]
    BY <1>2 DEF CityOfRoute, Finish, Continue
  <2>3. QED
    BY <2>1, <2>2, IdleHasNoOperation
<1>3. CASE UpdateStart(u) \/ ToggleStart(u) \/ DeleteStart(u)
  BY <1>3 DEF UpdateStart, ToggleStart, DeleteStart, Start
<1>4. CASE UpdateCheck(u)
  <2>1. req[u].op = "updateSchedule" /\ "op" \in DOMAIN req[u]
        /\ \/ req' = [req EXCEPT ![u] = Idle]
           \/ req' = [req EXCEPT ![u] = [req[u] EXCEPT !.at = "write"]]
    BY <1>4 DEF UpdateCheck, At, Finish, Continue
  <2>2. QED
    BY <2>1, IdleHasNoOperation
<1>5. CASE ToggleFind(u)
  <2>1. req[u].op = "toggleSchedule" /\ "op" \in DOMAIN req[u]
        /\ \/ req' = [req EXCEPT ![u] = Idle]
           \/ \E f : req' = [req EXCEPT ![u] = [req[u] EXCEPT !.at = "save", !.flag = f]]
    BY <1>5 DEF ToggleFind, At, Finish, Continue
  <2>2. QED
    BY <2>1, IdleHasNoOperation
<1>6. CASE DeleteCount(u)
  <2>1. req[u].op = "deleteSchedule" /\ "op" \in DOMAIN req[u]
        /\ \/ req' = [req EXCEPT ![u] = Idle]
           \/ req' = [req EXCEPT ![u] = [req[u] EXCEPT !.at = "delete"]]
    BY <1>6 DEF DeleteCount, At, Finish, Continue
  <2>2. QED
    BY <2>1, IdleHasNoOperation
<1>7. CASE ScheduleInsert(u) \/ UpdateWrite(u) \/ ToggleSave(u) \/ DeleteWrite(u)
  BY <1>7, IdleHasNoOperation
     DEF ScheduleInsert, UpdateWrite, ToggleSave, DeleteWrite, Finish, Continue
<1>8. QED
  BY <1>1, <1>2, <1>3, <1>4, <1>5, <1>6, <1>7 DEF ScheduleStep

(* A schedule's route is that of its creation: no later write changes it. *)
LEMMA RouteWritten ==
  ASSUME CatalogInv, NEW t \in Requests, ScheduleStep(t), NEW s \in Schedules
  PROVE  \/ /\ named'[s] = named[s]
            /\ Exists(s)' => /\ Exists(s) /\ schedule'[s].from = schedule[s].from
                             /\ schedule'[s].to = schedule[s].to
         \/ /\ Creating(req[t]) /\ named'[s] = req[t].cities
            /\ schedule'[s].from = req[t].from /\ schedule'[s].to = req[t].to
<1>1. /\ schedule \in [Schedules -> Schedule \cup {None}] /\ named \in [Schedules -> SUBSET Cities]
      /\ None \notin Schedule
  BY CatalogAssumptions DEF CatalogInv, ScheduleInv, ScheduleTypeOK
<1>2. CASE ScheduleInsert(t)
  BY <1>1, <1>2 DEF ScheduleInsert, At, Creating, Exists
<1>3. CASE UpdateWrite(t)
  BY <1>1, <1>3 DEF UpdateWrite, Exists, Schedule
<1>4. CASE ToggleSave(t)
  BY <1>1, <1>4 DEF ToggleSave, Exists, Schedule
<1>5. CASE DeleteWrite(t)
  BY <1>1, <1>5 DEF DeleteWrite, Exists
<1>6. CASE UNCHANGED scheduleVars
  BY <1>6 DEF scheduleVars, Exists
<1>7. QED
  BY <1>2, <1>3, <1>4, <1>5, <1>6 DEF ScheduleStep

(* Whoever else takes a step, neither creations nor schedules change. *)
LEMMA RoutesLeftAside ==
  ASSUME CatalogInv, [CatalogNext]_serviceVars, ~ \E t \in Requests : ScheduleStep(t)
  PROVE  /\ UNCHANGED <<schedule, named>>
         /\ \A t \in Requests : Creating(req'[t]) => req'[t] = req[t]
<1> USE DEF CatalogInv, Creating
<1>1. ASSUME NEW t \in Requests, CityStep(t), UNCHANGED catalogVars
      PROVE  /\ UNCHANGED <<schedule, named>>
             /\ \A u \in Requests : Creating(req'[u]) => req'[u] = req[u]
  BY <1>1, CityStepOf DEF StepOf, CityOperations, catalogVars, scheduleVars
<1>2. ASSUME NEW t \in Requests, BookStep(t), UNCHANGED <<cityVars, scheduleVars>>
      PROVE  /\ UNCHANGED <<schedule, named>>
             /\ \A u \in Requests : Creating(req'[u]) => req'[u] = req[u]
  BY <1>2, BookMoves DEF Moves, scheduleVars
<1>3. ASSUME NEW t \in Requests, Fail(t), UNCHANGED <<cityVars, catalogVars>>
      PROVE  /\ UNCHANGED <<schedule, named>>
             /\ \A u \in Requests : Creating(req'[u]) => req'[u] = req[u]
  BY <1>3, FinishMoves, IdleHasNoOperation DEF Fail, Moves, catalogVars, scheduleVars
<1>4. CASE UNCHANGED <<handlers, scheduleVars>>
  BY <1>4 DEF handlers, scheduleVars
<1>5. QED
  BY <1>1, <1>2, <1>3, <1>4 DEF CatalogNext, Settle, serviceVars, catalogVars

LEMMA RouteInvStep ==
  ASSUME CatalogInv, RouteInv, [CatalogNext]_serviceVars, CodesKept
  PROVE  RouteInv'
<1>1. Stored \subseteq Stored'
  BY StoredKept
<1>2. CASE ~ \E t \in Requests : ScheduleStep(t)
  BY <1>1, <1>2, RoutesLeftAside DEF RouteInv, RouteCitiesStand, CodesKept, Creating, Exists
<1>3. ASSUME NEW t \in Requests, ScheduleStep(t) PROVE RouteInv'
  <2>1. \A u \in Requests \ {t} : req'[u] = req[u]
    BY <1>3, ScheduleReadsOne, ScheduleWritesOne
       DEF Moves, CatalogInv, ScheduleStep, ScheduleReads, ScheduleWrites
  <2>2. ASSUME NEW u \in Requests, Creating(req'[u])
        PROVE  /\ req'[u].cities \subseteq Stored'
               /\ \A c \in req'[u].cities : code'[c] \in {req'[u].from, req'[u].to}
    <3>1. CASE u # t
      BY <1>1, <2>1, <2>2, <3>1 DEF RouteInv, CodesKept
    <3>2. CASE u = t
      BY <1>1, <1>3, <2>2, <3>2, CreationKeepsRoute DEF RouteInv, CodesKept
    <3>3. QED
      BY <3>1, <3>2
  <2>3. ASSUME NEW s \in Schedules
        PROVE  /\ named'[s] \subseteq Stored'
               /\ Exists(s)' => \A c \in named'[s] : code'[c] \in {schedule'[s].from, schedule'[s].to}
    <3>1. CASE /\ named'[s] = named[s]
               /\ Exists(s)' => /\ Exists(s) /\ schedule'[s].from = schedule[s].from
                                /\ schedule'[s].to = schedule[s].to
      BY <1>1, <3>1 DEF RouteInv, RouteCitiesStand, CodesKept
    <3>2. CASE /\ Creating(req[t]) /\ named'[s] = req[t].cities
               /\ schedule'[s].from = req[t].from /\ schedule'[s].to = req[t].to
      BY <1>1, <3>2 DEF RouteInv, CodesKept
    <3>3. QED
      BY <1>3, <3>1, <3>2, RouteWritten
  <2>4. QED
    BY <2>2, <2>3 DEF RouteInv, RouteCitiesStand, Creating
<1>4. QED
  BY <1>2, <1>3

(* "the code is immutable" (city.controller.ts:35), were it so, would be enough:
   whatever else is created, edited, toggled or deleted, and however the handlers
   overlap, a schedule's codes name its cities for as long as no city's code is
   changed.  RouteCitiesStand fails because updateCity changes it. *)
THEOREM ImmutableCodesSuffice == CatalogSpec /\ [][CodesKept]_serviceVars => []RouteCitiesStand
<1>1. HandlersInit /\ CityInit /\ ScheduleInit /\ BookingInit => RouteInv
  BY IdleHasNoOperation
     DEF HandlersInit, ScheduleInit, RouteInv, RouteCitiesStand, Creating, Exists
<1>2. CatalogInv /\ RouteInv /\ [CatalogNext]_serviceVars /\ [CodesKept]_serviceVars => RouteInv'
  <2>1. ASSUME UNCHANGED serviceVars, CatalogInv PROVE CodesKept
    BY <2>1 DEF serviceVars, cityVars, CodesKept
  <2>2. QED
    BY <2>1, RouteInvStep
<1>3. RouteInv => RouteCitiesStand
  BY DEF RouteInv
<1>4. QED
  BY <1>1, <1>2, <1>3, CatalogInvariant, PTL DEF CatalogSpec
=============================================================================
