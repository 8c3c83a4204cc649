--------------------------- MODULE AdminAccounts ---------------------------
(***************************************************************************)
(* AdminService behind JwtAdminGuard and SuperAdminGuard: the bootstrap of *)
(* the first super admin, the creation of further admins, and their being  *)
(* enabled and disabled.  Every limit is checked by a count and written    *)
(* some awaits (and a bcrypt hash) later, outside any transaction, so a    *)
(* request t is interleaved with the others at every await.  A record is   *)
(* never deleted, and its role never changes.                              *)
(***************************************************************************)
EXTENDS Process, Naturals, FiniteSets

CONSTANTS
    Admins,         \* records that may come to exist, one per email
    MaxSuperAdmins  \* MAX_SUPER_ADMINS

ASSUME AdminAssumptions ==
    /\ IsFiniteSet(Admins) /\ IsFiniteSet(Requests)
    /\ MaxSuperAdmins \in Nat \ {0}
    /\ None \notin Admins

VARIABLES
    role, isActive, createdBy,      \* the admins collection
    pc, actor, target, wanted,      \* requests in flight
    crossed                         \* history, not code: see Cross

records == <<role, isActive, createdBy>>
adminVars == <<records, pc, actor, target, wanted, crossed>>

-----------------------------------------------------------------------------
AdminRole == {"super_admin", "admin"}

(* What a request waits for: the bootstrap's insertion; findOne, the count and
   the insertion of createAdmin; findById, the count and the save of
   setAdminStatus. *)
Steps == {"idle", "seed", "lookup", "count", "create", "find", "last", "save"}

(* What a request was asked for: a role to create, or a status to set. *)
Wanted == AdminRole \cup {"enabled", "disabled", "nothing"}

AdminTypeOK ==
    /\ role \in [Admins -> AdminRole \cup {"absent"}]
    /\ isActive \in [Admins -> BOOLEAN]
    /\ createdBy \in [Admins -> Admins \cup {None}]
    /\ pc \in [Requests -> Steps]
    /\ actor \in [Requests -> Admins \cup {None}]
    /\ target \in [Requests -> Admins \cup {None}]
    /\ wanted \in [Requests -> Wanted]
    /\ crossed \subseteq {"create", "disable"}

AdminInit ==
    /\ role = [a \in Admins |-> "absent"]
    /\ isActive = [a \in Admins |-> FALSE]
    /\ createdBy = [a \in Admins |-> None]
    /\ pc = [t \in Requests |-> "idle"]
    /\ actor = [t \in Requests |-> None]
    /\ target = [t \in Requests |-> None]
    /\ wanted = [t \in Requests |-> "nothing"]
    /\ crossed = {}

Registered == {a \in Admins : role[a] # "absent"}
SuperAdmins == {a \in Admins : role[a] = "super_admin"}
ActiveSuperAdmins == {a \in SuperAdmins : isActive[a]}

-----------------------------------------------------------------------------
Admit(t, step, by, a, w) ==
    /\ pc[t] = "idle"
    /\ pc' = [pc EXCEPT ![t] = step]
    /\ actor' = [actor EXCEPT ![t] = by]
    /\ target' = [target EXCEPT ![t] = a]
    /\ wanted' = [wanted EXCEPT ![t] = w]

Advance(t, from, to) ==
    /\ pc[t] = from
    /\ pc' = [pc EXCEPT ![t] = to]
    /\ UNCHANGED <<actor, target, wanted>>

Answer(t, from) ==
    /\ pc[t] = from
    /\ pc' = [pc EXCEPT ![t] = "idle"]
    /\ actor' = [actor EXCEPT ![t] = None]
    /\ target' = [target EXCEPT ![t] = None]
    /\ wanted' = [wanted EXCEPT ![t] = "nothing"]

(* Past the check, before the write, of a new super admin or of a disabling. *)
Creating(t) == pc[t] \in {"seed", "create"} /\ wanted[t] = "super_admin"
Disabling(t) == pc[t] = "save" /\ wanted[t] = "disabled" /\ target[t] \in SuperAdmins

InCreation == {t \in Requests : Creating(t)}

(* t passes the check of a kind of write while another request has passed it
   and not written yet. *)
Cross(t, kind, Between(_)) ==
    crossed' = IF \E u \in Requests \ {t} : Between(u)
               THEN crossed \cup {kind} ELSE crossed

-----------------------------------------------------------------------------
(* bootstrap *)

\* Mutant of SeedCheck: only the active super admins are counted.
SeedCheckActive(t, a) ==
    /\ ActiveSuperAdmins = {}
    /\ Admit(t, "seed", None, a, "super_admin")
    /\ Cross(t, "create", Creating)
    /\ UNCHANGED records

(* The setup key is right and there is no admin yet. *)
SeedCheck(t, a) ==
    /\ Registered = {}
    /\ Admit(t, "seed", None, a, "super_admin")
    /\ Cross(t, "create", Creating)
    /\ UNCHANGED records

(* adminModel.create, which throws if the email was registered meanwhile. *)
Insert(t, step) ==
    LET a == target[t] IN
    /\ Answer(t, step)
    /\ \/ /\ a \in Registered
          /\ UNCHANGED records
       \/ /\ a \notin Registered
          /\ role' = [role EXCEPT ![a] = wanted[t]]
          /\ isActive' = [isActive EXCEPT ![a] = TRUE]
          /\ createdBy' = [createdBy EXCEPT ![a] = actor[t]]
    /\ UNCHANGED crossed

Seed(t) == Insert(t, "seed")

-----------------------------------------------------------------------------
(* createAdmin *)

(* SuperAdminGuard: the caller's record, read anew for every request. *)
Authorized(by) == role[by] = "super_admin" /\ isActive[by]

CreateGuard(t, by, a, w) ==
    /\ w \in AdminRole
    /\ Authorized(by)
    /\ Admit(t, "lookup", by, a, w)
    /\ UNCHANGED <<records, crossed>>

(* findOne({ email }); the cap concerns super admins only. *)
CreateLookup(t) ==
    /\ \/ Answer(t, "lookup") /\ target[t] \in Registered
       \/ /\ target[t] \notin Registered
          /\ Advance(t, "lookup", IF wanted[t] = "super_admin" THEN "count" ELSE "create")
    /\ UNCHANGED <<records, crossed>>

\* Mutant of BelowCap: one too many.
BelowCapOrEqual == Cardinality(SuperAdmins) <= MaxSuperAdmins

BelowCap == Cardinality(SuperAdmins) < MaxSuperAdmins

CreateCount(t) ==
    /\ \/ Answer(t, "count") /\ ~BelowCap /\ UNCHANGED crossed
       \/ /\ BelowCap
          /\ Advance(t, "count", "create")
          /\ Cross(t, "create", Creating)
    /\ UNCHANGED records

\* Mutant of Create: the role of the DTO is spelt as a class name.
CreateMisspelt(t) ==
    /\ Answer(t, "create")
    /\ target[t] \notin Registered
    /\ role' = [role EXCEPT ![target[t]] = "SuperAdmin"]
    /\ isActive' = [isActive EXCEPT ![target[t]] = TRUE]
    /\ createdBy' = [createdBy EXCEPT ![target[t]] = actor[t]]
    /\ UNCHANGED crossed

(* The password was hashed. *)
Create(t) == Insert(t, "create")

-----------------------------------------------------------------------------
(* setAdminStatus *)

SetStatusGuard(t, by, a, w) ==
    /\ w \in {"enabled", "disabled"}
    /\ by # a
    /\ Authorized(by)
    /\ Admit(t, "find", by, a, w)
    /\ UNCHANGED <<records, crossed>>

Asked(t) == wanted[t] = "enabled"

(* findById.  A record found as it is wanted ends the request: admin.save()
   writes nothing that is not modified. *)
SetStatusFind(t) ==
    LET a == target[t] IN
    /\ \/ Answer(t, "find") /\ (a \notin Registered \/ isActive[a] = Asked(t))
       \/ /\ a \in Registered /\ isActive[a] # Asked(t)
          /\ Advance(t, "find", IF a \in SuperAdmins /\ ~Asked(t) THEN "last" ELSE "save")
    /\ UNCHANGED <<records, crossed>>

\* Mutant of Dispensable: disabled super admins are counted too.
DispensableAnyStatus == Cardinality(SuperAdmins) > 1

Dispensable == Cardinality(ActiveSuperAdmins) > 1

SetStatusCount(t) ==
    /\ \/ Answer(t, "last") /\ ~Dispensable /\ UNCHANGED crossed
       \/ /\ Dispensable
          /\ Advance(t, "last", "save")
          /\ Cross(t, "disable", Disabling)
    /\ UNCHANGED records

SetStatusSave(t) ==
    /\ Answer(t, "save")
    /\ isActive' = [isActive EXCEPT ![target[t]] = Asked(t)]
    /\ UNCHANGED <<role, createdBy, crossed>>

-----------------------------------------------------------------------------
(* The call a request waits for throws, or the process dies. *)
AdminFail(t) ==
    /\ pc[t] # "idle"
    /\ Answer(t, pc[t])
    /\ UNCHANGED <<records, crossed>>

Handle(t) ==
    \/ Seed(t)
    \/ CreateLookup(t) \/ CreateCount(t) \/ Create(t)
    \/ SetStatusFind(t) \/ SetStatusCount(t) \/ SetStatusSave(t)

AdminNext == \E t \in Requests :
    \/ Handle(t) \/ AdminFail(t)
    \/ \E a \in Admins : SeedCheck(t, a)
    \/ \E by, a \in Admins, w \in Wanted :
          CreateGuard(t, by, a, w) \/ SetStatusGuard(t, by, a, w)

AdminSpec == AdminInit /\ [][AdminNext]_adminVars

-----------------------------------------------------------------------------
(* Properties *)

(* The cap on super admins (admin.service.ts:23) holds as long as no two of them
   were created between the check and the insertion of each other. *)
CapHolds ==
    "create" \notin crossed => Cardinality(SuperAdmins) <= MaxSuperAdmins

(* However many requests overlap, the cap is exceeded by fewer super admins than
   there are requests: one that finds the cap exhausted creates none. *)
CapExceededByRequests ==
    Cardinality(SuperAdmins) + Cardinality(InCreation) < MaxSuperAdmins + Cardinality(Requests)

(* Some super admin can still act, unless two disablings overlapped: nobody
   disables themself, and the last active one is not disabled. *)
SomeoneCanAct ==
    "disable" \notin crossed /\ Registered # {} => ActiveSuperAdmins # {}

(* The bootstrap works once: a single record has no creator, and all the others
   were created by a super admin, unless two bootstraps overlapped. *)
SeededOnce ==
    /\ "create" \notin crossed =>
        Cardinality({a \in Registered : createdBy[a] = None}) <= 1
    /\ \A a \in Registered : createdBy[a] # None => createdBy[a] \in SuperAdmins

(* "Guard: never disable the last active super admin." (admin.service.ts:175) *)
LastSuperAdminStays == Registered # {} => ActiveSuperAdmins # {}
============================================================================
