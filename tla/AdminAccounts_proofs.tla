------------------------ MODULE AdminAccounts_proofs -----------------------
(***************************************************************************)
(* Proofs about AdminAccounts, for any records, requests and cap: what the *)
(* checks of AdminService guarantee while no two writes of a kind overlap. *)
(***************************************************************************)
EXTENDS AdminAccounts, FiniteSetTheorems, TLAPS

(* What a request in flight has checked, and nobody takes back. *)
RequestInv ==
    \A t \in Requests :
        /\ pc[t] # "idle" => target[t] \in Admins
        /\ pc[t] = "seed" => wanted[t] = "super_admin" /\ actor[t] = None
        /\ pc[t] \in {"lookup", "count", "create"} =>
            wanted[t] \in AdminRole /\ actor[t] \in SuperAdmins
        /\ pc[t] = "count" => wanted[t] = "super_admin"
        /\ pc[t] \in {"find", "last", "save"} => wanted[t] \in {"enabled", "disabled"}
        /\ pc[t] \notin {"idle", "seed"} => Registered # {}
        /\ pc[t] \in {"last", "save"} => target[t] \in Registered

(* Every record but a bootstrapped one has a super admin for its creator. *)
CreatorInv == \A a \in Registered : createdBy[a] # None => createdBy[a] \in SuperAdmins

(* While no two creations of super admins overlapped, the one in flight still
   finds what its check found. *)
CreateInv ==
    "create" \notin crossed =>
        /\ \A t, u \in Requests : Creating(t) /\ Creating(u) => t = u
        /\ \A t \in Requests : Creating(t) => BelowCap
        /\ \A t \in Requests : pc[t] = "seed" => Registered = {}
        /\ Cardinality(SuperAdmins) <= MaxSuperAdmins
        /\ \A a, b \in Registered : createdBy[a] = None /\ createdBy[b] = None => a = b

(* While no two disablings of super admins overlapped, the one in flight leaves
   another active super admin. *)
DisableInv ==
    "disable" \notin crossed =>
        /\ \A t, u \in Requests : Disabling(t) /\ Disabling(u) => t = u
        /\ \A t \in Requests : Disabling(t) => ActiveSuperAdmins \ {target[t]} # {}
        /\ Registered # {} => ActiveSuperAdmins # {}

IInv == AdminTypeOK /\ RequestInv /\ CreatorInv /\ CreateInv /\ DisableInv

-----------------------------------------------------------------------------
LEMMA SuperAdminsFinite == IsFiniteSet(SuperAdmins) /\ IsFiniteSet(ActiveSuperAdmins)
BY AdminAssumptions, FS_Subset DEF SuperAdmins, ActiveSuperAdmins

LEMMA InvInit == AdminInit => IInv
<1> SUFFICES ASSUME AdminInit PROVE IInv
  OBVIOUS
<1>1. SuperAdmins = {} /\ Registered = {}
  BY DEF AdminInit, SuperAdmins, Registered
<1>2. Cardinality(SuperAdmins) <= MaxSuperAdmins
  BY <1>1, FS_EmptySet, AdminAssumptions
<1>3. QED
  BY <1>1, <1>2 DEF AdminInit, IInv, AdminTypeOK, RequestInv, CreatorInv, CreateInv, DisableInv,
       Creating, Disabling, AdminRole, Steps, Wanted

(* A step that writes no record. *)
Reads(t) ==
    \/ \E a \in Admins : SeedCheck(t, a)
    \/ \E by, a \in Admins, w \in Wanted : CreateGuard(t, by, a, w) \/ SetStatusGuard(t, by, a, w)
    \/ CreateLookup(t) \/ CreateCount(t) \/ SetStatusFind(t) \/ SetStatusCount(t) \/ AdminFail(t)

(* Such a step moves its own request alone. *)
LEMMA ReadsMoveOne ==
  ASSUME AdminTypeOK, NEW t \in Requests, Reads(t)
  PROVE  /\ UNCHANGED records
         /\ UNCHANGED <<Registered, SuperAdmins, ActiveSuperAdmins, BelowCap>>
         /\ crossed \subseteq crossed'
         /\ \A u \in Requests \ {t} :
             /\ UNCHANGED <<pc[u], actor[u], target[u], wanted[u]>>
             /\ Creating(u)' = Creating(u)
             /\ Disabling(u)' = Disabling(u)
<1> USE DEF AdminTypeOK, Admit, Advance, Answer
<1>1. UNCHANGED records
  BY DEF Reads, SeedCheck, CreateGuard, SetStatusGuard, CreateLookup, CreateCount,
         SetStatusFind, SetStatusCount, AdminFail
<1>2. UNCHANGED <<Registered, SuperAdmins, ActiveSuperAdmins, BelowCap>>
  BY <1>1 DEF records, Registered, SuperAdmins, ActiveSuperAdmins, BelowCap
<1>3. crossed \subseteq crossed'
  BY DEF Reads, SeedCheck, CreateGuard, SetStatusGuard, CreateLookup, CreateCount,
         SetStatusFind, SetStatusCount, AdminFail, Cross
<1>4. \A u \in Requests \ {t} : UNCHANGED <<pc[u], actor[u], target[u], wanted[u]>>
  BY DEF Reads, SeedCheck, CreateGuard, SetStatusGuard, CreateLookup, CreateCount,
         SetStatusFind, SetStatusCount, AdminFail
<1>5. \A u \in Requests \ {t} : Creating(u)' = Creating(u) /\ Disabling(u)' = Disabling(u)
  BY <1>2, <1>4 DEF Creating, Disabling
<1>6. QED
  BY <1>1, <1>2, <1>3, <1>4, <1>5

LEMMA ReadsTyping ==
  ASSUME AdminTypeOK, RequestInv, NEW t \in Requests, Reads(t)
  PROVE  AdminTypeOK' /\ RequestInv'
<1> USE DEF AdminTypeOK, Admit, Advance, Answer, Steps, Wanted, AdminRole
<1>1. UNCHANGED <<records, Registered, SuperAdmins>>
  BY ReadsMoveOne
<1>2. ASSUME NEW a \in Admins, SeedCheck(t, a) PROVE AdminTypeOK' /\ RequestInv'
  BY <1>1, <1>2 DEF SeedCheck, Cross, records, RequestInv
<1>3. ASSUME NEW by \in Admins, NEW a \in Admins, NEW w \in Wanted, CreateGuard(t, by, a, w)
      PROVE  AdminTypeOK' /\ RequestInv'
  <2>1. by \in SuperAdmins /\ Registered # {}
    BY <1>3 DEF CreateGuard, Authorized, SuperAdmins, Registered
  <2>2. QED
    BY <1>1, <1>3, <2>1 DEF CreateGuard, records, RequestInv
<1>4. ASSUME NEW by \in Admins, NEW a \in Admins, NEW w \in Wanted, SetStatusGuard(t, by, a, w)
      PROVE  AdminTypeOK' /\ RequestInv'
  <2>1. Registered # {}
    BY <1>4 DEF SetStatusGuard, Authorized, Registered
  <2>2. QED
    BY <1>1, <1>4, <2>1 DEF SetStatusGuard, records, RequestInv
<1>5. CASE CreateLookup(t)
  BY <1>1, <1>5 DEF CreateLookup, records, RequestInv
<1>6. CASE CreateCount(t)
  <2>1. CASE Answer(t, "count") /\ UNCHANGED crossed
    BY <1>1, <2>1 DEF records, RequestInv
  <2>2. CASE Advance(t, "count", "create") /\ crossed' \subseteq crossed \cup {"create"}
    BY <1>1, <2>2 DEF records, RequestInv
  <2>3. QED
    BY <1>6, <2>1, <2>2 DEF CreateCount, Cross
<1>7. CASE SetStatusFind(t)
  BY <1>1, <1>7 DEF SetStatusFind, records, RequestInv
<1>8. CASE SetStatusCount(t)
  <2>1. CASE Answer(t, "last") /\ UNCHANGED crossed
    BY <1>1, <2>1 DEF records, RequestInv
  <2>2. CASE Advance(t, "last", "save") /\ crossed' \subseteq crossed \cup {"disable"}
    BY <1>1, <2>2 DEF records, RequestInv
  <2>3. QED
    BY <1>8, <2>1, <2>2 DEF SetStatusCount, Cross
<1>9. CASE AdminFail(t)
  BY <1>1, <1>9 DEF AdminFail, records, RequestInv
<1>10. QED
  BY <1>2, <1>3, <1>4, <1>5, <1>6, <1>7, <1>8, <1>9 DEF Reads

(* Whoever gets past the check of a creation finds the cap not reached, and is
   recorded unless alone. *)
LEMMA CheckedCap ==
  ASSUME IInv, NEW t \in Requests, Reads(t), Creating(t)'
  PROVE  /\ BelowCap
         /\ "create" \notin crossed' => \A u \in Requests \ {t} : ~Creating(u)
<1> USE DEF IInv, AdminTypeOK, Admit, Advance, Answer, Creating
<1>1. ASSUME NEW a \in Admins, SeedCheck(t, a)
      PROVE  BelowCap /\ ("create" \notin crossed' => \A u \in Requests \ {t} : ~Creating(u))
  <2>1. SuperAdmins = {}
    BY <1>1 DEF SeedCheck, SuperAdmins, Registered
  <2>2. BelowCap
    BY <2>1, FS_EmptySet, AdminAssumptions DEF BelowCap
  <2>3. QED
    BY <1>1, <2>2 DEF SeedCheck, Cross
<1>2. CASE CreateCount(t)
  BY <1>2 DEF CreateCount, Cross
<1>3. CASE CreateLookup(t)
  BY <1>3 DEF CreateLookup
<1>4. CASE SetStatusFind(t) \/ SetStatusCount(t) \/ AdminFail(t)
  BY <1>4 DEF SetStatusFind, SetStatusCount, AdminFail
<1>5. ASSUME NEW by \in Admins, NEW a \in Admins, NEW w \in Wanted,
             CreateGuard(t, by, a, w) \/ SetStatusGuard(t, by, a, w)
      PROVE  FALSE
  BY <1>5 DEF CreateGuard, SetStatusGuard
<1>6. QED
  BY <1>1, <1>2, <1>3, <1>4, <1>5 DEF Reads

(* A request gets past the check of a creation only alone, or is recorded. *)
LEMMA ReadsCreate ==
  ASSUME IInv, NEW t \in Requests, Reads(t)
  PROVE  CreateInv'
<1> USE DEF IInv
<1> SUFFICES ASSUME "create" \notin crossed' PROVE CreateInv'
  BY DEF CreateInv
<1>1. /\ "create" \notin crossed
      /\ UNCHANGED <<createdBy, Registered, SuperAdmins, BelowCap>>
      /\ \A u \in Requests \ {t} : UNCHANGED pc[u] /\ Creating(u)' = Creating(u)
  BY ReadsMoveOne DEF records
<1>2. Creating(t)' => BelowCap /\ \A u \in Requests \ {t} : ~Creating(u)
  BY CheckedCap
<1>3. pc'[t] = "seed" => Registered = {}
  BY DEF Reads, SeedCheck, CreateGuard, SetStatusGuard, CreateLookup, CreateCount,
         SetStatusFind, SetStatusCount, AdminFail, Admit, Advance, Answer, AdminTypeOK
<1>4. QED
  BY <1>1, <1>2, <1>3 DEF CreateInv

LEMMA ReadsDisable ==
  ASSUME IInv, NEW t \in Requests, Reads(t)
  PROVE  DisableInv'
<1> USE DEF IInv
<1> SUFFICES ASSUME "disable" \notin crossed' PROVE DisableInv'
  BY DEF DisableInv
<1>1. /\ "disable" \notin crossed
      /\ UNCHANGED <<Registered, SuperAdmins, ActiveSuperAdmins>>
      /\ \A u \in Requests \ {t} : UNCHANGED target[u] /\ Disabling(u)' = Disabling(u)
  BY ReadsMoveOne
<1>2. ASSUME Disabling(t)'
      PROVE  /\ ActiveSuperAdmins \ {target'[t]} # {}
             /\ \A u \in Requests \ {t} : ~Disabling(u)
  <2> USE DEF AdminTypeOK, Admit, Advance, Answer, Disabling
  <2>1. CASE SetStatusCount(t)
    <3>1. Dispensable /\ \A u \in Requests \ {t} : ~Disabling(u)
      BY <1>2, <2>1 DEF SetStatusCount, Cross
    <3>2. ActiveSuperAdmins \ {target'[t]} # {}
      <4>1. Cardinality(ActiveSuperAdmins \ {target'[t]})
              = IF target'[t] \in ActiveSuperAdmins
                THEN Cardinality(ActiveSuperAdmins) - 1 ELSE Cardinality(ActiveSuperAdmins)
        BY SuperAdminsFinite, FS_RemoveElement
      <4>2. Cardinality(ActiveSuperAdmins) \in Nat /\ Cardinality(ActiveSuperAdmins) > 1
        BY <3>1, SuperAdminsFinite, FS_CardinalityType DEF Dispensable
      <4>3. Cardinality(ActiveSuperAdmins \ {target'[t]}) # 0
        BY <4>1, <4>2
      <4>4. QED
        BY <4>3, FS_EmptySet
    <3>3. QED
      BY <3>1, <3>2
  <2>2. CASE SetStatusFind(t)
    BY <1>1, <1>2, <2>2 DEF SetStatusFind, Asked, RequestInv
  <2>3. CASE CreateLookup(t) \/ CreateCount(t) \/ AdminFail(t)
    BY <1>2, <2>3 DEF CreateLookup, CreateCount, AdminFail
  <2>4. CASE \/ \E a \in Admins : SeedCheck(t, a)
             \/ \E by, a \in Admins, w \in Wanted :
                    CreateGuard(t, by, a, w) \/ SetStatusGuard(t, by, a, w)
    BY <1>2, <2>4 DEF SeedCheck, CreateGuard, SetStatusGuard
  <2>5. QED
    BY <2>1, <2>2, <2>3, <2>4 DEF Reads
<1>3. QED
  BY <1>1, <1>2 DEF DisableInv

-----------------------------------------------------------------------------
(* An insertion: the record is new, or nothing but the request changes. *)
LEMMA InsertStep ==
  ASSUME IInv, NEW t \in Requests, Seed(t) \/ Create(t)
  PROVE  IInv'
<1> DEFINE a == target[t]
<1> USE DEF IInv, AdminTypeOK, Steps, Wanted, AdminRole
<1>1. /\ pc[t] \in {"seed", "create"} /\ a \in Admins /\ wanted[t] \in AdminRole
      /\ pc' = [pc EXCEPT ![t] = "idle"]
      /\ actor' = [actor EXCEPT ![t] = None]
      /\ target' = [target EXCEPT ![t] = None]
      /\ wanted' = [wanted EXCEPT ![t] = "nothing"]
      /\ UNCHANGED crossed
  BY DEF Seed, Create, Insert, Answer, RequestInv
<1>2. CASE a \in Registered
  <2>1. UNCHANGED records
    BY <1>2 DEF Seed, Create, Insert
  <2>2. UNCHANGED <<Registered, SuperAdmins, ActiveSuperAdmins, BelowCap>>
    BY <2>1 DEF records, Registered, SuperAdmins, ActiveSuperAdmins, BelowCap
  <2>3. AdminTypeOK' /\ RequestInv' /\ CreatorInv'
    BY <1>1, <2>1, <2>2 DEF records, RequestInv, CreatorInv
  <2>4. CreateInv' /\ DisableInv'
    BY <1>1, <2>1, <2>2 DEF records, CreateInv, DisableInv, Creating, Disabling
  <2>5. QED
    BY <2>3, <2>4
<1>3. CASE a \notin Registered
  <2>1. /\ role' = [role EXCEPT ![a] = wanted[t]]
        /\ isActive' = [isActive EXCEPT ![a] = TRUE]
        /\ createdBy' = [createdBy EXCEPT ![a] = actor[t]]
    BY <1>3 DEF Seed, Create, Insert
  <2>2. Registered' = Registered \cup {a}
    BY <1>1, <2>1 DEF Registered
  <2>3. /\ SuperAdmins' = IF wanted[t] = "super_admin" THEN SuperAdmins \cup {a} ELSE SuperAdmins
        /\ a \notin SuperAdmins
    BY <1>1, <1>3, <2>1 DEF SuperAdmins, Registered
  <2>4. /\ ActiveSuperAdmins \subseteq ActiveSuperAdmins'
        /\ wanted[t] = "super_admin" => a \in ActiveSuperAdmins'
    BY <1>1, <2>1, <2>3 DEF SuperAdmins, ActiveSuperAdmins
  <2>5. AdminTypeOK'
    BY <1>1, <2>1
  <2>6. RequestInv'
    BY <1>1, <2>2, <2>3 DEF RequestInv
  <2>7. CreatorInv'
    <3>1. actor[t] = None \/ actor[t] \in SuperAdmins
      BY <1>1 DEF RequestInv
    <3>2. \A b \in Registered : createdBy'[b] = createdBy[b]
      BY <1>3, <2>1 DEF Registered
    <3>3. createdBy'[a] = actor[t]
      BY <1>1, <2>1
    <3>4. QED
      BY <2>2, <2>3, <3>1, <3>2, <3>3 DEF CreatorInv
  <2>8. CreateInv'
    <3> SUFFICES ASSUME "create" \notin crossed PROVE CreateInv'
      BY <1>1 DEF CreateInv
    <3>1. \A u \in Requests : Creating(u)' => u # t /\ Creating(u)
      BY <1>1 DEF Creating
    <3>2. wanted[t] = "super_admin" => Creating(t) /\ BelowCap /\ \A u \in Requests : ~Creating(u)'
      BY <1>1, <3>1 DEF Creating, CreateInv
    <3>3. /\ Cardinality(SuperAdmins') <= MaxSuperAdmins
          /\ \A u \in Requests : Creating(u)' => BelowCap'
      <4>1. CASE wanted[t] = "super_admin"
        <5>1. SuperAdmins' = SuperAdmins \cup {a} /\ a \notin SuperAdmins
          BY <2>3, <4>1
        <5>2. Cardinality(SuperAdmins') = Cardinality(SuperAdmins) + 1
          BY <5>1, SuperAdminsFinite, FS_AddElement
        <5>3. Cardinality(SuperAdmins) \in Nat /\ Cardinality(SuperAdmins) < MaxSuperAdmins
          BY <3>2, <4>1, SuperAdminsFinite, FS_CardinalityType DEF BelowCap
        <5>4. QED
          BY <3>2, <4>1, <5>2, <5>3, AdminAssumptions
      <4>2. CASE wanted[t] # "super_admin"
        BY <2>3, <3>1, <4>2 DEF CreateInv, BelowCap
      <4>3. QED
        BY <4>1, <4>2
    <3>4. \A u \in Requests : pc'[u] # "seed"
      <4>1. CASE pc[t] = "seed"
        BY <1>1, <3>2, <4>1 DEF RequestInv, CreateInv, Creating
      <4>2. CASE pc[t] = "create"
        BY <1>1, <4>2 DEF RequestInv, CreateInv
      <4>3. QED
        BY <1>1, <4>1, <4>2
    <3>5. \A b, c \in Registered' : createdBy'[b] = None /\ createdBy'[c] = None => b = c
      <4>1. CASE pc[t] = "seed"
        BY <2>2, <4>1 DEF CreateInv
      <4>2. CASE pc[t] = "create"
        <5>1. actor[t] # None
          BY <4>2, AdminAssumptions DEF RequestInv, SuperAdmins
        <5>2. QED
          BY <2>1, <2>2, <5>1 DEF CreateInv, Registered
      <4>3. QED
        BY <1>1, <4>1, <4>2
    <3>6. \A u, v \in Requests : Creating(u)' /\ Creating(v)' => u = v
      BY <3>1 DEF CreateInv
    <3>7. QED
      BY <1>1, <3>3, <3>4, <3>5, <3>6 DEF CreateInv
  <2>9. DisableInv'
    <3> SUFFICES ASSUME "disable" \notin crossed PROVE DisableInv'
      BY <1>1 DEF DisableInv
    <3>1. \A u \in Requests : Disabling(u)' => Disabling(u) /\ target'[u] = target[u]
      BY <1>1, <1>3, <2>3 DEF Disabling, RequestInv
    <3>2. ActiveSuperAdmins' # {}
      <4>1. CASE pc[t] = "seed"
        BY <2>4, <4>1 DEF RequestInv
      <4>2. CASE pc[t] = "create"
        BY <2>4, <4>2 DEF RequestInv, DisableInv
      <4>3. QED
        BY <1>1, <4>1, <4>2
    <3>3. QED
      BY <1>1, <2>4, <3>1, <3>2 DEF DisableInv
  <2>10. QED
    BY <2>5, <2>6, <2>7, <2>8, <2>9
<1>4. QED
  BY <1>2, <1>3

(* A save takes at most its target from the active super admins. *)
LEMMA SaveStep ==
  ASSUME IInv, NEW t \in Requests, SetStatusSave(t)
  PROVE  IInv'
<1> USE DEF IInv, AdminTypeOK, Steps, Wanted
<1>1. /\ pc[t] = "save" /\ target[t] \in Admins
      /\ pc' = [pc EXCEPT ![t] = "idle"]
      /\ actor' = [actor EXCEPT ![t] = None]
      /\ target' = [target EXCEPT ![t] = None]
      /\ wanted' = [wanted EXCEPT ![t] = "nothing"]
      /\ isActive' = [isActive EXCEPT ![target[t]] = Asked(t)]
      /\ UNCHANGED <<role, createdBy, crossed>>
  BY DEF SetStatusSave, Answer, RequestInv
<1>2. UNCHANGED <<Registered, SuperAdmins, BelowCap>>
  BY <1>1 DEF Registered, SuperAdmins, BelowCap
<1>3. /\ ActiveSuperAdmins \ {target[t]} \subseteq ActiveSuperAdmins'
      /\ ~Disabling(t) => ActiveSuperAdmins \subseteq ActiveSuperAdmins'
  BY <1>1, <1>2 DEF ActiveSuperAdmins, Disabling, Asked, RequestInv
<1>4. AdminTypeOK' /\ RequestInv' /\ CreatorInv'
  BY <1>1, <1>2 DEF Asked, RequestInv, CreatorInv
<1>5. CreateInv'
  BY <1>1, <1>2 DEF CreateInv, Creating
<1>6. DisableInv'
  <2> SUFFICES ASSUME "disable" \notin crossed PROVE DisableInv'
    BY <1>1 DEF DisableInv
  <2>1. \A u \in Requests : Disabling(u)' => u # t /\ Disabling(u) /\ target'[u] = target[u]
    BY <1>1, <1>2 DEF Disabling
  <2>2. CASE Disabling(t)
    <3>1. \A u \in Requests : ~Disabling(u)'
      BY <2>1, <2>2 DEF DisableInv
    <3>2. ActiveSuperAdmins' # {}
      BY <1>3, <2>2 DEF DisableInv
    <3>3. QED
      BY <3>1, <3>2 DEF DisableInv
  <2>3. CASE ~Disabling(t)
    BY <1>2, <1>3, <2>1, <2>3 DEF DisableInv
  <2>4. QED
    BY <2>2, <2>3
<1>7. QED
  BY <1>4, <1>5, <1>6

LEMMA InvStep == IInv /\ [AdminNext]_adminVars => IInv'
<1> SUFFICES ASSUME IInv, [AdminNext]_adminVars PROVE IInv'
  OBVIOUS
<1>1. ASSUME NEW t \in Requests, Reads(t) PROVE IInv'
  <2>1. AdminTypeOK' /\ RequestInv' /\ CreateInv' /\ DisableInv'
    BY <1>1, ReadsTyping, ReadsCreate, ReadsDisable DEF IInv
  <2>2. CreatorInv'
    BY <1>1, ReadsMoveOne DEF IInv, CreatorInv, records
  <2>3. QED
    BY <2>1, <2>2 DEF IInv
<1>2. ASSUME NEW t \in Requests, Seed(t) \/ Create(t) PROVE IInv'
  BY <1>2, InsertStep
<1>3. ASSUME NEW t \in Requests, SetStatusSave(t) PROVE IInv'
  BY <1>3, SaveStep
<1>4. CASE UNCHANGED adminVars
  BY <1>4 DEF adminVars, records, IInv, AdminTypeOK, RequestInv, CreatorInv, CreateInv, DisableInv,
       Creating, Disabling, Registered, SuperAdmins, ActiveSuperAdmins, BelowCap
<1>5. QED
  BY <1>1, <1>2, <1>3, <1>4 DEF AdminNext, Handle, Reads

(* Every record and every request in flight keeps its type. *)
THEOREM AdminTypeCorrect == AdminSpec => []AdminTypeOK
<1>1. IInv => AdminTypeOK
  BY DEF IInv
<1>2. QED
  BY <1>1, InvInit, InvStep, PTL DEF AdminSpec

(* No more than MaxSuperAdmins super admins, for any number of requests, unless
   two creations overlapped. *)
THEOREM CapHoldsAlways == AdminSpec => []CapHolds
<1>1. IInv => CapHolds
  BY DEF IInv, CreateInv, CapHolds
<1>2. QED
  BY <1>1, InvInit, InvStep, PTL DEF AdminSpec

(* From the bootstrap on some super admin is active, unless two disablings
   overlapped. *)
THEOREM SomeoneCanActAlways == AdminSpec => []SomeoneCanAct
<1>1. IInv => SomeoneCanAct
  BY DEF IInv, DisableInv, SomeoneCanAct
<1>2. QED
  BY <1>1, InvInit, InvStep, PTL DEF AdminSpec

(* A single bootstrapped record, unless two creations overlapped; all others go
   back to a super admin. *)
THEOREM SeededOnceAlways == AdminSpec => []SeededOnce
<1>1. ASSUME IInv PROVE SeededOnce
  <2> DEFINE Seeds == {a \in Registered : createdBy[a] = None}
  <2>1. ASSUME "create" \notin crossed PROVE Cardinality(Seeds) <= 1
    <3>1. Seeds = {} \/ \E a : Seeds = {a}
      BY <1>1, <2>1 DEF IInv, CreateInv
    <3>2. QED
      BY <3>1, FS_EmptySet, FS_Singleton
  <2>2. QED
    BY <1>1, <2>1 DEF IInv, CreatorInv, SeededOnce
<1>2. QED
  BY <1>1, InvInit, InvStep, PTL DEF AdminSpec

-----------------------------------------------------------------------------
(* How far overlapping requests can exceed the cap *)

LEMMA CapExceededInit == AdminInit => CapExceededByRequests
<1> SUFFICES ASSUME AdminInit PROVE CapExceededByRequests
  OBVIOUS
<1>1. SuperAdmins = {} /\ InCreation = {}
  BY DEF AdminInit, SuperAdmins, InCreation, Creating
<1>2. Cardinality(Requests) \in Nat
  BY AdminAssumptions, FS_CardinalityType
<1>3. QED
  BY <1>1, <1>2, FS_EmptySet, AdminAssumptions DEF CapExceededByRequests

(* The requests past the check become fewer, or the check has just passed. *)
LEMMA ReadsCap ==
  ASSUME IInv, CapExceededByRequests, NEW t \in Requests, Reads(t)
  PROVE  CapExceededByRequests'
<1> DEFINE S == Cardinality(SuperAdmins)
           R == Cardinality(Requests)
           C == Cardinality(InCreation)
<1>1. SuperAdmins' = SuperAdmins
  BY ReadsMoveOne DEF IInv
<1>2. S \in Nat /\ R \in Nat /\ C \in Nat /\ IsFiniteSet(InCreation)
  BY SuperAdminsFinite, AdminAssumptions, FS_CardinalityType, FS_Subset DEF InCreation
<1>3. CASE Creating(t)'
  <2>1. S < MaxSuperAdmins
    BY <1>3, CheckedCap DEF BelowCap
  <2>2. C' \in Nat /\ C' <= R
    BY AdminAssumptions, FS_CardinalityType, FS_Subset DEF InCreation
  <2>3. QED
    BY <1>1, <1>2, <2>1, <2>2, AdminAssumptions DEF CapExceededByRequests
<1>4. CASE ~Creating(t)'
  <2>1. InCreation' \subseteq InCreation
    BY <1>4, ReadsMoveOne DEF IInv, InCreation
  <2>2. C' \in Nat /\ C' <= C
    BY <1>2, <2>1, FS_CardinalityType, FS_Subset
  <2>3. QED
    BY <1>1, <1>2, <2>2, AdminAssumptions DEF CapExceededByRequests
<1>5. QED
  BY <1>3, <1>4

(* An insertion adds at most one super admin, and one request less is past the
   check. *)
LEMMA InsertCap ==
  ASSUME IInv, CapExceededByRequests, NEW t \in Requests, Seed(t) \/ Create(t)
  PROVE  CapExceededByRequests'
<1> DEFINE S == Cardinality(SuperAdmins)
           R == Cardinality(Requests)
           C == Cardinality(InCreation)
<1>1. /\ pc[t] \in {"seed", "create"} /\ target[t] \in Admins
      /\ pc' = [pc EXCEPT ![t] = "idle"]
      /\ wanted' = [wanted EXCEPT ![t] = "nothing"]
      /\ UNCHANGED role \/ role' = [role EXCEPT ![target[t]] = wanted[t]]
  BY DEF IInv, Seed, Create, Insert, Answer, RequestInv, records
<1>2. InCreation' = InCreation \ {t}
  BY <1>1 DEF IInv, AdminTypeOK, InCreation, Creating
<1>3. S \in Nat /\ R \in Nat /\ C \in Nat /\ IsFiniteSet(InCreation)
  BY SuperAdminsFinite, AdminAssumptions, FS_CardinalityType, FS_Subset DEF InCreation
<1>4. C' = IF t \in InCreation THEN C - 1 ELSE C
  BY <1>2, <1>3, FS_RemoveElement
<1>5. CASE wanted[t] = "super_admin"
  <2>1. t \in InCreation
    BY <1>1, <1>5 DEF InCreation, Creating
  <2>2. SuperAdmins' \subseteq SuperAdmins \cup {target[t]}
    BY <1>1, <1>5 DEF IInv, AdminTypeOK, SuperAdmins
  <2>3. IsFiniteSet(SuperAdmins \cup {target[t]}) /\ Cardinality(SuperAdmins \cup {target[t]}) <= S + 1
    <3>1. /\ IsFiniteSet(SuperAdmins \cup {target[t]})
          /\ Cardinality(SuperAdmins \cup {target[t]})
                = IF target[t] \in SuperAdmins THEN S ELSE S + 1
      BY SuperAdminsFinite, FS_AddElement
    <3>2. QED
      BY <1>3, <3>1
  <2>4. S' \in Nat /\ S' <= Cardinality(SuperAdmins \cup {target[t]})
    BY <2>2, <2>3, FS_Subset, FS_CardinalityType
  <2>5. Cardinality(SuperAdmins \cup {target[t]}) \in Nat
    BY <2>3, FS_CardinalityType
  <2>6. QED
    BY <1>3, <1>4, <2>1, <2>3, <2>4, <2>5, AdminAssumptions DEF CapExceededByRequests
<1>6. CASE wanted[t] # "super_admin"
  <2>1. SuperAdmins' \subseteq SuperAdmins
    BY <1>1, <1>6 DEF IInv, AdminTypeOK, SuperAdmins
  <2>2. S' \in Nat /\ S' <= S
    BY <2>1, SuperAdminsFinite, FS_Subset, FS_CardinalityType
  <2>3. C' = C
    BY <1>1, <1>4, <1>6 DEF IInv, RequestInv, InCreation, Creating
  <2>4. QED
    BY <1>3, <2>2, <2>3, AdminAssumptions DEF CapExceededByRequests
<1>7. QED
  BY <1>5, <1>6

LEMMA CapExceededStep ==
  IInv /\ CapExceededByRequests /\ [AdminNext]_adminVars => CapExceededByRequests'
<1> SUFFICES ASSUME IInv, CapExceededByRequests, [AdminNext]_adminVars PROVE CapExceededByRequests'
  OBVIOUS
<1>1. ASSUME NEW t \in Requests, SetStatusSave(t) PROVE CapExceededByRequests'
  <2>1. SuperAdmins' = SuperAdmins /\ InCreation' = InCreation
    BY <1>1 DEF IInv, AdminTypeOK, SetStatusSave, Answer, SuperAdmins, InCreation, Creating
  <2>2. QED
    BY <2>1 DEF CapExceededByRequests
<1>2. CASE UNCHANGED adminVars
  BY <1>2 DEF adminVars, records, CapExceededByRequests, SuperAdmins, InCreation, Creating
<1>3. QED
  BY <1>1, <1>2, ReadsCap, InsertCap DEF AdminNext, Handle, Reads

(* Whatever overlaps, super admins and requests about to create one stay fewer
   than the cap and the requests together. *)
THEOREM CapExceededByRequestsAlways == AdminSpec => []CapExceededByRequests
BY InvInit, InvStep, CapExceededInit, CapExceededStep, PTL DEF AdminSpec

-----------------------------------------------------------------------------
(* What it costs that two disablings may overlap *)

(* Nobody can act any more, and nobody is about to register or enable anyone who
   could. *)
LockedOut ==
    /\ Registered # {} /\ ActiveSuperAdmins = {}
    /\ \A t \in Requests : wanted[t] \notin {"super_admin", "enabled"}

(* The guard admits nobody, and the bootstrap only works for an empty collection. *)
LEMMA LockedOutReads ==
  ASSUME IInv, LockedOut, NEW t \in Requests, Reads(t)
  PROVE  LockedOut'
<1> USE DEF IInv, AdminTypeOK, Admit, Advance, Answer
<1>1. UNCHANGED <<Registered, SuperAdmins, ActiveSuperAdmins>>
  BY ReadsMoveOne
<1>2. CASE \/ \E a \in Admins : SeedCheck(t, a)
           \/ \E by, a \in Admins, w \in Wanted : CreateGuard(t, by, a, w) \/ SetStatusGuard(t, by, a, w)
  <2>1. \A by \in Admins : ~Authorized(by)
    BY DEF LockedOut, Authorized, ActiveSuperAdmins, SuperAdmins
  <2>2. QED
    BY <1>2, <2>1 DEF LockedOut, SeedCheck, CreateGuard, SetStatusGuard
<1>3. CASE CreateLookup(t) \/ CreateCount(t) \/ SetStatusFind(t) \/ SetStatusCount(t) \/ AdminFail(t)
  <2>1. \A u \in Requests : wanted'[u] \in {wanted[u], "nothing"}
    BY <1>3 DEF CreateLookup, CreateCount, SetStatusFind, SetStatusCount, AdminFail
  <2>2. QED
    BY <1>1, <2>1 DEF LockedOut
<1>4. QED
  BY <1>2, <1>3 DEF Reads

LEMMA LockedOutStep == IInv /\ LockedOut /\ [AdminNext]_adminVars => LockedOut'
<1> SUFFICES ASSUME IInv, LockedOut, [AdminNext]_adminVars PROVE LockedOut'
  OBVIOUS
<1> USE DEF IInv, AdminTypeOK
<1>1. ASSUME NEW t \in Requests, Seed(t) \/ Create(t) PROVE LockedOut'
  <2>1. wanted[t] = "admin" /\ wanted' = [wanted EXCEPT ![t] = "nothing"]
    BY <1>1 DEF Seed, Create, Insert, Answer, RequestInv, AdminRole, LockedOut
  <2>2. SuperAdmins' = SuperAdmins /\ Registered \subseteq Registered'
    BY <1>1, <2>1 DEF Seed, Create, Insert, records, Registered, SuperAdmins
  <2>3. \A a \in SuperAdmins : isActive'[a] = isActive[a]
    BY <1>1 DEF Seed, Create, Insert, records, Registered, SuperAdmins
  <2>4. ActiveSuperAdmins' = {}
    BY <2>2, <2>3 DEF LockedOut, ActiveSuperAdmins
  <2>5. QED
    BY <2>1, <2>2, <2>4 DEF LockedOut
<1>2. ASSUME NEW t \in Requests, SetStatusSave(t) PROVE LockedOut'
  <2>1. ~Asked(t) /\ target[t] \in Admins /\ wanted' = [wanted EXCEPT ![t] = "nothing"]
    BY <1>2 DEF SetStatusSave, Answer, RequestInv, LockedOut, Asked
  <2>2. SuperAdmins' = SuperAdmins /\ Registered' = Registered
    BY <1>2 DEF SetStatusSave, SuperAdmins, Registered
  <2>3. ActiveSuperAdmins' \subseteq ActiveSuperAdmins
    BY <1>2, <2>1, <2>2 DEF SetStatusSave, ActiveSuperAdmins
  <2>4. QED
    BY <2>1, <2>2, <2>3 DEF LockedOut
<1>3. CASE UNCHANGED adminVars
  BY <1>3 DEF adminVars, records, LockedOut, Registered, SuperAdmins, ActiveSuperAdmins
<1>4. QED
  BY <1>1, <1>2, <1>3, LockedOutReads DEF AdminNext, Handle, Reads

(* No call of the API undoes the loss of the last active super admin: the guard
   refuses everybody (super-admin.guard.ts) and the bootstrap finds records
   (admin.service.ts:54), so that it takes a change of the database by hand. *)
THEOREM LockedOutForGood == AdminSpec => [](LockedOut => []LockedOut)
BY InvInit, InvStep, LockedOutStep, PTL DEF AdminSpec
============================================================================
