----------------------------- MODULE CityCodes -----------------------------
(***************************************************************************)
(* CityService: names, the codes generated from them, and isActive.        *)
(* Mongoose's save() writes the fields that were modified since findById,  *)
(* and assigning a field the value it has is no modification.              *)
(***************************************************************************)
EXTENDS Handlers

CONSTANTS
    Cities,     \* documents that may come to exist
    CityNames,
    Prefix,     \* the first three letters of a name
    MaxSuffix   \* bound: the numbers tried for a code

CityPrefixes == {Prefix[n] : n \in CityNames}
Codes == CityPrefixes \X Nat

ASSUME CityAssumptions == /\ IsFiniteSet(Cities)
                          /\ None \notin Cities \cup CityNames \cup Codes
                          /\ DOMAIN Prefix = CityNames

VARIABLES
    name, code,   \* None: there is no such document
    serving,      \* isActive
    flips         \* history: the cities toggled an odd number of times

cityVars == <<name, code, serving, flips>>

CityOperations == {"createCity", "updateCity", "toggleCity"}

CityTypeOK ==
    /\ name \in [Cities -> CityNames \cup {None}]
    /\ code \in [Cities -> Codes \cup {None}]
    /\ serving \subseteq Cities
    /\ flips \subseteq Cities

CityInit ==
    /\ name = [c \in Cities |-> None]
    /\ code = [c \in Cities |-> None]
    /\ serving = {}
    /\ flips = {}

Stored == {c \in Cities : name[c] # None}

CodeExists(k) == \E c \in Cities : code[c] = k

CityAsked(op, c, n) ==
    [op |-> op, at |-> IF op = "createCity" THEN "dup" ELSE "find",
     city |-> c, name |-> n, read |-> None, n |-> 0, flag |-> FALSE]

CityStart(t) ==
    /\ \/ \E n \in CityNames : Start(t, CityAsked("createCity", None, n))
       \/ \E c \in Stored, n \in CityNames : Start(t, CityAsked("updateCity", c, n))
       \/ \E c \in Stored : Start(t, CityAsked("toggleCity", c, None))
    /\ UNCHANGED <<cityVars, overlapped>>

(* updateCity: findById; nothing is modified if the name stays. *)
RenameFind(t) ==
    LET r == req[t] IN
    /\ At(t, "updateCity", "find")
    /\ IF name[r.city] = r.name THEN Finish(t)
       ELSE Continue(t, [r EXCEPT !.at = "dup", !.read = code[r.city]])
    /\ UNCHANGED <<cityVars, overlapped>>

(* findOne({ name }), of another city if one is renamed. *)
NameTaken(t) ==
    LET r == req[t] IN
    /\ r.op \in {"createCity", "updateCity"} /\ r.at = "dup"
    /\ IF \E c \in Cities \ {r.city} : name[c] = r.name
       THEN Finish(t) ELSE Continue(t, [r EXCEPT !.at = "code"])
    /\ UNCHANGED <<cityVars, overlapped>>

(* generateUniqueCode: one exists() at a time. *)
GenerateUniqueCode(t) ==
    LET r == req[t] IN
    /\ r.op \in {"createCity", "updateCity"} /\ r.at = "code"
    /\ IF ~CodeExists(<<Prefix[r.name], r.n>>) THEN Continue(t, [r EXCEPT !.at = "save"])
       ELSE r.n < MaxSuffix /\ Continue(t, [r EXCEPT !.n = @ + 1])
    /\ UNCHANGED <<cityVars, overlapped>>

(* cityModel.create: both indexes are unique, or it throws. *)
CityCreate(t) ==
    LET r == req[t]
        k == <<Prefix[r.name], r.n>> IN
    /\ At(t, "createCity", "save")
    /\ Finish(t)
    /\ \/ /\ CodeExists(k) \/ \E c \in Cities : name[c] = r.name
          /\ UNCHANGED cityVars
       \/ \E c \in Cities \ Stored :
          /\ ~CodeExists(k) /\ \A d \in Cities : name[d] # r.name
          /\ name' = [name EXCEPT ![c] = r.name]
          /\ code' = [code EXCEPT ![c] = k]
          /\ serving' = serving \cup {c}
          /\ UNCHANGED flips
    /\ UNCHANGED overlapped

(* existingCity.save(): a generated code equal to the one read is not written,
   whatever the document's code is by now. *)
RenameSave(t) ==
    LET r == req[t]
        k == <<Prefix[r.name], r.n>>
        others == Cities \ {r.city} IN
    /\ At(t, "updateCity", "save")
    /\ Finish(t)
    /\ \/ /\ \E c \in others : name[c] = r.name \/ (k # r.read /\ code[c] = k)
          /\ UNCHANGED cityVars
       \/ /\ \A c \in others : name[c] # r.name /\ (k # r.read => code[c] # k)
          /\ name' = [name EXCEPT ![r.city] = r.name]
          /\ code' = [code EXCEPT ![r.city] = IF k = r.read THEN @ ELSE k]
          /\ UNCHANGED <<serving, flips>>
    /\ UNCHANGED overlapped

(* toggleCityStatus: findById, then save. *)
TogglingCity(r) == r.op = "toggleCity" /\ r.at = "save"

ToggleCityFind(t) ==
    LET r == req[t] IN
    /\ At(t, "toggleCity", "find")
    /\ Continue(t, [r EXCEPT !.at = "save", !.flag = r.city \notin serving])
    /\ Overlap(t, "toggle", LAMBDA u : TogglingCity(u) /\ u.city = r.city)
    /\ UNCHANGED cityVars

ToggleCitySave(t) ==
    LET c == req[t].city IN
    /\ At(t, "toggleCity", "save")
    /\ Finish(t)
    /\ serving' = IF req[t].flag THEN serving \cup {c} ELSE serving \ {c}
    /\ flips' = (flips \ {c}) \cup ({c} \ flips)
    /\ UNCHANGED <<name, code, overlapped>>

CityStep(t) ==
    \/ CityStart(t)
    \/ RenameFind(t) \/ NameTaken(t) \/ GenerateUniqueCode(t)
    \/ CityCreate(t) \/ RenameSave(t)
    \/ ToggleCityFind(t) \/ ToggleCitySave(t)

CityNext == \E t \in Requests : CityStep(t) \/ (Fail(t) /\ UNCHANGED cityVars)

CitySpec == HandlersInit /\ CityInit /\ [][CityNext]_<<handlers, cityVars>>
=============================================================================
