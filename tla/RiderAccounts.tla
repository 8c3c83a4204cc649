--------------------------- MODULE RiderAccounts ---------------------------
(***************************************************************************)
(* AuthService: registration, sign-in, profile, and the two ways to set a  *)
(* password.  bcrypt takes its time between the read that checks and the   *)
(* save; hashing and comparing touch no document and are part of the read. *)
(***************************************************************************)
EXTENDS Handlers

CONSTANTS
    Accounts,   \* documents that may come to exist
    Emails,
    Passwords,
    Tokens      \* raw tokens; randomBytes never repeats one

ASSUME RiderAssumptions == None \notin Accounts \cup Emails \cup Passwords \cup Tokens

VARIABLES
    email, password,  \* None: there is no such document
    token,            \* resetPasswordToken
    lapsed,           \* tokens whose 15 minutes are over
    signedIn,         \* accounts with a lastLogin
    mailed,           \* tokens that reached their rider
    latest,           \* history: the token last stored for an account
    uses              \* history: how many resets a token was good for

riderVars == <<email, password, token, lapsed, signedIn, mailed, latest, uses>>

RiderTypeOK ==
    /\ email \in [Accounts -> Emails \cup {None}]
    /\ password \in [Accounts -> Passwords \cup {None}]
    /\ token \in [Accounts -> Tokens \cup {None}]
    /\ lapsed \subseteq Tokens /\ mailed \subseteq Tokens
    /\ signedIn \subseteq Accounts
    /\ latest \in [Accounts -> Tokens \cup {None}]
    /\ uses \in [Tokens -> Nat]

RiderInit ==
    /\ email = [a \in Accounts |-> None]
    /\ password = [a \in Accounts |-> None]
    /\ token = [a \in Accounts |-> None]
    /\ lapsed = {} /\ mailed = {} /\ signedIn = {}
    /\ latest = [a \in Accounts |-> None]
    /\ uses = [k \in Tokens |-> 0]

(* The operations, by the names their requests have. *)
RiderOperations ==
    {"createUser", "loginUser", "updateProfile", "forgotPassword", "resetPassword",
     "changePassword"}

Owner(e) == {a \in Accounts : email[a] = e}

RiderAsked(op, a, e, p, k) ==
    [op |-> op, at |-> "find", id |-> a, email |-> e, password |-> p, token |-> k]

RiderStart(t) ==
    /\ \E e \in Emails, p \in Passwords :
          \/ Start(t, RiderAsked("createUser", None, e, p, None))
          \/ Start(t, RiderAsked("loginUser", None, e, p, None))
          \/ Start(t, RiderAsked("forgotPassword", None, e, None, None))
          \/ \E a \in Accounts : Start(t, RiderAsked("updateProfile", a, e, None, None))
          \/ \E a \in Accounts : Start(t, RiderAsked("changePassword", a, None, p, None))
          \/ \E k \in mailed : Start(t, RiderAsked("resetPassword", None, None, p, k))
    /\ UNCHANGED <<riderVars, overlapped>>

-----------------------------------------------------------------------------
(* createUser: findOne, hash, create; the index on email is unique. *)
RegisterFind(t) ==
    LET r == req[t] IN
    /\ At(t, "createUser", "find")
    /\ IF Owner(r.email) # {} THEN Finish(t) ELSE Continue(t, [r EXCEPT !.at = "save"])
    /\ UNCHANGED <<riderVars, overlapped>>

RegisterCreate(t) ==
    LET r == req[t] IN
    /\ At(t, "createUser", "save")
    /\ Finish(t)
    /\ \/ Owner(r.email) # {} /\ UNCHANGED <<email, password>>
       \/ /\ Owner(r.email) = {}
          /\ \E a \in Fresh(Owner(None)) :
                /\ email' = [email EXCEPT ![a] = r.email]
                /\ password' = [password EXCEPT ![a] = r.password]
    /\ UNCHANGED <<token, lapsed, signedIn, mailed, latest, uses, overlapped>>

(* loginUser: findOne and compare, then save lastLogin. *)
LoginFind(t) ==
    LET r == req[t] IN
    /\ At(t, "loginUser", "find")
    /\ \/ Finish(t) /\ \A a \in Owner(r.email) : password[a] # r.password
       \/ \E a \in Owner(r.email) :
             password[a] = r.password /\ Continue(t, [r EXCEPT !.at = "save", !.id = a])
    /\ UNCHANGED <<riderVars, overlapped>>

LoginSave(t) ==
    /\ At(t, "loginUser", "save")
    /\ Finish(t)
    /\ signedIn' = signedIn \cup {req[t].id}
    /\ UNCHANGED <<email, password, token, lapsed, mailed, latest, uses, overlapped>>

(* updateProfile: findById and, for another email, findOne; then save. *)
ProfileFind(t) ==
    LET r == req[t] IN
    /\ At(t, "updateProfile", "find")
    /\ IF email[r.id] \in {None, r.email} THEN Finish(t)
       ELSE Continue(t, [r EXCEPT !.at = "dup"])
    /\ UNCHANGED <<riderVars, overlapped>>

ProfileDuplicate(t) ==
    LET r == req[t] IN
    /\ At(t, "updateProfile", "dup")
    /\ IF Owner(r.email) \ {r.id} # {} THEN Finish(t)
       ELSE Continue(t, [r EXCEPT !.at = "save"])
    /\ UNCHANGED <<riderVars, overlapped>>

ProfileSave(t) ==
    LET r == req[t] IN
    /\ At(t, "updateProfile", "save")
    /\ Finish(t)
    /\ email' = IF Owner(r.email) \ {r.id} # {} THEN email ELSE [email EXCEPT ![r.id] = r.email]
    /\ UNCHANGED <<password, token, lapsed, signedIn, mailed, latest, uses, overlapped>>

-----------------------------------------------------------------------------
(* What a request has read an account for, between its read and its save. *)
SettingPassword(r, a) ==
    r.op \in {"resetPassword", "changePassword"} /\ r.at = "save" /\ r.id = a

Resetting(r, a) == r.op = "resetPassword" /\ SettingPassword(r, a)

(* forgotPassword: findOne, save, and a mail nobody waits for. *)
ForgotFind(t) ==
    LET r == req[t] IN
    /\ At(t, "forgotPassword", "find")
    /\ \/ Finish(t) /\ Owner(r.email) = {}
       \/ \E a \in Owner(r.email) : Continue(t, [r EXCEPT !.at = "save", !.id = a])
    /\ UNCHANGED <<riderVars, overlapped>>

(* Tokens nobody has: no account, no mail, and no request about to send one. *)
MailingLink(r) == r.op = "forgotPassword" /\ r.at = "mail"

Unissued ==
    {k \in Tokens \ (mailed \cup lapsed) :
        /\ \A a \in Accounts : k \notin {token[a], latest[a]}
        /\ \A t \in Requests : MailingLink(req[t]) => req[t].token # k
        /\ uses[k] = 0}

ForgotSave(t) ==
    LET r == req[t] IN
    /\ At(t, "forgotPassword", "save")
    /\ \E k \in Fresh(Unissued) :
          /\ Continue(t, [r EXCEPT !.at = "mail", !.token = k])
          /\ token' = [token EXCEPT ![r.id] = k]
          /\ latest' = [latest EXCEPT ![r.id] = k]
    /\ Overlap(t, "link", LAMBDA u : Resetting(u, r.id))
    /\ UNCHANGED <<email, password, lapsed, signedIn, mailed, uses>>

ForgotMail(t) ==
    /\ At(t, "forgotPassword", "mail")
    /\ Finish(t)
    /\ mailed' = mailed \cup {req[t].token}
    /\ UNCHANGED <<email, password, token, lapsed, signedIn, latest, uses, overlapped>>

Lapse(k) ==
    /\ "resetPassword" \in shift
    /\ k \in mailed \ lapsed
    /\ lapsed' = lapsed \cup {k}
    /\ UNCHANGED <<handlers, email, password, token, signedIn, mailed, latest, uses>>

(* resetPassword: findOne by the unexpired token, compare, hash, save. *)
Holders(k) == {a \in Accounts : token[a] = k /\ k \notin lapsed}

ResetFind(t) ==
    LET r == req[t] IN
    /\ At(t, "resetPassword", "find")
    /\ \/ /\ \A a \in Holders(r.token) : password[a] = r.password
          /\ Finish(t)
          /\ UNCHANGED overlapped
       \/ \E a \in Holders(r.token) :
          /\ password[a] # r.password
          /\ Continue(t, [r EXCEPT !.at = "save", !.id = a])
          /\ Overlap(t, "password", LAMBDA u : SettingPassword(u, a))
    /\ UNCHANGED riderVars

\* Mutant of ResetSave: the token is left to expire.
ResetSavePassword(t) ==
    LET r == req[t] IN
    /\ At(t, "resetPassword", "save")
    /\ Finish(t)
    /\ password' = [password EXCEPT ![r.id] = r.password]
    /\ uses' = [uses EXCEPT ![r.token] = @ + 1]
    /\ UNCHANGED <<email, token, lapsed, signedIn, mailed, latest, overlapped>>

(* The save clears whatever token is stored by now. *)
ResetSave(t) ==
    LET r == req[t] IN
    /\ At(t, "resetPassword", "save")
    /\ Finish(t)
    /\ password' = [password EXCEPT ![r.id] = r.password]
    /\ token' = [token EXCEPT ![r.id] = None]
    /\ uses' = [uses EXCEPT ![r.token] = @ + 1]
    /\ UNCHANGED <<email, lapsed, signedIn, mailed, latest, overlapped>>

(* changePassword: findById, the current password's comparison, which either
   succeeds or ends the request, the new one's; then hash and save. *)
ChangeFind(t) ==
    LET r == req[t] IN
    /\ At(t, "changePassword", "find")
    /\ \/ Finish(t) /\ UNCHANGED overlapped
       \/ /\ email[r.id] # None /\ password[r.id] # r.password
          /\ Continue(t, [r EXCEPT !.at = "save"])
          /\ Overlap(t, "password", LAMBDA u : SettingPassword(u, r.id))
    /\ UNCHANGED riderVars

\* Mutant of ChangeSave: links not used yet are withdrawn.
ChangeSaveToken(t) ==
    LET r == req[t] IN
    /\ At(t, "changePassword", "save")
    /\ Finish(t)
    /\ password' = [password EXCEPT ![r.id] = r.password]
    /\ token' = [token EXCEPT ![r.id] = None]
    /\ UNCHANGED <<email, lapsed, signedIn, mailed, latest, uses, overlapped>>

ChangeSave(t) ==
    LET r == req[t] IN
    /\ At(t, "changePassword", "save")
    /\ Finish(t)
    /\ password' = [password EXCEPT ![r.id] = r.password]
    /\ UNCHANGED <<email, token, lapsed, signedIn, mailed, latest, uses, overlapped>>

-----------------------------------------------------------------------------
RiderStep(t) ==
    \/ RiderStart(t)
    \/ RegisterFind(t) \/ RegisterCreate(t) \/ LoginFind(t) \/ LoginSave(t)
    \/ ProfileFind(t) \/ ProfileDuplicate(t) \/ ProfileSave(t)
    \/ ForgotFind(t) \/ ForgotSave(t) \/ ForgotMail(t)
    \/ ResetFind(t) \/ ResetSave(t) \/ ChangeFind(t) \/ ChangeSave(t)

RiderNext ==
    \/ \E t \in Requests : RiderStep(t)
    \/ \E k \in Tokens : Lapse(k)

RiderSpec == HandlersInit /\ RiderInit /\ [][RiderNext]_<<handlers, riderVars>>

-----------------------------------------------------------------------------
(* A reset link is good for one reset (auth.service.ts:372), unless two requests
   on the account overlapped between their reads and their saves. *)
TokenUsedOnce == "password" \notin overlapped => \A k \in Tokens : uses[k] <= 1

(* The link last sent to a rider works until it is used or its time is over,
   whatever happens to the account meanwhile, unless it was issued while a reset
   was being saved, which clears it. *)
LatestLinkWorks ==
    "link" \notin overlapped => \A a \in Accounts :
        latest[a] \in mailed \ lapsed /\ uses[latest[a]] = 0 => token[a] = latest[a]
=============================================================================
