------------------------ MODULE RiderServices_proofs ------------------------
(***************************************************************************)
(* Proofs about what riders use beside the shuttle: their accounts, the    *)
(* bookings of trips and the on-demand rides, each with its invariant.     *)
(* They hold for any accounts, bookings, tariffs and requests, whatever    *)
(* else the process does: see RiderAside, LegacyAside and RideAside.       *)
(***************************************************************************)
EXTENDS RiderAccounts, LegacyBookings, RideBookings, Handlers_proofs, SumLemmas

-----------------------------------------------------------------------------
(* Riders' accounts: what a link to reset a password is good for. *)

(* What a request carries. *)
RiderRequest ==
    [op : RiderOperations, at : {"find", "dup", "save", "mail"}, id : Accounts \cup {None},
     email : Emails \cup {None}, password : Passwords \cup {None}, token : Tokens \cup {None}]

RiderTyping(r) ==
    r.op \in RiderOperations =>
        /\ r \in RiderRequest
        /\ r.op \in {"createUser", "updateProfile"} => r.email \in Emails
        /\ r.op \in {"createUser", "resetPassword", "changePassword"} => r.password \in Passwords
        /\ r.op \in {"updateProfile", "changePassword"} => r.id \in Accounts
        /\ r.op \in {"loginUser", "forgotPassword", "resetPassword"} /\ r.at # "find" =>
              r.id \in Accounts
        /\ r.op = "resetPassword" => r.token \in Tokens
        /\ MailingLink(r) => r.token \in Tokens

Saves(r) == Resetting(r, r.id)

(* A reset was asked for with a token that was mailed, and whose holder it has
   found nobody else has held or will hold. *)
ResetKnows(r) ==
    /\ r.op = "resetPassword" => r.token \in mailed
    /\ Saves(r) => \A a \in Accounts \ {r.id} : r.token \notin {token[a], latest[a]}

RiderRequests == \A t \in Requests : RiderTyping(req[t]) /\ ResetKnows(req[t])

(* A stored token is the last one of its account, and of no other. *)
TokenOwner ==
    /\ \A a \in Accounts : token[a] # None => token[a] = latest[a]
    /\ \A a, b \in Accounts : latest[a] = latest[b] /\ latest[a] # None => a = b

(* While no two settings of one password overlapped, a token that is stored, or
   held by a reset, is unused. *)
UnusedInv ==
    "password" \notin overlapped =>
        /\ \A t, u \in Requests, a \in Accounts :
              SettingPassword(req[t], a) /\ SettingPassword(req[u], a) => t = u
        /\ \A a \in Accounts : token[a] # None => uses[token[a]] = 0
        /\ \A t \in Requests : Saves(req[t]) => uses[req[t].token] = 0
        /\ \A t, u \in Requests :
              Saves(req[t]) /\ Saves(req[u]) /\ req[t].token = req[u].token => t = u
        /\ \A k \in Tokens : uses[k] <= 1

(* While no link was issued beside a reset, the reset clears the token it has
   used, and an unused token is still there. *)
LinkInv ==
    "link" \notin overlapped =>
        /\ \A t \in Requests : Saves(req[t]) => req[t].token = latest[req[t].id]
        /\ \A a \in Accounts : latest[a] # None /\ uses[latest[a]] = 0 => token[a] = latest[a]

RiderInv == RiderTypeOK /\ RiderRequests /\ TokenOwner /\ UnusedInv /\ LinkInv

(* Anything else the process does. *)
RiderAside == Foreign(RiderOperations) /\ UNCHANGED riderVars

-----------------------------------------------------------------------------
LEMMA RiderInvInit == HandlersInit /\ RiderInit => RiderInv
<1> SUFFICES ASSUME HandlersInit, RiderInit PROVE RiderInv
  OBVIOUS
<1>1. RiderTypeOK /\ TokenOwner
  BY DEF RiderInit, RiderTypeOK, TokenOwner
<1>2. \A t \in Requests : RiderTyping(req[t]) /\ ResetKnows(req[t]) /\ ~Saves(req[t])
                          /\ \A a : ~SettingPassword(req[t], a)
  BY IdleHasNoOperation
     DEF HandlersInit, RiderTyping, RiderOperations, MailingLink, ResetKnows, Saves, Resetting,
         SettingPassword
<1>3. UnusedInv /\ LinkInv
  BY <1>2 DEF RiderInit, UnusedInv, LinkInv
<1>4. QED
  BY <1>1, <1>2, <1>3 DEF RiderInv, RiderRequests

(* A step that sets no password, touches no token, and no request begins to set
   a password by. *)
LEMMA RiderQuiet ==
  ASSUME RiderInv, RiderTypeOK', UNCHANGED <<token, latest, uses>>,
         mailed \subseteq mailed', overlapped \subseteq overlapped',
         \A t \in Requests : \/ req'[t] = req[t]
                             \/ /\ RiderTyping(req'[t]) /\ ResetKnows(req[t])'
                                /\ \A a : ~SettingPassword(req'[t], a)
  PROVE  RiderInv'
<1>1. \A t \in Requests : \A a :
         SettingPassword(req'[t], a) => req'[t] = req[t] /\ SettingPassword(req[t], a)
  OBVIOUS
<1>2. \A t \in Requests : Saves(req'[t]) => req'[t] = req[t] /\ Saves(req[t])
  BY <1>1 DEF Saves, Resetting
<1>3. RiderRequests'
  BY <1>2 DEF RiderInv, RiderRequests, RiderTyping, ResetKnows, Saves, Resetting, SettingPassword,
       MailingLink, RiderRequest
<1>4. TokenOwner' /\ UnusedInv' /\ LinkInv'
  BY <1>1, <1>2 DEF RiderInv, TokenOwner, UnusedInv, LinkInv
<1>5. QED
  BY <1>3, <1>4 DEF RiderInv

(* A step that writes no document, and one that writes another part of it. *)
RiderReads(t) ==
    \/ RiderStart(t) \/ RegisterFind(t) \/ LoginFind(t) \/ ProfileFind(t) \/ ProfileDuplicate(t)
    \/ ForgotFind(t)

RiderWrites(t) ==
    RegisterCreate(t) \/ LoginSave(t) \/ ProfileSave(t) \/ ForgotMail(t) \/ ChangeSave(t)

LEMMA FoundOne ==
  ASSUME HandlersOK, NEW t \in Requests, req[t] \in RiderRequest, NEW a \in Accounts,
         Continue(t, [req[t] EXCEPT !.at = "save", !.id = a])
  PROVE  /\ HandlersOK' /\ Moves(t, req'[t])
         /\ req'[t] \in RiderRequest /\ req'[t].at = "save" /\ req'[t].id = a
         /\ req'[t].op = req[t].op /\ req'[t].email = req[t].email
         /\ req'[t].password = req[t].password /\ req'[t].token = req[t].token
<1> DEFINE s == [req[t] EXCEPT !.at = "save", !.id = a]
<1>1. /\ s \in RiderRequest /\ s.at = "save" /\ s.id = a
      /\ s.op = req[t].op /\ s.email = req[t].email
      /\ s.password = req[t].password /\ s.token = req[t].token
  BY DEF RiderRequest
<1>2. "op" \in DOMAIN s
  BY <1>1 DEF RiderRequest
<1>3. HandlersOK' /\ Moves(t, s)
  BY <1>2, ContinueMoves
<1>4. QED
  BY <1>1, <1>3 DEF Moves

LEMMA RiderReadsOne ==
  ASSUME HandlersOK, RiderInv, NEW t \in Requests, RiderReads(t)
  PROVE  /\ UNCHANGED riderVars /\ UNCHANGED overlapped
         /\ HandlersOK' /\ Moves(t, req'[t])
         /\ req'[t].op \in RiderOperations \cup {"none"}
         /\ RiderTyping(req'[t]) /\ ResetKnows(req'[t])
         /\ \A a : ~SettingPassword(req'[t], a)
<1> USE DEF RiderTyping, ResetKnows, MailingLink, Saves, Resetting, SettingPassword, RiderOperations,
            At
<1>1. RiderTyping(req[t])
  BY DEF RiderInv, RiderRequests
<1>2. CASE RiderStart(t)
  BY <1>2, RiderAssumptions DEF RiderStart, RiderAsked, RiderInv, RiderTypeOK, RiderRequest,
       HandlersOK, Moves, Start
<1>3. CASE RegisterFind(t) \/ ProfileFind(t) \/ ProfileDuplicate(t)
  BY <1>1, <1>3 DEF RegisterFind, ProfileFind, ProfileDuplicate, RiderRequest, HandlersOK, Moves,
       Continue, Finish, Idle
<1>4. CASE (LoginFind(t) \/ ForgotFind(t)) /\ Finish(t)
  BY <1>4, FinishMoves, IdleHasNoOperation DEF LoginFind, ForgotFind, Moves
<1>5. CASE /\ LoginFind(t) \/ ForgotFind(t)
           /\ \E a \in Owner(req[t].email) :
                 Continue(t, [req[t] EXCEPT !.at = "save", !.id = a])
  <2>1. /\ req[t].op \in {"loginUser", "forgotPassword"} /\ req[t] \in RiderRequest
        /\ UNCHANGED <<riderVars, overlapped>>
    BY <1>1, <1>5 DEF LoginFind, ForgotFind
  <2>2. PICK a \in Accounts : Continue(t, [req[t] EXCEPT !.at = "save", !.id = a])
    BY <1>5 DEF Owner
  <2>3. /\ HandlersOK' /\ Moves(t, req'[t])
        /\ req'[t] \in RiderRequest /\ req'[t].at = "save" /\ req'[t].id = a
        /\ req'[t].op = req[t].op
    BY <2>1, <2>2, FoundOne
  <2>4. QED
    BY <2>1, <2>3
<1>6. QED
  BY <1>2, <1>3, <1>4, <1>5 DEF RiderReads, LoginFind, ForgotFind

LEMMA RiderReadsStep ==
  ASSUME HandlersOK, RiderInv, NEW t \in Requests, RiderReads(t)
  PROVE  RiderInv'
<1>1. RiderTypeOK' /\ UNCHANGED <<token, latest, uses, mailed>> /\ ResetKnows(req[t])'
  BY RiderReadsOne DEF RiderInv, RiderTypeOK, riderVars, ResetKnows
<1>2. QED
  BY <1>1, RiderReadsOne, RiderQuiet DEF Moves

LEMMA RiderWritesStep ==
  ASSUME HandlersOK, RiderInv, NEW t \in Requests, RiderWrites(t)
  PROVE  RiderInv' /\ HandlersOK' /\ Moves(t, Idle) /\ UNCHANGED overlapped
<1>1. RiderTyping(req[t])
  BY DEF RiderInv, RiderRequests
<1>2. /\ UNCHANGED <<token, latest, uses, lapsed, overlapped>> /\ mailed \subseteq mailed'
      /\ HandlersOK' /\ Moves(t, Idle)
  BY FinishMoves DEF RiderWrites, RegisterCreate, LoginSave, ProfileSave, ForgotMail, ChangeSave
<1>3. RiderTypeOK'
  <2> USE DEF RiderInv, RiderTypeOK, RiderTyping, RiderRequest, RiderOperations, At, MailingLink
  <2>1. CASE RegisterCreate(t)
    BY <1>1, <2>1 DEF RegisterCreate
  <2>2. CASE LoginSave(t) \/ ProfileSave(t)
    BY <1>1, <2>2 DEF LoginSave, ProfileSave
  <2>3. CASE ForgotMail(t) \/ ChangeSave(t)
    BY <1>1, <2>3 DEF ForgotMail, ChangeSave
  <2>4. QED
    BY <2>1, <2>2, <2>3 DEF RiderWrites
<1>4. RiderTyping(Idle) /\ ResetKnows(Idle)' /\ \A a : ~SettingPassword(Idle, a)
  BY IdleHasNoOperation DEF RiderTyping, RiderOperations, MailingLink, ResetKnows, Saves, Resetting,
       SettingPassword
<1>5. RiderInv'
  BY <1>2, <1>3, <1>4, RiderQuiet DEF Moves
<1>6. QED
  BY <1>2, <1>5

-----------------------------------------------------------------------------
(* A request that begins to set a password finds no other one at it, or their
   overlapping is remembered. *)
LEMMA ResetFindStep ==
  ASSUME HandlersOK, RiderInv, NEW t \in Requests, ResetFind(t)
  PROVE  RiderInv' /\ HandlersOK' /\ Moves(t, req'[t])
         /\ req'[t].op \in RiderOperations \cup {"none"} /\ overlapped \subseteq overlapped'
<1>1. /\ RiderTyping(req[t]) /\ ResetKnows(req[t]) /\ req[t] \in RiderRequest
      /\ req[t].op = "resetPassword" /\ req[t].token \in mailed /\ req[t].token \in Tokens
      /\ UNCHANGED riderVars
  BY DEF RiderInv, RiderRequests, ResetFind, At, RiderTyping, RiderOperations, ResetKnows
<1>2. CASE Finish(t) /\ UNCHANGED overlapped
  <2>1. HandlersOK' /\ Moves(t, Idle)
    BY <1>2, FinishMoves
  <2>2. RiderTyping(Idle) /\ ResetKnows(Idle)' /\ \A a : ~SettingPassword(Idle, a)
    BY IdleHasNoOperation DEF RiderTyping, RiderOperations, MailingLink, ResetKnows, Saves,
         Resetting, SettingPassword
  <2>3. RiderInv'
    BY <1>1, <1>2, <2>1, <2>2, RiderQuiet DEF Moves, riderVars, RiderInv, RiderTypeOK
  <2>4. QED
    BY <1>2, <2>1, <2>3, IdleHasNoOperation DEF Moves
<1>3. ASSUME NEW a \in Holders(req[t].token),
             Continue(t, [req[t] EXCEPT !.at = "save", !.id = a]),
             Overlap(t, "password", LAMBDA u : SettingPassword(u, a))
      PROVE  RiderInv' /\ HandlersOK' /\ Moves(t, req'[t])
             /\ req'[t].op \in RiderOperations \cup {"none"} /\ overlapped \subseteq overlapped'
  <2>1. a \in Accounts /\ token[a] = req[t].token
    BY DEF Holders
  <2>2. /\ HandlersOK' /\ Moves(t, req'[t])
        /\ req'[t] \in RiderRequest /\ req'[t].at = "save" /\ req'[t].id = a
        /\ req'[t].op = "resetPassword" /\ req'[t].token = req[t].token
        /\ req'[t].password = req[t].password
    BY <1>1, <1>3, <2>1, FoundOne
  <2>3. /\ overlapped \subseteq overlapped'
        /\ "password" \notin overlapped' =>
              \A u \in Requests \ {t} : ~SettingPassword(req[u], a)
        /\ "link" \notin overlapped' => "link" \notin overlapped
    BY <1>3 DEF Overlap
  <2>4. token[a] = latest[a] /\ latest[a] # None
    BY <1>1, <2>1, RiderAssumptions DEF RiderInv, TokenOwner
  <2>5. \A b \in Accounts \ {a} : req[t].token \notin {token[b], latest[b]}
    BY <2>1, <2>4 DEF RiderInv, TokenOwner
  <2>6. RiderTypeOK' /\ TokenOwner'
    BY <1>1 DEF RiderInv, RiderTypeOK, TokenOwner, riderVars
  <2>7. RiderTyping(req[t])' /\ ResetKnows(req[t])'
    BY <1>1, <2>1, <2>2, <2>5 DEF RiderTyping, RiderOperations, MailingLink, ResetKnows, Saves,
         Resetting, SettingPassword, riderVars
  <2>8. RiderRequests'
    BY <1>1, <2>2, <2>7 DEF RiderInv, RiderRequests, RiderTyping, ResetKnows, Moves, riderVars
  <2>9. \A u \in Requests \ {t} : req'[u] = req[u]
    BY <2>2 DEF Moves
  <2>10. \A b : SettingPassword(req'[t], b) <=> b = a
    BY <2>2 DEF SettingPassword
  <2>11. Saves(req'[t])
    BY <2>2 DEF Saves, Resetting, SettingPassword
  <2>12. UnusedInv'
    <3> SUFFICES ASSUME "password" \notin overlapped' PROVE UnusedInv'
      BY DEF UnusedInv
    <3>1. "password" \notin overlapped /\ \A u \in Requests \ {t} : ~SettingPassword(req[u], a)
      BY <2>3
    <3>2. \A u \in Requests \ {t} : Saves(req[u]) => req[u].token # req[t].token
      <4> SUFFICES ASSUME NEW u \in Requests \ {t}, Saves(req[u]), req[u].token = req[t].token
                   PROVE  FALSE
        OBVIOUS
      <4>1. req[u].id = a
        BY <2>1 DEF RiderInv, RiderRequests, ResetKnows
      <4>2. QED
        BY <3>1, <4>1 DEF Saves, Resetting
    <3>3. uses[req[t].token] = 0
      BY <1>1, <2>1, <2>4, <3>1 DEF RiderInv, UnusedInv
    <3>4. \A u, v \in Requests, b \in Accounts :
             SettingPassword(req'[u], b) /\ SettingPassword(req'[v], b) => u = v
      BY <2>9, <2>10, <3>1 DEF RiderInv, UnusedInv
    <3>5. \A u \in Requests : Saves(req'[u]) => uses[req'[u].token] = 0
      BY <2>2, <2>9, <3>1, <3>3 DEF RiderInv, UnusedInv
    <3>6. \A u, v \in Requests :
             Saves(req'[u]) /\ Saves(req'[v]) /\ req'[u].token = req'[v].token => u = v
      BY <2>2, <2>9, <3>1, <3>2 DEF RiderInv, UnusedInv
    <3>7. QED
      BY <1>1, <3>1, <3>4, <3>5, <3>6 DEF RiderInv, UnusedInv, riderVars
  <2>13. LinkInv'
    BY <1>1, <2>1, <2>2, <2>3, <2>4, <2>9 DEF RiderInv, LinkInv, riderVars
  <2>14. QED
    BY <2>2, <2>3, <2>6, <2>8, <2>12, <2>13 DEF RiderInv, RiderOperations
<1>4. QED
  BY <1>2, <1>3 DEF ResetFind

LEMMA ChangeFindStep ==
  ASSUME HandlersOK, RiderInv, NEW t \in Requests, ChangeFind(t)
  PROVE  RiderInv' /\ HandlersOK' /\ Moves(t, req'[t])
         /\ req'[t].op \in RiderOperations \cup {"none"} /\ overlapped \subseteq overlapped'
<1> DEFINE a == req[t].id
<1>1. /\ req[t] \in RiderRequest /\ req[t].op = "changePassword" /\ a \in Accounts
      /\ req[t].password \in Passwords
      /\ UNCHANGED riderVars
  BY DEF RiderInv, RiderRequests, ChangeFind, At, RiderTyping, RiderOperations
<1>2. /\ HandlersOK' /\ Moves(t, req'[t])
      /\ RiderTyping(req'[t]) /\ ResetKnows(req'[t]) /\ ~Saves(req'[t])
      /\ \A b : SettingPassword(req'[t], b) => b = a
      /\ req'[t].op \in RiderOperations \cup {"none"}
  BY <1>1 DEF ChangeFind, RiderRequest, RiderTyping, RiderOperations, MailingLink, ResetKnows, Saves,
       Resetting, SettingPassword, HandlersOK, Moves, Continue, Finish, Idle
<1>3. /\ overlapped \subseteq overlapped'
      /\ "link" \notin overlapped' => "link" \notin overlapped
      /\ "password" \notin overlapped' =>
            \/ \A b : ~SettingPassword(req'[t], b)
            \/ \A u \in Requests \ {t} : ~SettingPassword(req[u], a)
  <2>1. CASE Finish(t) /\ UNCHANGED overlapped
    BY <2>1, FinishMoves, IdleHasNoOperation DEF Moves, SettingPassword
  <2>2. CASE Overlap(t, "password", LAMBDA u : SettingPassword(u, a))
    BY <2>2 DEF Overlap
  <2>3. QED
    BY <2>1, <2>2 DEF ChangeFind
<1>4. RiderTypeOK' /\ TokenOwner' /\ RiderRequests'
  BY <1>1, <1>2 DEF RiderInv, RiderTypeOK, TokenOwner, RiderRequests, RiderTyping, ResetKnows, Moves,
       riderVars
<1>5. \A u \in Requests : Saves(req'[u]) => u # t /\ req'[u] = req[u]
  BY <1>2 DEF Moves
<1>6. UnusedInv'
  <2> SUFFICES ASSUME "password" \notin overlapped' PROVE UnusedInv'
    BY DEF UnusedInv
  <2>1. "password" \notin overlapped
    BY <1>3
  <2>2. \A u, v \in Requests, b \in Accounts :
           SettingPassword(req'[u], b) /\ SettingPassword(req'[v], b) => u = v
    BY <1>2, <1>3, <2>1 DEF RiderInv, UnusedInv, Moves
  <2>3. QED
    BY <1>1, <1>5, <2>1, <2>2 DEF RiderInv, UnusedInv, riderVars
<1>7. LinkInv'
  BY <1>1, <1>3, <1>5 DEF RiderInv, LinkInv, riderVars
<1>8. QED
  BY <1>2, <1>3, <1>4, <1>6, <1>7 DEF RiderInv

(* A new token is nobody's: no account has or had it, and no reset holds it. *)
LEMMA ForgotSaveStep ==
  ASSUME HandlersOK, RiderInv, NEW t \in Requests, ForgotSave(t)
  PROVE  RiderInv' /\ HandlersOK' /\ Moves(t, req'[t])
         /\ req'[t].op \in RiderOperations \cup {"none"} /\ overlapped \subseteq overlapped'
<1> DEFINE a == req[t].id
<1>1. PICK k \in Fresh(Unissued) :
         /\ Continue(t, [req[t] EXCEPT !.at = "mail", !.token = k])
         /\ token' = [token EXCEPT ![a] = k]
         /\ latest' = [latest EXCEPT ![a] = k]
  BY DEF ForgotSave
<1>2. /\ k \in Tokens /\ k \notin mailed /\ uses[k] = 0 /\ k # None
      /\ \A b \in Accounts : k \notin {token[b], latest[b]}
  BY <1>1, FreshIsFree, RiderAssumptions DEF Unissued
<1>3. /\ req[t] \in RiderRequest /\ req[t].op = "forgotPassword" /\ a \in Accounts
      /\ UNCHANGED <<email, password, lapsed, signedIn, mailed, uses>>
  BY DEF RiderInv, RiderRequests, ForgotSave, At, RiderTyping, RiderOperations
<1>4. /\ HandlersOK' /\ Moves(t, req'[t])
      /\ req'[t] \in RiderRequest /\ req'[t].op = "forgotPassword" /\ req'[t].at = "mail"
      /\ req'[t].token = k /\ req'[t].id = a
  <2> DEFINE s == [req[t] EXCEPT !.at = "mail", !.token = k]
  <2>1. /\ s \in RiderRequest /\ s.op = req[t].op /\ s.at = "mail" /\ s.token = k /\ s.id = a
        /\ "op" \in DOMAIN s
    BY <1>2, <1>3 DEF RiderRequest
  <2>2. HandlersOK' /\ Moves(t, s)
    BY <1>1, <2>1, ContinueMoves
  <2>3. QED
    BY <1>3, <2>1, <2>2 DEF Moves
<1>5. /\ overlapped \subseteq overlapped'
      /\ "password" \notin overlapped' => "password" \notin overlapped
      /\ "link" \notin overlapped' =>
            /\ "link" \notin overlapped
            /\ \A u \in Requests \ {t} : ~Resetting(req[u], a)
  BY DEF ForgotSave, Overlap
<1>6. /\ \A b : ~SettingPassword(req'[t], b)
      /\ \A u \in Requests : Saves(req'[u]) => u # t /\ req'[u] = req[u]
  BY <1>4 DEF Moves, Saves, Resetting, SettingPassword
<1>7. \A u \in Requests : Saves(req[u]) => req[u].token # k
  BY <1>2 DEF RiderInv, RiderRequests, ResetKnows, Saves, Resetting
<1>8. RiderTypeOK' /\ TokenOwner'
  BY <1>1, <1>2, <1>3 DEF RiderInv, RiderTypeOK, TokenOwner
<1>9. RiderRequests'
  <2>1. RiderTyping(req[t])' /\ ResetKnows(req[t])'
    BY <1>2, <1>3, <1>4, <1>6 DEF RiderTyping, MailingLink, ResetKnows
  <2>2. \A u \in Requests \ {t} : RiderTyping(req[u])' /\ ResetKnows(req[u])'
    BY <1>1, <1>3, <1>4, <1>7
       DEF RiderInv, RiderTypeOK, RiderRequests, RiderTyping, MailingLink, ResetKnows, Saves,
           Resetting, SettingPassword, Moves
  <2>3. QED
    BY <2>1, <2>2 DEF RiderRequests
<1>10. UnusedInv'
  BY <1>1, <1>2, <1>3, <1>4, <1>5, <1>6 DEF RiderInv, RiderTypeOK, UnusedInv, Moves
<1>11. LinkInv'
  <2> SUFFICES ASSUME "link" \notin overlapped' PROVE LinkInv'
    BY DEF LinkInv
  <2>1. \A u \in Requests : Saves(req'[u]) => req'[u].token = latest'[req'[u].id]
    BY <1>1, <1>3, <1>5, <1>6 DEF RiderInv, RiderTypeOK, LinkInv, Saves, Resetting
  <2>2. \A b \in Accounts : latest'[b] # None /\ uses'[latest'[b]] = 0 => token'[b] = latest'[b]
    BY <1>1, <1>3, <1>5 DEF RiderInv, RiderTypeOK, LinkInv
  <2>3. QED
    BY <2>1, <2>2 DEF LinkInv
<1>12. QED
  BY <1>4, <1>5, <1>8, <1>9, <1>10, <1>11 DEF RiderInv, RiderOperations

(* The reset uses its token, which no account and no other reset has then. *)
LEMMA ResetSaveStep ==
  ASSUME HandlersOK, RiderInv, NEW t \in Requests, ResetSave(t)
  PROVE  RiderInv' /\ HandlersOK' /\ Moves(t, Idle) /\ UNCHANGED overlapped
<1> DEFINE a == req[t].id
           k == req[t].token
<1>1. /\ a \in Accounts /\ k \in Tokens /\ k \in mailed /\ req[t].password \in Passwords
      /\ Saves(req[t])
      /\ \A b \in Accounts \ {a} : k \notin {token[b], latest[b]}
  BY DEF RiderInv, RiderRequests, ResetSave, At, RiderTyping, RiderOperations, ResetKnows, Saves,
         Resetting, SettingPassword
<1>2. /\ token' = [token EXCEPT ![a] = None]
      /\ uses' = [uses EXCEPT ![k] = @ + 1]
      /\ password' = [password EXCEPT ![a] = req[t].password]
      /\ UNCHANGED <<email, lapsed, signedIn, mailed, latest, overlapped>>
      /\ HandlersOK' /\ Moves(t, Idle)
  BY FinishMoves DEF ResetSave
<1>3. RiderTypeOK' /\ TokenOwner'
  BY <1>1, <1>2 DEF RiderInv, RiderTypeOK, TokenOwner
<1>4. /\ RiderTyping(Idle) /\ ResetKnows(Idle)' /\ ~Saves(Idle)
      /\ \A b : ~SettingPassword(Idle, b)
  BY IdleHasNoOperation DEF RiderTyping, RiderOperations, MailingLink, ResetKnows, Saves, Resetting,
       SettingPassword
<1>5. RiderRequests'
  <2>1. \A u \in Requests \ {t} : RiderTyping(req[u])' /\ ResetKnows(req[u])'
    BY <1>1, <1>2, RiderAssumptions
       DEF RiderInv, RiderTypeOK, RiderRequests, RiderTyping, MailingLink, ResetKnows, Saves,
           Resetting, SettingPassword, Moves
  <2>2. QED
    BY <1>2, <1>4, <2>1 DEF RiderRequests, RiderTyping, ResetKnows, MailingLink, Moves
<1>6. UnusedInv'
  <2> SUFFICES ASSUME "password" \notin overlapped PROVE UnusedInv'
    BY <1>2 DEF UnusedInv
  <2>1. uses[k] = 0 /\ \A u \in Requests \ {t} : Saves(req[u]) => req[u].token # k
    BY <1>1 DEF RiderInv, UnusedInv
  <2>2. \A b \in Accounts : token'[b] # None => token[b] = token'[b] /\ token[b] # k
    BY <1>1, <1>2 DEF RiderInv, RiderTypeOK
  <2>3. \A b \in Accounts : token'[b] # None => uses'[token'[b]] = 0
    BY <1>2, <2>2 DEF RiderInv, RiderTypeOK, UnusedInv
  <2>4. \A u \in Requests : Saves(req'[u]) => u # t /\ req'[u] = req[u]
    BY <1>2, <1>4 DEF Moves
  <2>5. \A u \in Requests : Saves(req'[u]) => uses'[req'[u].token] = 0
    BY <1>2, <2>1, <2>4 DEF RiderInv, RiderTypeOK, UnusedInv
  <2>6. \A j \in Tokens : uses'[j] <= 1
    BY <1>1, <1>2, <2>1 DEF RiderInv, RiderTypeOK, UnusedInv
  <2>7. \A u, v \in Requests, b \in Accounts :
           SettingPassword(req'[u], b) /\ SettingPassword(req'[v], b) => u = v
    BY <1>2, <1>4 DEF RiderInv, UnusedInv, Moves
  <2>8. QED
    BY <2>3, <2>4, <2>5, <2>6, <2>7 DEF RiderInv, UnusedInv
<1>7. LinkInv'
  <2> SUFFICES ASSUME "link" \notin overlapped PROVE LinkInv'
    BY <1>2 DEF LinkInv
  <2>1. \A u \in Requests : Saves(req'[u]) => req'[u].token = latest'[req'[u].id]
    BY <1>2, <1>4 DEF RiderInv, LinkInv, Moves
  <2>2. k = latest[a]
    BY <1>1 DEF RiderInv, LinkInv
  <2>3. ASSUME NEW b \in Accounts, latest[b] # None, uses'[latest[b]] = 0
        PROVE  token'[b] = latest[b]
    <3>1. latest[b] \in Tokens /\ latest[b] # k /\ uses[latest[b]] = 0
      BY <1>1, <1>2, <2>3 DEF RiderInv, RiderTypeOK
    <3>2. QED
      BY <1>2, <2>2, <2>3, <3>1 DEF RiderInv, RiderTypeOK, LinkInv
  <2>4. QED
    BY <1>2, <2>1, <2>3 DEF LinkInv
<1>8. QED
  BY <1>2, <1>3, <1>5, <1>6, <1>7 DEF RiderInv

LEMMA LapseStep ==
  ASSUME RiderInv, NEW k \in Tokens, Lapse(k)
  PROVE  RiderInv'
<1>1. /\ UNCHANGED <<token, latest, uses, mailed, req, overlapped>>
      /\ RiderTypeOK'
  BY DEF Lapse, handlers, RiderInv, RiderTypeOK
<1>2. QED
  BY <1>1, RiderQuiet

LEMMA RiderAsideStep ==
  ASSUME RiderInv, RiderAside
  PROVE  RiderInv'
<1>1. /\ UNCHANGED <<token, latest, uses, mailed>> /\ overlapped \subseteq overlapped'
      /\ RiderTypeOK'
  BY DEF RiderAside, Foreign, riderVars, RiderInv, RiderTypeOK
<1>2. \A t \in Requests : \/ req'[t] = req[t]
                          \/ /\ RiderTyping(req'[t]) /\ ResetKnows(req[t])'
                             /\ \A a : ~SettingPassword(req'[t], a)
  BY DEF RiderAside, Foreign, RiderTyping, RiderOperations, MailingLink, ResetKnows, Saves,
         Resetting, SettingPassword
<1>3. QED
  BY <1>1, <1>2, RiderQuiet

-----------------------------------------------------------------------------
(* What the rest of the process sees of a step of these accounts. *)
LEMMA RiderStepOf ==
  ASSUME HandlersOK, RiderInv, RiderNext
  PROVE  HandlersOK' /\ StepOf(RiderOperations)
<1>1. ASSUME NEW t \in Requests, RiderStep(t)
      PROVE  /\ HandlersOK' /\ Moves(t, req'[t])
             /\ {req[t].op, req'[t].op} \subseteq RiderOperations \cup {"none"}
             /\ overlapped \subseteq overlapped'
  <2>1. req[t].op \in RiderOperations \cup {"none"}
    BY <1>1, IdleHasNoOperation
       DEF RiderStep, RiderStart, RegisterFind, RegisterCreate, LoginFind, LoginSave, ProfileFind,
           ProfileDuplicate, ProfileSave, ForgotFind, ForgotSave, ForgotMail, ResetFind, ResetSave,
           ChangeFind, ChangeSave, At, Start, RiderOperations
  <2>2. CASE RiderReads(t)
    BY <2>1, <2>2, RiderReadsOne
  <2>3. CASE RiderWrites(t) \/ ResetSave(t)
    BY <2>1, <2>3, RiderWritesStep, ResetSaveStep, IdleHasNoOperation DEF Moves
  <2>4. CASE ResetFind(t) \/ ChangeFind(t) \/ ForgotSave(t)
    BY <2>1, <2>4, ResetFindStep, ChangeFindStep, ForgotSaveStep
  <2>5. QED
    BY <1>1, <2>1, <2>2, <2>3, <2>4 DEF RiderStep, RiderReads, RiderWrites
<1>2. ASSUME NEW k \in Tokens, Lapse(k)
      PROVE  HandlersOK' /\ StepOf(RiderOperations)
  BY <1>2 DEF Lapse, handlers, HandlersOK, StepOf
<1>3. QED
  BY <1>1, <1>2 DEF RiderNext, Moves, StepOf

LEMMA RiderInvStep ==
  ASSUME HandlersOK, RiderInv, RiderNext \/ RiderAside
  PROVE  RiderInv'
<1>1. ASSUME NEW t \in Requests, RiderStep(t) PROVE RiderInv'
  BY <1>1, RiderReadsStep, RiderWritesStep, ResetFindStep, ChangeFindStep, ForgotSaveStep,
     ResetSaveStep DEF RiderStep, RiderReads, RiderWrites
<1>2. QED
  BY <1>1, LapseStep, RiderAsideStep DEF RiderNext

(* What the two properties say of it. *)
LEMMA RiderInvImplies == RiderInv => TokenUsedOnce /\ LatestLinkWorks
BY RiderAssumptions DEF RiderInv, RiderTypeOK, UnusedInv, LinkInv, TokenUsedOnce, LatestLinkWorks

-----------------------------------------------------------------------------
(* Bookings of trips: what Paystack was paid, what a booking says of it, and what
   Paystack was told. *)

(* What a request carries. *)
RequestTyping(r) ==
    /\ r.op = "createUserBooking" =>
          r \in [op : {"createUserBooking"}, at : {"count", "insert"},
                 departure : Departures, seats : Nat]
    /\ r.op = "initializePayment" =>
          r \in [op : {"initializePayment"}, at : {"find", "open", "save"},
                 id : TripBookings, ref : References \cup {None}]
    /\ r.op = "webhook" =>
          r \in [op : {"webhook"}, at : {"find", "update", "log"},
                 id : TripBookings, ref : References]
    /\ r.op = "verifyPayment" =>
          r \in [op : {"verifyPayment"}, at : {"charge", "find", "save"},
                 id : TripBookings, ref : References]

Storing(r) == r.op = "initializePayment" /\ r.at = "save"

(* What a request has found out about its reference, and nobody takes back. *)
RequestKnows(r) ==
    /\ Storing(r) => r.ref \in References \ offered /\ opened[r.ref] = r.id
    /\ r.op = "webhook" => charge[r.ref] # "none" /\ opened[r.ref] = r.id
    /\ r.op = "webhook" /\ r.at \in {"update", "log"} => charge[r.ref] = "full"
    /\ r.op = "webhook" /\ r.at = "log" => r.id \in bookingPaid
    /\ r.op = "verifyPayment" => r.ref \in offered /\ opened[r.ref] = r.id
    /\ r.op = "verifyPayment" /\ r.at = "find" => charge[r.ref] # "none"
    /\ r.op = "verifyPayment" /\ r.at = "save" => charge[r.ref] = "full"

LegacyRequests == \A t \in Requests : RequestTyping(req[t]) /\ RequestKnows(req[t])

(* Every initialization has a transaction of its own. *)
OwnReference ==
    \A t, u \in Requests :
        Storing(req[t]) /\ Storing(req[u]) /\ req[t].ref = req[u].ref => t = u

(* A transaction is opened, then stored with its booking and offered, then paid,
   then answered. *)
TransactionOrder ==
    /\ \A k \in offered : opened[k] # None
    /\ \A k \in References : charge[k] # "none" => k \in offered
    /\ \A b \in TripBookings : paymentReference[b] # None =>
          paymentReference[b] \in offered /\ opened[paymentReference[b]] = b
    /\ \A k \in answered : charge[k] # "none"

LegacyInv ==
    /\ LegacyTypeOK /\ LegacyRequests /\ OwnReference /\ TransactionOrder
    /\ LegacyPaidWasCharged /\ LegacyAnsweredIsPaid

(* Anything else the process does. *)
LegacyAside == Foreign(LegacyOperations) /\ UNCHANGED legacyVars

-----------------------------------------------------------------------------
LEMMA LegacyInvInit == HandlersInit /\ LegacyInit => LegacyInv
<1> SUFFICES ASSUME HandlersInit, LegacyInit PROVE LegacyInv
  OBVIOUS
<1>1. LegacyTypeOK /\ TransactionOrder /\ LegacyPaidWasCharged /\ LegacyAnsweredIsPaid
  BY DEF LegacyInit, LegacyTypeOK, TransactionOrder, LegacyPaidWasCharged, LegacyAnsweredIsPaid
<1>2. LegacyRequests /\ OwnReference
  BY IdleHasNoOperation
     DEF HandlersInit, LegacyRequests, RequestTyping, RequestKnows, OwnReference, Storing
<1>3. QED
  BY <1>1, <1>2 DEF LegacyInv

(* A step that writes no document and no transaction. *)
LegacyReads(t) ==
    \/ TripAsk(t) \/ TripCount(t) \/ PayAsk(t) \/ PayFind(t)
    \/ HookAsk(t) \/ VerifyAsk(t) \/ ReconcileBookings(t) \/ VerifyCharged(t) \/ VerifyFind(t)

(* Its request carries on with what it has just read. *)
LEMMA LegacyReadsOne ==
  ASSUME HandlersOK, LegacyInv, NEW t \in Requests, LegacyReads(t)
  PROVE  /\ UNCHANGED legacyVars
         /\ HandlersOK' /\ Moves(t, req'[t])
         /\ RequestTyping(req'[t]) /\ RequestKnows(req'[t]) /\ ~Storing(req'[t])
         /\ req'[t].op \in LegacyOperations \cup {"none"}
         /\ overlapped \subseteq overlapped'
<1> USE DEF HandlersOK, Moves, Start, Continue, Finish, Idle, RequestTyping, RequestKnows, Storing,
            LegacyOperations, LegacyAsked, At
<1>1. RequestTyping(req[t]) /\ RequestKnows(req[t])
  BY DEF LegacyInv, LegacyRequests
<1>2. CASE TripAsk(t)
  BY <1>1, <1>2, LegacyAssumptions DEF TripAsk
<1>3. CASE TripCount(t)
  BY <1>1, <1>3 DEF TripCount, Overlap
<1>4. CASE PayAsk(t)
  BY <1>1, <1>4 DEF PayAsk, Made
<1>5. CASE PayFind(t)
  BY <1>1, <1>5 DEF PayFind
<1>6. CASE HookAsk(t)
  BY <1>1, <1>6 DEF HookAsk, LegacyInv, LegacyTypeOK, TransactionOrder
<1>7. CASE VerifyAsk(t)
  BY <1>1, <1>7 DEF VerifyAsk, LegacyInv, LegacyTypeOK, TransactionOrder
<1>8. CASE ReconcileBookings(t)
  BY <1>1, <1>8 DEF ReconcileBookings, Made, LegacyInv, LegacyTypeOK, TransactionOrder
<1>9. CASE VerifyCharged(t)
  BY <1>1, <1>9 DEF VerifyCharged
<1>10. CASE VerifyFind(t)
  BY <1>1, <1>10 DEF VerifyFind, VerifyDeclined, LegacyInv, LegacyTypeOK
<1>11. QED
  BY <1>2, <1>3, <1>4, <1>5, <1>6, <1>7, <1>8, <1>9, <1>10 DEF LegacyReads

LEMMA LegacyReadsStep ==
  ASSUME HandlersOK, LegacyInv, NEW t \in Requests, LegacyReads(t)
  PROVE  LegacyInv'
<1> USE LegacyReadsOne
<1>1. LegacyTypeOK' /\ TransactionOrder' /\ LegacyPaidWasCharged' /\ LegacyAnsweredIsPaid'
  BY DEF LegacyInv, LegacyTypeOK, TransactionOrder, LegacyPaidWasCharged, LegacyAnsweredIsPaid,
         legacyVars, documents, paystack
<1>2. \A u \in Requests : RequestTyping(req'[u]) /\ RequestKnows(req'[u])
  BY DEF LegacyInv, LegacyRequests, Moves
<1>3. LegacyRequests' /\ OwnReference'
  BY <1>2 DEF LegacyInv, LegacyRequests, RequestTyping, RequestKnows, OwnReference, Storing, Moves,
         legacyVars, documents, paystack
<1>4. QED
  BY <1>1, <1>3 DEF LegacyInv

-----------------------------------------------------------------------------
(* The steps that write: the insertion, and what becomes of a transaction. *)
LegacyWrites(t) ==
    TripInsert(t) \/ PayOpen(t) \/ PaySave(t) \/ HookFind(t) \/ HookUpdate(t) \/ HookLog(t)
        \/ VerifySave(t)

(* Such a step moves its own request alone, too. *)
LEMMA LegacyWritesOne ==
  ASSUME HandlersOK, LegacyInv, NEW t \in Requests, LegacyWrites(t)
  PROVE  /\ HandlersOK' /\ Moves(t, req'[t])
         /\ RequestTyping(req'[t])
         /\ req'[t].op \in LegacyOperations \cup {"none"}
         /\ overlapped \subseteq overlapped'
<1> USE DEF HandlersOK, Moves, Continue, Finish, Idle, RequestTyping, LegacyOperations, At
<1>1. RequestTyping(req[t])
  BY DEF LegacyInv, LegacyRequests
<1>2. CASE PayOpen(t)
  <2>1. PICK k \in Fresh({k \in References : opened[k] = None}) :
           Continue(t, [req[t] EXCEPT !.at = "save", !.ref = k])
    BY <1>2 DEF PayOpen
  <2>2. k \in References
    BY <2>1, FreshIsFree
  <2>3. QED
    BY <1>1, <1>2, <2>1, <2>2 DEF PayOpen
<1>3. CASE TripInsert(t) \/ PaySave(t) \/ HookLog(t) \/ VerifySave(t)
  BY <1>1, <1>3 DEF TripInsert, PaySave, HookLog, VerifySave
<1>4. CASE HookFind(t) \/ HookUpdate(t)
  BY <1>1, <1>4 DEF HookFind, HookUpdate
<1>5. QED
  BY <1>2, <1>3, <1>4 DEF LegacyWrites

LEMMA TripInsertStep ==
  ASSUME HandlersOK, LegacyInv, NEW t \in Requests, TripInsert(t)
  PROVE  LegacyInv'
<1> USE LegacyWritesOne DEF LegacyWrites
<1>1. req'[t] = Idle /\ UNCHANGED <<bookingPaid, paymentReference, loggedPayments, paystack>>
  BY DEF TripInsert, Finish, Continue, HandlersOK
<1>2. LegacyTypeOK'
  BY <1>1 DEF LegacyInv, LegacyTypeOK, TripInsert, At, LegacyRequests, RequestTyping, paystack
<1>3. TransactionOrder' /\ LegacyPaidWasCharged' /\ LegacyAnsweredIsPaid'
  BY <1>1 DEF LegacyInv, TransactionOrder, LegacyPaidWasCharged, LegacyAnsweredIsPaid, paystack
<1>4. LegacyRequests' /\ OwnReference'
  BY <1>1, IdleHasNoOperation DEF LegacyInv, LegacyRequests, RequestTyping, RequestKnows, OwnReference,
       Storing, Moves, paystack
<1>5. QED
  BY <1>2, <1>3, <1>4 DEF LegacyInv

(* Paystack's new transaction is nobody else's. *)
LEMMA PayOpenStep ==
  ASSUME HandlersOK, LegacyInv, NEW t \in Requests, PayOpen(t)
  PROVE  LegacyInv'
<1> USE LegacyWritesOne DEF LegacyWrites
<1>1. PICK k \in Fresh({k \in References : opened[k] = None}) :
         /\ opened' = [opened EXCEPT ![k] = req[t].id]
         /\ Continue(t, [req[t] EXCEPT !.at = "save", !.ref = k])
  BY DEF PayOpen
<1>2. k \in References /\ opened[k] = None
  BY <1>1, FreshIsFree
<1>3. k \notin offered /\ charge[k] = "none" /\ req[t].id \in TripBookings
  BY <1>2 DEF LegacyInv, LegacyTypeOK, TransactionOrder, LegacyRequests, RequestTyping, PayOpen, At
<1>4. Storing(req'[t]) /\ req'[t].ref = k /\ req'[t].id = req[t].id
  <2>1. req[t] \in [op : {"initializePayment"}, at : {"find", "open", "save"},
                    id : TripBookings, ref : References \cup {None}]
    BY DEF PayOpen, At, LegacyInv, LegacyRequests, RequestTyping
  <2>2. req'[t] = [req[t] EXCEPT !.at = "save", !.ref = k]
    BY <1>1 DEF Continue, HandlersOK
  <2>3. QED
    BY <2>1, <2>2 DEF Storing
<1>5. UNCHANGED <<documents, offered, charge, answered>>
  BY DEF PayOpen
<1>6. LegacyTypeOK' /\ TransactionOrder' /\ LegacyPaidWasCharged' /\ LegacyAnsweredIsPaid'
  BY <1>1, <1>2, <1>3, <1>5
     DEF LegacyInv, LegacyTypeOK, TransactionOrder, LegacyPaidWasCharged, LegacyAnsweredIsPaid,
         documents
<1>7. \A u \in Requests \ {t} : RequestKnows(req[u])' /\ (Storing(req[u]) => req[u].ref # k)
  <2> SUFFICES ASSUME NEW u \in Requests \ {t}
               PROVE  RequestKnows(req[u])' /\ (Storing(req[u]) => req[u].ref # k)
    OBVIOUS
  <2>1. RequestKnows(req[u]) /\ RequestTyping(req[u]) /\ req'[u] = req[u]
    BY DEF LegacyInv, LegacyRequests, Moves
  <2>2. QED
    BY <1>1, <1>2, <1>3, <1>5, <2>1, LegacyAssumptions
       DEF LegacyInv, LegacyTypeOK, RequestTyping, RequestKnows, Storing, documents
<1>8. RequestKnows(req[t])'
  BY <1>1, <1>2, <1>3, <1>4, <1>5 DEF RequestKnows, Storing, LegacyInv, LegacyTypeOK
<1>9. LegacyRequests' /\ OwnReference'
  BY <1>4, <1>7, <1>8
     DEF LegacyInv, LegacyRequests, RequestTyping, OwnReference, Moves, Storing
<1>10. QED
  BY <1>6, <1>9 DEF LegacyInv

(* A transaction is offered once, by the request that opened it. *)
LEMMA PaySaveStep ==
  ASSUME HandlersOK, LegacyInv, NEW t \in Requests, PaySave(t)
  PROVE  LegacyInv'
<1> DEFINE b == req[t].id
           k == req[t].ref
<1> USE LegacyWritesOne DEF LegacyWrites
<1>1. /\ req'[t] = Idle
      /\ paymentReference' = [paymentReference EXCEPT ![b] = k]
      /\ offered' = offered \cup {k}
      /\ UNCHANGED <<departure, passengers, bookingPaid, loggedPayments, opened, charge, answered>>
  BY DEF PaySave, Finish, Continue, HandlersOK
<1>2. b \in TripBookings /\ k \in References \ offered /\ opened[k] = b
  BY DEF PaySave, At, LegacyInv, LegacyRequests, RequestTyping, RequestKnows, Storing
<1>3. k \notin answered /\ charge[k] = "none" /\ k # None
  BY <1>2, LegacyAssumptions DEF LegacyInv, LegacyTypeOK, TransactionOrder
<1>4. LegacyTypeOK' /\ TransactionOrder' /\ LegacyPaidWasCharged'
  BY <1>1, <1>2, LegacyAssumptions DEF LegacyInv, LegacyTypeOK, TransactionOrder, LegacyPaidWasCharged
<1>5. LegacyAnsweredIsPaid'
  BY <1>1, <1>3 DEF LegacyInv, LegacyTypeOK, LegacyAnsweredIsPaid
<1>6. Storing(req[t])
  BY DEF PaySave, At, Storing
<1>7. \A u \in Requests \ {t} : Storing(req[u]) => req[u].ref # k
  BY <1>6 DEF LegacyInv, OwnReference
<1>8. LegacyRequests' /\ OwnReference'
  BY <1>1, <1>7, IdleHasNoOperation
     DEF LegacyInv, LegacyRequests, RequestTyping, RequestKnows, OwnReference, Storing, Moves
<1>9. QED
  BY <1>4, <1>5, <1>8 DEF LegacyInv

(* What the webhook ignores is not the reference of its booking, or no full
   charge, and never will be. *)
LEMMA HookFindStep ==
  ASSUME HandlersOK, LegacyInv, NEW t \in Requests, HookFind(t)
  PROVE  LegacyInv'
<1> DEFINE b == req[t].id
           k == req[t].ref
<1> USE LegacyWritesOne DEF LegacyWrites
<1>1. /\ UNCHANGED <<documents, opened, offered, charge>>
      /\ ~Storing(req'[t])
      /\ \/ UNCHANGED answered
         \/ answered' = answered \cup {k} /\ ~(paymentReference[b] = k /\ charge[k] = "full")
  BY DEF HookFind, At, Finish, Continue, HandlersOK, Idle, Storing
<1>2. /\ b \in TripBookings /\ k \in References /\ opened[k] = b /\ charge[k] # "none"
      /\ req[t].op = "webhook"
  BY DEF HookFind, At, LegacyInv, LegacyRequests, RequestTyping, RequestKnows
<1>3. LegacyTypeOK' /\ TransactionOrder' /\ LegacyPaidWasCharged' /\ LegacyAnsweredIsPaid'
  BY <1>1, <1>2
     DEF LegacyInv, LegacyTypeOK, TransactionOrder, LegacyPaidWasCharged, LegacyAnsweredIsPaid,
         documents
<1>4. RequestKnows(req[t])'
  BY <1>1, <1>2 DEF HookFind, At, Finish, Continue, HandlersOK, Idle, Storing, RequestKnows,
       RequestTyping, LegacyInv, LegacyRequests, documents
<1>5. LegacyRequests' /\ OwnReference'
  BY <1>1, <1>4
     DEF LegacyInv, LegacyRequests, RequestTyping, RequestKnows, OwnReference, Storing, Moves,
         documents
<1>6. QED
  BY <1>3, <1>5 DEF LegacyInv

(* A booking becomes paid by a request that has seen its full charge. *)
LEMMA PaidStep ==
  ASSUME HandlersOK, LegacyInv, NEW t \in Requests, HookUpdate(t) \/ VerifySave(t)
  PROVE  LegacyInv'
<1> DEFINE b == req[t].id
           k == req[t].ref
<1> USE LegacyWritesOne DEF LegacyWrites
<1>1. RequestTyping(req[t]) /\ RequestKnows(req[t])
  BY DEF LegacyInv, LegacyRequests
<1>2. b \in TripBookings /\ k \in References /\ opened[k] = b /\ charge[k] = "full"
  BY <1>1 DEF HookUpdate, VerifySave, At, RequestTyping, RequestKnows
<1>3. /\ bookingPaid' = bookingPaid \cup {b}
      /\ UNCHANGED <<departure, passengers, paymentReference, loggedPayments, paystack>>
  BY DEF HookUpdate, VerifySave
<1>4. RequestKnows(req[t])' /\ ~Storing(req'[t])
  BY <1>1, <1>2, <1>3
     DEF HookUpdate, VerifySave, At, Finish, Continue, HandlersOK, Idle, Storing, RequestKnows,
         RequestTyping, paystack
<1>5. LegacyTypeOK' /\ TransactionOrder' /\ LegacyPaidWasCharged' /\ LegacyAnsweredIsPaid'
  BY <1>2, <1>3
     DEF LegacyInv, LegacyTypeOK, TransactionOrder, LegacyPaidWasCharged, LegacyAnsweredIsPaid,
         paystack
<1>6. LegacyRequests' /\ OwnReference'
  BY <1>3, <1>4
     DEF LegacyInv, LegacyRequests, RequestTyping, RequestKnows, OwnReference, Storing, Moves,
         paystack
<1>7. QED
  BY <1>5, <1>6 DEF LegacyInv

LEMMA HookLogStep ==
  ASSUME HandlersOK, LegacyInv, NEW t \in Requests, HookLog(t)
  PROVE  LegacyInv'
<1> DEFINE k == req[t].ref
<1> USE LegacyWritesOne DEF LegacyWrites
<1>1. /\ k \in References /\ opened[k] = req[t].id /\ charge[k] = "full"
      /\ req[t].id \in bookingPaid
  BY DEF HookLog, At, LegacyInv, LegacyRequests, RequestTyping, RequestKnows
<1>2. /\ req'[t] = Idle
      /\ loggedPayments' = loggedPayments \cup {k} /\ answered' = answered \cup {k}
      /\ UNCHANGED <<departure, passengers, bookingPaid, paymentReference, opened, offered, charge>>
  BY DEF HookLog, Finish, Continue, HandlersOK
<1>3. LegacyTypeOK' /\ TransactionOrder' /\ LegacyPaidWasCharged' /\ LegacyAnsweredIsPaid'
  BY <1>1, <1>2
     DEF LegacyInv, LegacyTypeOK, TransactionOrder, LegacyPaidWasCharged, LegacyAnsweredIsPaid
<1>4. LegacyRequests' /\ OwnReference'
  BY <1>2, IdleHasNoOperation
     DEF LegacyInv, LegacyRequests, RequestTyping, RequestKnows, OwnReference, Storing, Moves
<1>5. QED
  BY <1>3, <1>4 DEF LegacyInv

(* The customer pays what was not paid, hence neither logged nor answered. *)
LEMMA ChargeStep ==
  ASSUME HandlersOK, LegacyInv, NEW k \in References, Charge(k)
  PROVE  LegacyInv'
<1>1. PICK amount \in {"full", "other"} : charge' = [charge EXCEPT ![k] = amount]
  BY DEF Charge
<1>2. /\ k \in offered /\ charge[k] = "none"
      /\ UNCHANGED <<req, documents, opened, offered, answered>>
  BY DEF Charge, handlers
<1>3. LegacyTypeOK' /\ TransactionOrder' /\ LegacyPaidWasCharged' /\ LegacyAnsweredIsPaid'
  BY <1>1, <1>2
     DEF LegacyInv, LegacyTypeOK, TransactionOrder, LegacyPaidWasCharged, LegacyAnsweredIsPaid,
         documents
<1>4. \A u \in Requests : RequestTyping(req[u])' /\ RequestKnows(req[u])'
  BY <1>1, <1>2
     DEF LegacyInv, LegacyTypeOK, LegacyRequests, RequestTyping, RequestKnows, Storing, documents
<1>5. LegacyRequests' /\ OwnReference'
  BY <1>2, <1>4 DEF LegacyInv, LegacyRequests, OwnReference, Storing
<1>6. QED
  BY <1>3, <1>5 DEF LegacyInv

LEMMA LegacyAsideStep ==
  ASSUME LegacyInv, LegacyAside
  PROVE  LegacyInv'
<1>1. UNCHANGED <<documents, paystack>>
  BY DEF LegacyAside, legacyVars
<1>2. LegacyTypeOK' /\ TransactionOrder' /\ LegacyPaidWasCharged' /\ LegacyAnsweredIsPaid'
  BY <1>1
     DEF LegacyInv, LegacyTypeOK, TransactionOrder, LegacyPaidWasCharged, LegacyAnsweredIsPaid,
         documents, paystack
<1>3. LegacyRequests' /\ OwnReference'
  BY <1>1
     DEF LegacyAside, Foreign, LegacyInv, LegacyOperations, LegacyRequests, RequestTyping,
         RequestKnows, OwnReference, Storing, documents, paystack
<1>4. QED
  BY <1>2, <1>3 DEF LegacyInv

-----------------------------------------------------------------------------
(* What the rest of the process sees of a step of these bookings. *)
LEMMA LegacyStepOf ==
  ASSUME HandlersOK, LegacyInv, LegacyNext
  PROVE  HandlersOK' /\ StepOf(LegacyOperations)
<1>1. ASSUME NEW t \in Requests, LegacyReads(t) \/ LegacyWrites(t)
      PROVE  HandlersOK' /\ StepOf(LegacyOperations)
  <2>1. req[t].op \in LegacyOperations \cup {"none"}
    BY <1>1, IdleHasNoOperation
       DEF LegacyReads, LegacyWrites, TripAsk, TripCount, TripInsert, PayAsk, PayFind, PayOpen,
           PaySave, HookAsk, HookFind, HookUpdate, HookLog, VerifyAsk, ReconcileBookings,
           VerifyCharged, VerifyFind, VerifySave, At, Start, LegacyOperations
  <2>2. QED
    BY <1>1, <2>1, LegacyReadsOne, LegacyWritesOne DEF Moves, StepOf
<1>2. ASSUME NEW k \in References, Charge(k)
      PROVE  HandlersOK' /\ StepOf(LegacyOperations)
  BY <1>2 DEF Charge, handlers, HandlersOK, StepOf
<1>3. QED
  BY <1>1, <1>2 DEF LegacyNext, LegacyStep, LegacyReads, LegacyWrites

LEMMA LegacyInvStep ==
  ASSUME HandlersOK, LegacyInv, LegacyNext \/ LegacyAside
  PROVE  LegacyInv'
<1>1. ASSUME NEW t \in Requests, LegacyStep(t) PROVE LegacyInv'
  BY <1>1, LegacyReadsStep, TripInsertStep, PayOpenStep, PaySaveStep, HookFindStep, PaidStep,
     HookLogStep DEF LegacyStep, LegacyReads
<1>2. QED
  BY <1>1, ChargeStep, LegacyAsideStep DEF LegacyNext

-----------------------------------------------------------------------------
(* A trip's booking lives the lifecycle that a shuttle's does (ShuttlePayments), but
   for the ways out of it: it is only ever RESERVED, here PENDING_PAYMENT, or PAID. *)
TripStatus == [b \in TripBookings |-> IF b \in bookingPaid THEN "paid" ELSE "reserved"]

TripsFunded == {b \in TripBookings : \E k \in References : opened[k] = b /\ charge[k] = "full"}

Trip == INSTANCE BookingLifecycle WITH
    Bookings <- TripBookings, status <- TripStatus, funded <- TripsFunded

(* Only a charge in full funds a booking: Paystack's new transaction is not charged. *)
LEMMA TripsFundedStep ==
  ASSUME LegacyInv, LegacyNext
  PROVE  \/ TripsFunded' = TripsFunded
         \/ /\ UNCHANGED bookingPaid
            /\ \E b \in TripBookings : TripsFunded' = TripsFunded \cup {b}
<1>1. ASSUME NEW t \in Requests, PayOpen(t) PROVE TripsFunded' = TripsFunded
  <2>1. PICK k \in References :
           opened[k] = None /\ opened' = [opened EXCEPT ![k] = req[t].id] /\ UNCHANGED charge
    BY <1>1, FreshIsFree DEF PayOpen
  <2>2. charge[k] # "full"
    BY <2>1 DEF LegacyInv, TransactionOrder
  <2>3. \A q \in References : charge[q] = "full" => opened'[q] = opened[q]
    BY <2>1, <2>2 DEF LegacyInv, LegacyTypeOK
  <2>4. QED
    BY <2>1, <2>3 DEF TripsFunded
<1>2. ASSUME NEW k \in References, Charge(k)
      PROVE  \/ TripsFunded' = TripsFunded
             \/ /\ UNCHANGED bookingPaid
                /\ \E b \in TripBookings : TripsFunded' = TripsFunded \cup {b}
  <2>1. /\ k \in offered /\ UNCHANGED <<opened, bookingPaid>>
        /\ charge[k] = "none"
        /\ \E amount \in {"full", "other"} : charge' = [charge EXCEPT ![k] = amount]
    BY <1>2 DEF Charge, documents
  <2>2. opened[k] \in TripBookings
    BY <2>1 DEF LegacyInv, LegacyTypeOK, TransactionOrder
  <2>3. CASE charge' = [charge EXCEPT ![k] = "full"]
    <3>1. \A q \in References : charge'[q] = IF q = k THEN "full" ELSE charge[q]
      BY <2>3 DEF LegacyInv, LegacyTypeOK
    <3>2. TripsFunded' = TripsFunded \cup {opened[k]}
      BY <2>1, <2>2, <3>1 DEF TripsFunded
    <3>3. QED
      BY <2>1, <2>2, <3>2
  <2>4. CASE charge' = [charge EXCEPT ![k] = "other"]
    <3>1. \A q \in References : charge'[q] = IF q = k THEN "other" ELSE charge[q]
      BY <2>4 DEF LegacyInv, LegacyTypeOK
    <3>2. QED
      BY <2>1, <3>1 DEF TripsFunded
  <2>5. QED
    BY <2>1, <2>3, <2>4
<1>3. CASE UNCHANGED <<opened, charge>>
  BY <1>3 DEF TripsFunded
<1>4. QED
  BY <1>1, <1>2, <1>3
     DEF LegacyNext, LegacyStep, TripAsk, TripCount, TripInsert, PayAsk, PayFind, PaySave, HookAsk,
         HookFind, HookUpdate, HookLog, VerifyAsk, ReconcileBookings, VerifyCharged, VerifyFind,
         VerifySave, legacyVars, paystack

(* The webhook and the verification pay a booking they have seen funded. *)
LEMMA TripPaidStep ==
  ASSUME LegacyInv, NEW t \in Requests, HookUpdate(t) \/ VerifySave(t)
  PROVE  Trip!Next \/ (TripStatus' = TripStatus /\ TripsFunded' = TripsFunded)
<1> DEFINE b == req[t].id
<1>1. /\ b \in TripBookings /\ req[t].ref \in References
      /\ opened[req[t].ref] = b /\ charge[req[t].ref] = "full"
  BY DEF HookUpdate, VerifySave, At, LegacyInv, LegacyRequests, RequestTyping, RequestKnows
<1>2. bookingPaid' = bookingPaid \cup {b} /\ UNCHANGED <<opened, charge>>
  BY DEF HookUpdate, VerifySave, paystack
<1> HIDE DEF b
<1>3. b \in TripsFunded /\ TripsFunded' = TripsFunded
  BY <1>1, <1>2 DEF TripsFunded
<1>4. CASE b \in bookingPaid
  BY <1>2, <1>3, <1>4 DEF TripStatus
<1>5. CASE b \notin bookingPaid
  <2>1. TripStatus[b] = "reserved" /\ TripStatus' = [TripStatus EXCEPT ![b] = "paid"]
    BY <1>1, <1>2, <1>5 DEF TripStatus
  <2>2. Trip!Pay(b)
    BY <1>3, <2>1 DEF Trip!Pay, Trip!Move
  <2>3. QED
    BY <1>1, <1>3, <2>2 DEF Trip!Next
<1>6. QED
  BY <1>4, <1>5

LEMMA TripLifecycleStep ==
  ASSUME LegacyInv, LegacyNext \/ LegacyAside
  PROVE  [Trip!Next]_(Trip!lifecycle)
<1> SUFFICES Trip!Next \/ (TripStatus' = TripStatus /\ TripsFunded' = TripsFunded)
  BY DEF Trip!lifecycle
<1>1. CASE LegacyAside
  BY <1>1 DEF LegacyAside, legacyVars, documents, paystack, TripStatus, TripsFunded
<1>2. CASE LegacyNext /\ UNCHANGED bookingPaid
  <2>1. TripStatus' = TripStatus
    BY <1>2 DEF TripStatus
  <2>2. QED
    BY <1>2, <2>1, TripsFundedStep DEF Trip!Next, Trip!Fund
<1>3. ASSUME NEW t \in Requests, HookUpdate(t) \/ VerifySave(t)
      PROVE  Trip!Next \/ (TripStatus' = TripStatus /\ TripsFunded' = TripsFunded)
  BY <1>3, TripPaidStep
<1>4. QED
  BY <1>1, <1>2, <1>3
     DEF LegacyNext, LegacyStep, TripAsk, TripCount, TripInsert, PayAsk, PayFind, PayOpen, PaySave,
         HookAsk, HookFind, HookLog, VerifyAsk, ReconcileBookings, VerifyCharged, VerifyFind,
         Charge, legacyVars, documents

LEMMA TripLifecycleInit == LegacyInit => Trip!Init
<1> SUFFICES ASSUME LegacyInit PROVE Trip!Init
  OBVIOUS
<1>1. TripStatus = [b \in TripBookings |-> "reserved"]
  BY DEF LegacyInit, TripStatus
<1>2. TripsFunded = {}
  BY DEF LegacyInit, TripsFunded
<1>3. QED
  BY <1>1, <1>2 DEF Trip!Init

-----------------------------------------------------------------------------
(* Seats: unless two creations for one departure overlapped, at most one is about
   to insert, and there is room for what it counted. *)
RoomInv ==
    "seats" \notin overlapped =>
        \A d \in Departures :
            /\ Seats(d) <= Capacity[d]
            /\ \A t \in Requests : InsertingInto(req[t], d) =>
                  Seats(d) + req[t].seats <= Capacity[d]
            /\ \A t, u \in Requests :
                  InsertingInto(req[t], d) /\ InsertingInto(req[u], d) => t = u

On(d) == {b \in Made : departure[b] = d}

LEMMA OnIsFinite ==
  ASSUME LegacyInv, NEW d
  PROVE  IsFiniteSet(On(d)) /\ \A b \in On(d) : passengers[b] \in Nat
<1>1. On(d) \in SUBSET TripBookings
  BY DEF On, Made
<1>2. QED
  BY <1>1, LegacyAssumptions, FS_Subset DEF LegacyInv, LegacyTypeOK

LEMMA SeatsAreNumbers == ASSUME LegacyInv, NEW d PROVE Seats(d) \in Nat
BY OnIsFinite, SumType DEF Seats, On

LEMMA RoomInvInit == HandlersInit /\ LegacyInit => RoomInv
<1> SUFFICES ASSUME HandlersInit, LegacyInit, NEW d \in Departures
             PROVE  Seats(d) <= Capacity[d] /\ \A t \in Requests : ~InsertingInto(req[t], d)
  BY DEF RoomInv
<1>1. {b \in Made : departure[b] = d} = {}
  BY DEF LegacyInit, Made
<1>2. Seats(d) = 0
  BY <1>1, SumOfNone DEF Seats
<1>3. QED
  BY <1>2, LegacyAssumptions, IdleHasNoOperation DEF HandlersInit, InsertingInto

(* Nobody takes seats who does not count them first. *)
LEMMA RoomKept ==
  ASSUME RoomInv, UNCHANGED <<departure, passengers>>, overlapped \subseteq overlapped',
         \A t \in Requests, d \in Departures :
            InsertingInto(req'[t], d) => req'[t] = req[t]
  PROVE  RoomInv'
<1>1. \A d : Seats(d)' = Seats(d)
  BY DEF Seats, Made
<1>2. QED
  BY <1>1 DEF RoomInv, InsertingInto

(* A creation that is about to insert has found room beside all that are inserted,
   and it is alone, or seen to overlap. *)
LEMMA TripCountStep ==
  ASSUME HandlersOK, LegacyInv, RoomInv, NEW t \in Requests, TripCount(t)
  PROVE  RoomInv'
<1> DEFINE e == req[t].departure
           n == req[t].seats
<1>1. /\ req[t] \in [op : {"createUserBooking"}, at : {"count", "insert"},
                     departure : Departures, seats : Nat]
      /\ UNCHANGED <<departure, passengers>>
  BY DEF TripCount, At, LegacyInv, LegacyRequests, RequestTyping, legacyVars, documents
<1>2. e \in Departures /\ n \in Nat /\ Capacity[e] \in Nat
  BY <1>1, LegacyAssumptions
<1>3. CASE Finish(t) /\ UNCHANGED overlapped
  BY <1>1, <1>3, FinishMoves, IdleHasNoOperation, RoomKept DEF Moves, InsertingInto
<1>4. CASE /\ EnoughSeats(e, n)
           /\ Continue(t, [req[t] EXCEPT !.at = "insert"])
           /\ Overlap(t, "seats", LAMBDA u : InsertingInto(u, e))
  <2> DEFINE r == [req[t] EXCEPT !.at = "insert"]
  <2>1. "op" \in DOMAIN r /\ r.departure = e /\ r.seats = n
    BY <1>1
  <2>2. Moves(t, r)
    BY <1>4, <2>1, ContinueMoves
  <2>3. \A d : Seats(d)' = Seats(d)
    BY <1>1 DEF Seats, Made
  <2>4. Seats(e) + n <= Capacity[e]
    BY <1>2, <1>4, SeatsAreNumbers DEF EnoughSeats
  <2>5. \/ "seats" \in overlapped'
        \/ overlapped' = overlapped /\ \A u \in Requests \ {t} : ~InsertingInto(req[u], e)
    BY <1>4 DEF Overlap
  <2>6. \A u \in Requests \ {t} : req'[u] = req[u]
    BY <2>2 DEF Moves
  <2>7. /\ req'[t].seats = n
        /\ \A d : InsertingInto(req'[t], d) => d = e
    BY <2>1, <2>2 DEF Moves, InsertingInto
  <2> HIDE DEF e, n, r
  <2>8. ASSUME "seats" \notin overlapped', NEW d \in Departures
        PROVE  /\ Seats(d)' <= Capacity[d]
               /\ \A u \in Requests : InsertingInto(req'[u], d) =>
                     Seats(d)' + req'[u].seats <= Capacity[d]
               /\ \A u, v \in Requests :
                     InsertingInto(req'[u], d) /\ InsertingInto(req'[v], d) => u = v
    BY <2>3, <2>4, <2>5, <2>6, <2>7, <2>8 DEF RoomInv
  <2>9. QED
    BY <2>8 DEF RoomInv, InsertingInto
<1>5. QED
  BY <1>3, <1>4 DEF TripCount

(* The insertion takes the room its creation found. *)
LEMMA TripInsertTakes ==
  ASSUME HandlersOK, LegacyInv, RoomInv, NEW t \in Requests, TripInsert(t)
  PROVE  RoomInv'
<1>0. PICK e, n : e = req[t].departure /\ n = req[t].seats
  OBVIOUS
<1>1. /\ req[t] \in [op : {"createUserBooking"}, at : {"count", "insert"},
                     departure : Departures, seats : Nat]
      /\ InsertingInto(req[t], e)
  BY <1>0 DEF TripInsert, At, LegacyInv, LegacyRequests, RequestTyping, InsertingInto
<1>2. e \in Departures /\ n \in Nat /\ Capacity[e] \in Nat /\ e # None
  BY <1>0, <1>1, LegacyAssumptions
<1>3. PICK b \in Fresh(TripBookings \ Made) :
         /\ departure' = [departure EXCEPT ![b] = e]
         /\ passengers' = [passengers EXCEPT ![b] = n]
  BY <1>0 DEF TripInsert
<1>4. b \in TripBookings /\ departure[b] = None
  BY <1>3, FreshIsFree DEF Made
<1>5. /\ departure'[b] = e /\ passengers'[b] = n
      /\ \A c \in TripBookings \ {b} :
            departure'[c] = departure[c] /\ passengers'[c] = passengers[c]
  BY <1>3, <1>4 DEF LegacyInv, LegacyTypeOK
<1>6. /\ \A u \in Requests \ {t} : req'[u] = req[u]
      /\ \A d : ~InsertingInto(req'[t], d)
      /\ overlapped' = overlapped
  BY FinishMoves, IdleHasNoOperation DEF TripInsert, Moves, InsertingInto
<1>7. /\ On(e)' = On(e) \cup {b} /\ b \notin On(e)
      /\ \A d \in Departures \ {e} : On(d)' = On(d) /\ b \notin On(d)
  BY <1>2, <1>4, <1>5, LegacyAssumptions DEF On, Made
<1>8. \A d : Seats(d) = SumFunctionOnSet(passengers, On(d))
           /\ Seats(d)' = SumFunctionOnSet(passengers', On(d)')
  BY DEF Seats, On, Made
<1>9. \A d \in Departures : SumFunctionOnSet(passengers', On(d)) = Seats(d)
  <2> SUFFICES ASSUME NEW d \in Departures
               PROVE  SumFunctionOnSet(passengers', On(d)) = Seats(d)
    OBVIOUS
  <2>1. \A c \in On(d) : passengers'[c] = passengers[c]
    BY <1>5, <1>7 DEF On, Made
  <2>2. QED
    BY <1>8, <2>1, OnIsFinite, SumsAgree
<1>10. \A d \in Departures \ {e} : Seats(d)' = Seats(d)
  BY <1>7, <1>8, <1>9
<1>11. Seats(e)' = n + Seats(e)
  <2> DEFINE S == On(e) \cup {b}
  <2>1. IsFiniteSet(S) /\ \A c \in S : passengers'[c] \in Nat
    <3>1. IsFiniteSet(S)
      BY OnIsFinite, FS_AddElement
    <3>2. \A c \in On(e) : passengers'[c] \in Nat
      BY <1>5, <1>7, OnIsFinite DEF On, Made
    <3>3. QED
      BY <1>2, <1>5, <3>1, <3>2
  <2>2. SumFunctionOnSet(passengers', S) = n + SumFunctionOnSet(passengers', S \ {b})
    BY <1>5, <2>1, SumOfMember
  <2>3. S \ {b} = On(e)
    BY <1>7
  <2>4. QED
    BY <1>2, <1>7, <1>8, <1>9, <2>2, <2>3
<1>12. ASSUME "seats" \notin overlapped', NEW d \in Departures
       PROVE  /\ Seats(d)' <= Capacity[d]
              /\ \A u \in Requests : InsertingInto(req'[u], d) =>
                    Seats(d)' + req'[u].seats <= Capacity[d]
              /\ \A u, v \in Requests :
                    InsertingInto(req'[u], d) /\ InsertingInto(req'[v], d) => u = v
  <2>1. CASE d = e
    <3>1. \A u \in Requests : ~InsertingInto(req'[u], e)
      BY <1>1, <1>2, <1>6, <1>12 DEF RoomInv
    <3>2. Seats(e) + n <= Capacity[e]
      BY <1>0, <1>1, <1>2, <1>6, <1>12 DEF RoomInv
    <3>3. Seats(e) \in Nat
      BY SeatsAreNumbers
    <3>4. QED
      BY <1>2, <1>11, <2>1, <3>1, <3>2, <3>3
  <2>2. CASE d # e
    BY <1>6, <1>10, <1>12, <2>2 DEF RoomInv
  <2>3. QED
    BY <2>1, <2>2
<1>13. QED
  BY <1>12 DEF RoomInv, InsertingInto

LEMMA RoomInvStep ==
  ASSUME HandlersOK, LegacyInv, RoomInv, LegacyNext \/ LegacyAside
  PROVE  RoomInv'
<1>1. ASSUME NEW t \in Requests,
             \/ TripAsk(t) \/ PayAsk(t) \/ PayFind(t) \/ PayOpen(t) \/ PaySave(t)
             \/ HookAsk(t) \/ HookFind(t) \/ HookUpdate(t) \/ HookLog(t)
             \/ VerifyAsk(t) \/ ReconcileBookings(t) \/ VerifyCharged(t) \/ VerifyFind(t)
             \/ VerifySave(t)
      PROVE  RoomInv'
  <2>1. UNCHANGED <<departure, passengers>> /\ overlapped' = overlapped
    BY <1>1 DEF TripAsk, PayAsk, PayFind, PayOpen, PaySave, HookAsk, HookFind, HookUpdate, HookLog,
         VerifyAsk, ReconcileBookings, VerifyCharged, VerifyFind, VerifySave, legacyVars, documents
  <2>2. \A d : ~InsertingInto(req'[t], d)
    <3>1. CASE \/ TripAsk(t) \/ PayAsk(t) \/ HookAsk(t) \/ VerifyAsk(t) \/ ReconcileBookings(t)
      BY <3>1 DEF TripAsk, PayAsk, HookAsk, VerifyAsk, ReconcileBookings, Start, LegacyAsked,
           HandlersOK, InsertingInto
    <3>2. CASE PayFind(t) \/ PayOpen(t) \/ HookFind(t) \/ HookUpdate(t) \/ VerifyCharged(t)
                 \/ VerifyFind(t)
      BY <3>2, IdleHasNoOperation
         DEF PayFind, PayOpen, HookFind, HookUpdate, VerifyCharged, VerifyFind, At, Continue, Finish,
             HandlersOK, InsertingInto
    <3>3. CASE PaySave(t) \/ HookLog(t) \/ VerifySave(t)
      BY <3>3, IdleHasNoOperation
         DEF PaySave, HookLog, VerifySave, Continue, Finish, HandlersOK, InsertingInto
    <3>4. QED
      BY <1>1, <3>1, <3>2, <3>3
  <2>3. \A u \in Requests \ {t} : req'[u] = req[u]
    BY <1>1, LegacyReadsOne, LegacyWritesOne DEF LegacyReads, LegacyWrites, Moves
  <2>4. QED
    BY <2>1, <2>2, <2>3, RoomKept
<1>2. ASSUME NEW k \in References, Charge(k)
      PROVE  RoomInv'
  BY <1>2, RoomKept DEF Charge, handlers, documents
<1>3. CASE LegacyAside
  BY <1>3, RoomKept DEF LegacyAside, Foreign, legacyVars, documents, InsertingInto, LegacyOperations
<1>4. QED
  BY <1>1, <1>2, <1>3, TripCountStep, TripInsertTakes DEF LegacyNext, LegacyStep

LEMMA RoomInvImplies == RoomInv => TripFits
BY DEF RoomInv, TripFits

-----------------------------------------------------------------------------
(* On-demand rides: what their requests carry. *)
AddsUp(p) == p.baseFare + p.serviceCharge + p.vat = p.total

CreateRequest ==
    [op : {"createRide"}, at : {"cache", "google", "store", "price", "insert"},
     route : Routes, party : Parties, surge : Nat, metres : Nat, price : Breakdown \cup {None}]

StatusRequest ==
    [op : {"updateStatus"}, at : {"find", "save"}, id : Rides, status : BookingStatus]

RuleRequest == [op : {"createRule", "updateRule"}, at : {"find", "save"}, rule : Tariffs]

FlagRequest == [op : {"toggleRule"}, at : {"find", "save"}, flag : BOOLEAN]

RideTyping(r) ==
    /\ r.op = "createRide" => r \in CreateRequest
    /\ r.op = "createRide" /\ r.at = "insert" => r.price \in Breakdown /\ AddsUp(r.price)
    /\ r.op = "updateStatus" => r \in StatusRequest
    /\ r.op \in {"createRule", "updateRule"} => r \in RuleRequest
    /\ r.op = "toggleRule" => r \in FlagRequest

(* What was found stays: no ride and no rule is ever deleted. *)
RideKnows(r) ==
    /\ r.op = "updateStatus" => ride[r.id] # None
    /\ r.op = "toggleRule" /\ r.at = "save" => tariff # None

RideRequests == \A t \in Requests : RideTyping(req[t]) /\ RideKnows(req[t])

SavingStatus(r, b) == r.op = "updateStatus" /\ r.at = "save" /\ r.id = b

History(b) == ride[b].history

HistoryInv ==
    /\ \A b \in Rides : ride[b] # None =>
          /\ History(b) # <<>> /\ Head(History(b)) = "pending_payment"
          /\ Last(History(b)) = ride[b].status
    /\ "status" \notin overlapped =>
          /\ \A t, u \in Requests, b \in Rides :
                SavingStatus(req[t], b) /\ SavingStatus(req[u], b) => t = u
          /\ \A t \in Requests, b \in Rides :
                SavingStatus(req[t], b) => <<ride[b].status, req[t].status>> \in Transitions
          /\ \A b \in Rides : ride[b] # None =>
                \A i \in 1..Len(History(b)) - 1 : <<History(b)[i], History(b)[i + 1]>> \in Transitions

(* While no two measurements of a route overlapped, none is stored of one that is
   being measured. *)
DistanceInv ==
    "distance" \notin overlapped =>
        /\ \A t, u \in Requests, route \in Routes :
              Measuring(req[t], route) /\ Measuring(req[u], route) => t = u
        /\ \A t \in Requests, i \in 1..Len(distances) : ~Measuring(req[t], distances[i][1])

RideInv ==
    /\ RideTypeOK /\ (tariffActive => tariff # None)
    /\ RideRequests /\ HistoryInv /\ BreakdownAddsUp /\ DistanceInv /\ RouteMeasuredOnce

RideAside == Foreign(RideOperations) /\ UNCHANGED rideVars

(* The parts of a price are whole naira, and so are moved out of the rounding of
   the total. *)
LEMMA RoundShifts ==
  ASSUME NEW n \in Int, NEW k \in Int
  PROVE  Round(n + k * Unit, Unit) = Round(n, Unit) + k
BY DEF Round, Unit

LEMMA FareIsInt ==
  ASSUME NEW rule \in Tariffs, NEW party \in Parties, NEW metres \in Nat, NEW surge \in Nat
  PROVE  Fare(rule, party, metres, surge) \in Int
<1>1. /\ rule.baseFare \in Int /\ rule.perKmRate \in Int /\ rule.freeKm \in Int
      /\ rule.perExtraPassenger \in Int /\ rule.perExtraCar \in Int
      /\ party.passengers \in Int /\ party.cars \in Int
  BY RideAssumptions
<1>2. /\ Beyond(party.passengers, 1) \in Int /\ Beyond(party.cars, 1) \in Int
      /\ Beyond(metres, rule.freeKm * 1000) \in Int
  BY <1>1 DEF Beyond
<1>3. \A n, m \in Int : n * m \in Int /\ n + m \in Int
  OBVIOUS
<1> DEFINE a == Beyond(party.passengers, 1) * rule.perExtraPassenger
           b == Beyond(party.cars, 1) * rule.perExtraCar
           c == Beyond(metres, rule.freeKm * 1000) * rule.perKmRate
<1>4. a \in Int /\ b \in Int /\ c \in Int
  BY <1>1, <1>2, <1>3
<1> HIDE DEF a, b, c
<1> DEFINE d == (rule.baseFare + a + b) * 1000 + c
<1>5. d \in Int
  BY <1>1, <1>4
<1> HIDE DEF d
<1>6. d * surge \in Int
  BY <1>5
<1>7. QED
  BY <1>6 DEF Fare, a, b, c, d

LEMMA PriceAddsUp ==
  ASSUME NEW rule \in Tariffs, NEW party \in Parties, NEW metres \in Nat, NEW surge \in Nat
  PROVE  LET p == CalculatePrice(rule, party, metres, surge) IN p \in Breakdown /\ AddsUp(p)
<1> DEFINE price == Fare(rule, party, metres, surge)
           serviceCharge == Round(price, 10 * Unit)
           vat == Round(3 * price, 40 * Unit)
<1>1. price \in Int
  BY FareIsInt
<1> HIDE DEF price
<1>2. /\ Round(price, Unit) \in Int /\ serviceCharge \in Int /\ vat \in Int
  BY <1>1 DEF Round, Unit
<1> HIDE DEF serviceCharge, vat
<1>3. Round(price + (serviceCharge + vat) * Unit, Unit) = Round(price, Unit) + (serviceCharge + vat)
  BY <1>1, <1>2, RoundShifts
<1>4. CalculatePrice(rule, party, metres, surge) =
         [baseFare |-> Round(price, Unit), serviceCharge |-> serviceCharge, vat |-> vat,
          total |-> Round(price + (serviceCharge + vat) * Unit, Unit)]
  BY DEF CalculatePrice, price, serviceCharge, vat
<1>5. QED
  BY <1>2, <1>3, <1>4 DEF Breakdown, AddsUp

LEMMA RideInvInit == HandlersInit /\ RideInit => RideInv
<1> SUFFICES ASSUME HandlersInit, RideInit PROVE RideInv
  OBVIOUS
<1>1. \A t \in Requests : req[t] = Idle
  BY DEF HandlersInit
<1>2. /\ distances = <<>> /\ Len(distances) = 0 /\ distances \in Seq(Routes \X Nat)
      /\ \A b \in Rides : ride[b] = None
  BY DEF RideInit
<1>3. RideTypeOK
  BY <1>2 DEF RideInit, RideTypeOK
<1>4. RideRequests /\ HistoryInv /\ DistanceInv
  BY <1>1, <1>2, IdleHasNoOperation
     DEF RideRequests, RideTyping, RideKnows, HistoryInv, SavingStatus, DistanceInv, Measuring
<1>5. BreakdownAddsUp /\ RouteMeasuredOnce
  BY <1>2 DEF BreakdownAddsUp, RouteMeasuredOnce
<1>6. QED
  BY <1>3, <1>4, <1>5 DEF RideInv, RideInit

-----------------------------------------------------------------------------
(* Steps that write no document. *)
RideReads(t) ==
    \/ RideAsk(t) \/ CacheFind(t) \/ AskGoogle(t) \/ Estimate(t)
    \/ StatusAsk(t) \/ StatusFind(t) \/ RuleAsk(t) \/ RuleFind(t)

(* What a request that begins to measure a route, or is about to save a status, has
   found. *)
RideFound(t) ==
    /\ \A route : Measuring(req'[t], route) =>
          \/ Measuring(req[t], route)
          \/ /\ \A i \in 1..Len(distances) : distances[i][1] # route
             /\ "distance" \notin overlapped' =>
                   \A u \in Requests \ {t} : ~Measuring(req[u], route)
    /\ \A b : SavingStatus(req'[t], b) =>
          /\ <<ride[b].status, req'[t].status>> \in Transitions
          /\ "status" \notin overlapped' => \A u \in Requests \ {t} : ~SavingStatus(req[u], b)

LEMMA RideReadsOne ==
  ASSUME HandlersOK, RideInv, NEW t \in Requests, RideReads(t)
  PROVE  /\ UNCHANGED rideVars /\ overlapped \subseteq overlapped'
         /\ HandlersOK' /\ Moves(t, req'[t])
         /\ RideTyping(req'[t]) /\ RideKnows(req'[t]) /\ RideFound(t)
<1> USE DEF RideTyping, RideKnows, RideFound, Measuring, SavingStatus
<1>1. RideTyping(req[t]) /\ RideKnows(req[t])
  BY DEF RideInv, RideRequests
<1>2. UNCHANGED rideVars /\ overlapped \subseteq overlapped'
  BY DEF RideReads, RideAsk, CacheFind, AskGoogle, Estimate, StatusAsk, StatusFind, RuleAsk,
     RuleFind, RideKept, rideVars, Overlap
<1>3. CASE Finish(t)
  BY <1>2, <1>3, FinishMoves, IdleHasNoOperation DEF Moves
<1>4. CASE RideAsk(t)
  <2>1. PICK route \in Routes, party \in Parties, hour \in {4, 7, 12, 17} :
           Start(t, [op |-> "createRide", at |-> IF mapsKey THEN "cache" ELSE "price",
                     route |-> route, party |-> party, surge |-> SurgeMultiplier(hour),
                     metres |-> FallbackMetres, price |-> None])
    BY <1>4 DEF RideAsk
  <2> DEFINE at == IF mapsKey THEN "cache" ELSE "price"
             surge == SurgeMultiplier(hour)
             r == [op |-> "createRide", at |-> at, route |-> route, party |-> party,
                   surge |-> surge, metres |-> FallbackMetres, price |-> None]
  <2>2. at \in {"cache", "price"} /\ surge \in Nat /\ FallbackMetres \in Nat
    BY DEF SurgeMultiplier, FallbackMetres
  <2>3. Start(t, r)
    BY <2>1
  <2> HIDE DEF at, surge
  <2>4. /\ "op" \in DOMAIN r /\ r \in CreateRequest /\ r.op = "createRide"
        /\ r.at \notin {"google", "store", "insert"}
    BY <2>2 DEF CreateRequest
  <2>5. HandlersOK' /\ Moves(t, r)
    BY <2>3, <2>4, StartMoves
  <2> HIDE DEF r
  <2>6. QED
    BY <1>2, <2>4, <2>5 DEF Moves
<1>5. CASE StatusAsk(t)
  <2>1. PICK b \in Rides, s \in BookingStatus :
           /\ ride[b] # None
           /\ Start(t, [op |-> "updateStatus", at |-> "find", id |-> b, status |-> s])
    BY <1>5 DEF StatusAsk
  <2> DEFINE r == [op |-> "updateStatus", at |-> "find", id |-> b, status |-> s]
  <2>2. /\ "op" \in DOMAIN r /\ r \in StatusRequest /\ r.op = "updateStatus" /\ r.at = "find"
        /\ r.id = b
    BY DEF StatusRequest
  <2>3. HandlersOK' /\ Moves(t, r)
    BY <2>1, <2>2, StartMoves
  <2> HIDE DEF r
  <2>4. UNCHANGED ride
    BY <1>2 DEF rideVars
  <2>5. QED
    BY <1>2, <2>1, <2>2, <2>3, <2>4 DEF Moves
<1>6. CASE RuleAsk(t)
  <2>1. CASE \E op \in {"createRule", "updateRule"}, rule \in Tariffs :
                Start(t, [op |-> op, at |-> "find", rule |-> rule])
    <3>1. PICK op \in {"createRule", "updateRule"}, rule \in Tariffs :
             Start(t, [op |-> op, at |-> "find", rule |-> rule])
      BY <2>1
    <3> DEFINE r == [op |-> op, at |-> "find", rule |-> rule]
    <3>2. "op" \in DOMAIN r /\ r \in RuleRequest /\ r.op = op
      BY DEF RuleRequest
    <3>3. HandlersOK' /\ Moves(t, r)
      BY <3>1, <3>2, StartMoves
    <3> HIDE DEF r
    <3>4. QED
      BY <1>2, <3>2, <3>3 DEF Moves
  <2>2. CASE \E flag \in BOOLEAN : Start(t, [op |-> "toggleRule", at |-> "find", flag |-> flag])
    <3>1. PICK flag \in BOOLEAN : Start(t, [op |-> "toggleRule", at |-> "find", flag |-> flag])
      BY <2>2
    <3> DEFINE r == [op |-> "toggleRule", at |-> "find", flag |-> flag]
    <3>2. "op" \in DOMAIN r /\ r \in FlagRequest /\ r.op = "toggleRule" /\ r.at = "find"
      BY DEF FlagRequest
    <3>3. HandlersOK' /\ Moves(t, r)
      BY <3>1, <3>2, StartMoves
    <3> HIDE DEF r
    <3>4. QED
      BY <1>2, <3>2, <3>3 DEF Moves
  <2>3. QED
    BY <1>6, <2>1, <2>2 DEF RuleAsk
<1>7. CASE CacheFind(t) /\ ~Finish(t)
  <2>1. req[t] \in CreateRequest /\ req[t].op = "createRide" /\ UNCHANGED ride
    BY <1>1, <1>7 DEF CacheFind, At, rideVars
  <2>2. CASE \E row \in Cached(req[t].route) :
                Continue(t, [req[t] EXCEPT !.at = "price", !.metres = row[2]])
    <3>1. PICK row \in Cached(req[t].route) :
             Continue(t, [req[t] EXCEPT !.at = "price", !.metres = row[2]])
      BY <2>2
    <3>2. row[2] \in Nat
      BY DEF Cached, Range, RideInv, RideTypeOK
    <3> DEFINE m == row[2]
               r == [req[t] EXCEPT !.at = "price", !.metres = m]
    <3>3. Continue(t, r)
      BY <3>1
    <3> HIDE DEF m
    <3>4. m \in Nat
      BY <3>2 DEF m
    <3>5. "op" \in DOMAIN r /\ r \in CreateRequest /\ r.op = "createRide" /\ r.at = "price"
      BY <2>1, <3>4 DEF CreateRequest
    <3>6. HandlersOK' /\ Moves(t, r)
      BY <3>3, <3>5, ContinueMoves
    <3> HIDE DEF r
    <3>7. QED
      BY <1>2, <2>1, <3>5, <3>6 DEF Moves
  <2>3. CASE /\ Cached(req[t].route) = {}
             /\ Continue(t, [req[t] EXCEPT !.at = "google"])
             /\ Overlap(t, "distance", LAMBDA u : Measuring(u, req[t].route))
    <3> DEFINE r == [req[t] EXCEPT !.at = "google"]
    <3>1. /\ "op" \in DOMAIN r /\ r \in CreateRequest /\ r.op = "createRide" /\ r.at = "google"
          /\ r.route = req[t].route
      BY <2>1 DEF CreateRequest
    <3>2. HandlersOK' /\ Moves(t, r)
      BY <2>3, <3>1, ContinueMoves
    <3>3. \A i \in 1..Len(distances) : distances[i][1] # req[t].route
      BY <2>3 DEF Cached, Range, RideInv, RideTypeOK
    <3>4. "distance" \notin overlapped' =>
             \A u \in Requests \ {t} : ~Measuring(req[u], req[t].route)
      BY <2>3 DEF Overlap
    <3> HIDE DEF r
    <3>5. QED
      BY <1>2, <2>1, <3>1, <3>2, <3>3, <3>4 DEF Moves
  <2>4. QED
    BY <1>7, <2>2, <2>3 DEF CacheFind
<1>8. CASE AskGoogle(t)
  <2>1. PICK m \in Metres : Continue(t, [req[t] EXCEPT !.at = "store", !.metres = m])
    BY <1>8 DEF AskGoogle
  <2>2. req[t] \in CreateRequest /\ m \in Nat /\ req[t].at = "google"
    BY <1>1, <1>8, RideAssumptions DEF AskGoogle, At
  <2> DEFINE r == [req[t] EXCEPT !.at = "store", !.metres = m]
  <2>3. /\ "op" \in DOMAIN r /\ r \in CreateRequest /\ r.op = "createRide" /\ r.at = "store"
        /\ r.route = req[t].route
    BY <2>2 DEF CreateRequest
  <2>4. HandlersOK' /\ Moves(t, r)
    BY <2>1, <2>3, ContinueMoves
  <2>5. req[t].op = "createRide"
    BY <1>8 DEF AskGoogle, At
  <2> HIDE DEF r
  <2>6. QED
    BY <1>2, <2>2, <2>3, <2>4, <2>5 DEF Moves
<1>9. CASE Estimate(t) /\ ~Finish(t)
  <2> DEFINE p == CalculatePrice(tariff, req[t].party, req[t].metres, req[t].surge)
             r == [req[t] EXCEPT !.at = "insert", !.price = p]
  <2>1. req[t] \in CreateRequest /\ tariffActive /\ Continue(t, r)
    BY <1>1, <1>9 DEF Estimate, At
  <2>2. tariff \in Tariffs
    BY <2>1 DEF RideInv, RideTypeOK
  <2>3. p \in Breakdown /\ AddsUp(p)
    BY <2>1, <2>2, PriceAddsUp DEF CreateRequest
  <2> HIDE DEF p
  <2>4. /\ "op" \in DOMAIN r /\ r \in CreateRequest /\ r.op = "createRide" /\ r.at = "insert"
        /\ r.price = p
    BY <2>1, <2>3 DEF CreateRequest
  <2>5. HandlersOK' /\ Moves(t, r)
    BY <2>1, <2>4, ContinueMoves
  <2> HIDE DEF r
  <2>6. QED
    BY <1>2, <2>3, <2>4, <2>5 DEF Moves
<1>10. CASE StatusFind(t) /\ ~Finish(t)
  <2> DEFINE r == [req[t] EXCEPT !.at = "save"]
  <2>1. /\ req[t] \in StatusRequest /\ req[t].op = "updateStatus" /\ Continue(t, r)
        /\ <<ride[req[t].id].status, req[t].status>> \in Transitions
        /\ Overlap(t, "status", LAMBDA u : u.op = req[t].op /\ u.at = "save" /\ u.id = req[t].id)
        /\ ride[req[t].id] # None /\ UNCHANGED ride
    BY <1>1, <1>10 DEF StatusFind, At, IsValidTransition, rideVars
  <2>2. /\ "op" \in DOMAIN r /\ r \in StatusRequest /\ r.op = "updateStatus" /\ r.at = "save"
        /\ r.id = req[t].id /\ r.status = req[t].status
    BY <2>1 DEF StatusRequest
  <2>3. HandlersOK' /\ Moves(t, r)
    BY <2>1, <2>2, ContinueMoves
  <2>4. "status" \notin overlapped' => \A u \in Requests \ {t} : ~SavingStatus(req[u], req[t].id)
    BY <2>1 DEF Overlap
  <2> HIDE DEF r
  <2>5. QED
    BY <1>2, <2>1, <2>2, <2>3, <2>4 DEF Moves
<1>11. CASE RuleFind(t) /\ ~Finish(t)
  <2> DEFINE r == [req[t] EXCEPT !.at = "save"]
  <2>1. /\ Continue(t, r) /\ req[t].op \in {"createRule", "updateRule", "toggleRule"}
        /\ req[t].op = "toggleRule" => tariff # None
        /\ UNCHANGED tariff
    BY <1>11 DEF RuleFind, RideKept
  <2>2. /\ "op" \in DOMAIN r /\ r.op = req[t].op
        /\ r.op \in {"createRule", "updateRule"} => r \in RuleRequest
        /\ r.op = "toggleRule" => r \in FlagRequest
    BY <1>1, <2>1 DEF RuleRequest, FlagRequest
  <2>3. HandlersOK' /\ Moves(t, r)
    BY <2>1, <2>2, ContinueMoves
  <2> HIDE DEF r
  <2>4. QED
    BY <1>2, <2>1, <2>2, <2>3 DEF Moves
<1>12. QED
  BY <1>3, <1>4, <1>5, <1>6, <1>7, <1>8, <1>9, <1>10, <1>11 DEF RideReads

(* The histories stay legal when no ride is written: a request that is now about to
   write one has found the change legal and nobody else at it. *)
LEMMA HistoryKept ==
  ASSUME HistoryInv, NEW t \in Requests, Moves(t, req'[t]), UNCHANGED ride,
         overlapped \subseteq overlapped',
         \A b : SavingStatus(req'[t], b) =>
            /\ <<ride[b].status, req'[t].status>> \in Transitions
            /\ "status" \notin overlapped' => \A u \in Requests \ {t} : ~SavingStatus(req[u], b)
  PROVE  HistoryInv'
<1>1. (\A b \in Rides : ride[b] # None =>
          /\ History(b) # <<>> /\ Head(History(b)) = "pending_payment"
          /\ Last(History(b)) = ride[b].status)'
  BY DEF HistoryInv, History
<1>2. ASSUME "status" \notin overlapped'
      PROVE  /\ "status" \notin overlapped
             /\ (\A b \in Rides : ride[b] # None =>
                   \A i \in 1..Len(History(b)) - 1 :
                      <<History(b)[i], History(b)[i + 1]>> \in Transitions)'
  BY <1>2 DEF HistoryInv, History
<1>3. ASSUME "status" \notin overlapped', NEW u \in Requests, NEW b \in Rides,
             SavingStatus(req'[u], b)
      PROVE  <<ride'[b].status, req'[u].status>> \in Transitions
  BY <1>2, <1>3 DEF HistoryInv, Moves
<1>4. ASSUME "status" \notin overlapped', NEW u \in Requests, NEW v \in Requests, NEW b \in Rides,
             SavingStatus(req'[u], b), SavingStatus(req'[v], b)
      PROVE  u = v
  <2>1. CASE u # t /\ v # t
    BY <1>2, <1>4, <2>1 DEF HistoryInv, Moves
  <2>2. CASE u = t \/ v = t
    BY <1>4, <2>2 DEF Moves
  <2>3. QED
    BY <2>1, <2>2
<1>5. (\A u, v \in Requests, b \in Rides :
          SavingStatus(req[u], b) /\ SavingStatus(req[v], b) => u = v)'
      \/ "status" \in overlapped'
  BY <1>4 DEF SavingStatus
<1>6. (\A u \in Requests, b \in Rides :
          SavingStatus(req[u], b) => <<ride[b].status, req[u].status>> \in Transitions)'
      \/ "status" \in overlapped'
  BY <1>3 DEF SavingStatus
<1>7. QED
  BY <1>1, <1>2, <1>5, <1>6 DEF HistoryInv

LEMMA RideReadsStep ==
  ASSUME HandlersOK, RideInv, NEW t \in Requests, RideReads(t)
  PROVE  RideInv'
<1>1. /\ UNCHANGED <<mapsKey, distances, tariff, tariffActive, ride>>
      /\ overlapped \subseteq overlapped' /\ Moves(t, req'[t])
      /\ RideTyping(req'[t]) /\ RideKnows(req'[t]) /\ RideFound(t)
  BY RideReadsOne DEF rideVars
<1>2. RideTypeOK' /\ (tariffActive => tariff # None)' /\ BreakdownAddsUp' /\ RouteMeasuredOnce'
  BY <1>1 DEF RideInv, RideTypeOK, BreakdownAddsUp, RouteMeasuredOnce
<1>3. RideRequests'
  BY <1>1, RideReadsOne DEF RideInv, RideRequests, RideTyping, RideKnows, Moves
<1>4. HistoryInv'
  BY <1>1, HistoryKept DEF RideInv, RideFound
<1>5. DistanceInv'
  BY <1>1 DEF RideInv, DistanceInv, RideFound, Measuring, Moves
<1>6. QED
  BY <1>2, <1>3, <1>4, <1>5 DEF RideInv

(* The row of a route is stored by the only request that measures it. *)
LEMMA CacheStoreStep ==
  ASSUME HandlersOK, RideInv, NEW t \in Requests, CacheStore(t)
  PROVE  RideInv'
<1> DEFINE r == [req[t] EXCEPT !.at = "price"]
           row == <<req[t].route, req[t].metres>>
<1>1. /\ req[t] \in CreateRequest /\ req[t].op = "createRide" /\ Measuring(req[t], req[t].route)
      /\ Continue(t, r) /\ distances' = Append(distances, row)
      /\ UNCHANGED <<mapsKey, tariff, tariffActive, ride, overlapped>>
  BY DEF CacheStore, At, RideInv, RideRequests, RideTyping, Measuring
<1>2. /\ "op" \in DOMAIN r /\ r \in CreateRequest /\ r.op = "createRide" /\ r.at = "price"
  BY <1>1 DEF CreateRequest
<1>3. HandlersOK' /\ Moves(t, r)
  BY <1>1, <1>2, ContinueMoves
<1> HIDE DEF r
<1>4. row \in Routes \X Nat /\ row[1] = req[t].route
  BY <1>1 DEF CreateRequest
<1> HIDE DEF row
<1>5. /\ distances \in Seq(Routes \X Nat) /\ distances' \in Seq(Routes \X Nat)
      /\ Len(distances') = Len(distances) + 1 /\ distances'[Len(distances) + 1] = row
      /\ \A i \in 1..Len(distances) : distances'[i] = distances[i]
  BY <1>1, <1>4 DEF RideInv, RideTypeOK
<1>6. RideTypeOK' /\ (tariffActive => tariff # None)' /\ BreakdownAddsUp'
  BY <1>1, <1>5 DEF RideInv, RideTypeOK, BreakdownAddsUp
<1>7. RideRequests'
  BY <1>1, <1>2, <1>3 DEF RideInv, RideRequests, RideTyping, RideKnows, Moves
<1>8. HistoryInv'
  <2>1. \A b : ~SavingStatus(req'[t], b)
    BY <1>2, <1>3 DEF SavingStatus, Moves
  <2>2. Moves(t, req'[t])
    BY <1>3 DEF Moves
  <2>3. QED
    BY <1>1, <2>1, <2>2, HistoryKept DEF RideInv
<1>9. "distance" \notin overlapped =>
         /\ \A u \in Requests \ {t} : ~Measuring(req[u], req[t].route)
         /\ \A i \in 1..Len(distances) : distances[i][1] # req[t].route
  BY <1>1 DEF RideInv, DistanceInv, CreateRequest
<1>10. DistanceInv'
  <2>1. \A route : ~Measuring(r, route)
    BY <1>2 DEF Measuring
  <2>2. ASSUME "distance" \notin overlapped, NEW u \in Requests, NEW i \in 1..Len(distances')
        PROVE  ~Measuring(req'[u], distances'[i][1])
    <3>1. CASE u = t
      BY <1>3, <2>1, <3>1 DEF Moves
    <3>2. CASE u # t /\ i \in 1..Len(distances)
      BY <1>3, <1>5, <2>2, <3>2 DEF Moves, RideInv, DistanceInv
    <3>3. CASE u # t /\ i = Len(distances) + 1
      BY <1>3, <1>4, <1>5, <1>9, <2>2, <3>3 DEF Moves
    <3>4. QED
      BY <1>5, <3>1, <3>2, <3>3
  <2>3. ASSUME "distance" \notin overlapped, NEW u \in Requests, NEW v \in Requests,
               NEW route \in Routes, Measuring(req'[u], route), Measuring(req'[v], route)
        PROVE  u = v
    BY <1>3, <2>1, <2>3 DEF Moves, RideInv, DistanceInv
  <2>4. QED
    BY <1>1, <2>2, <2>3 DEF DistanceInv, Measuring
<1>11. RouteMeasuredOnce'
  <2> SUFFICES ASSUME "distance" \notin overlapped, NEW i \in 1..Len(distances'),
                      NEW j \in 1..Len(distances'), distances'[i][1] = distances'[j][1]
               PROVE  i = j
    BY <1>1 DEF RouteMeasuredOnce
  <2>1. CASE i \in 1..Len(distances) /\ j \in 1..Len(distances)
    BY <1>5, <2>1 DEF RideInv, RouteMeasuredOnce
  <2>2. CASE i = Len(distances) + 1 /\ j \in 1..Len(distances)
    <3>1. distances'[i] = row /\ distances'[j] = distances[j]
      BY <1>5, <2>2
    <3>2. QED
      BY <1>1, <1>4, <1>9, <2>2, <3>1
  <2>3. CASE j = Len(distances) + 1 /\ i \in 1..Len(distances)
    <3>1. distances'[j] = row /\ distances'[i] = distances[i]
      BY <1>5, <2>3
    <3>2. QED
      BY <1>1, <1>4, <1>9, <2>3, <3>1
  <2>4. Len(distances) \in Nat
    BY <1>5
  <2>5. QED
    BY <1>5, <2>1, <2>2, <2>3, <2>4
<1>12. QED
  BY <1>6, <1>7, <1>8, <1>10, <1>11 DEF RideInv

(* Only a stored ride can be asked about. *)
LEMMA RideInsertStep ==
  ASSUME HandlersOK, RideInv, NEW t \in Requests, RideInsert(t)
  PROVE  RideInv'
<1> DEFINE x == [status |-> "pending_payment", history |-> <<"pending_payment">>,
                 price |-> req[t].price]
<1>1. /\ req[t].price \in Breakdown /\ AddsUp(req[t].price) /\ Finish(t)
      /\ UNCHANGED <<mapsKey, distances, tariff, tariffActive, overlapped>>
  BY DEF RideInsert, At, RideInv, RideRequests, RideTyping
<1>2. PICK b \in Fresh({b \in Rides : ride[b] = None}) : ride' = [ride EXCEPT ![b] = x]
  BY DEF RideInsert
<1>3. b \in Rides /\ ride[b] = None
  BY FreshIsFree
<1>4. "pending_payment" \in BookingStatus
  <2>1. <<"pending_payment", "paid">> \in Transitions
    BY DEF Transitions
  <2>2. QED
    BY <2>1 DEF BookingStatus
<1>5. /\ x \in Ride /\ x.status = "pending_payment" /\ x.history = <<"pending_payment">>
      /\ x.price = req[t].price /\ x # None
  <2>1. <<"pending_payment">> \in Seq(BookingStatus)
    BY <1>4
  <2>2. x \in Ride
    BY <1>1, <1>4, <2>1 DEF Ride
  <2>3. QED
    BY <2>2, RideAssumptions
<1> HIDE DEF x
<1>6. /\ ride' \in [Rides -> Ride \cup {None}] /\ ride'[b] = x
      /\ \A c \in Rides \ {b} : ride'[c] = ride[c]
  BY <1>2, <1>3, <1>5 DEF RideInv, RideTypeOK
<1>7. HandlersOK' /\ Moves(t, Idle)
  BY <1>1, FinishMoves
<1>8. RideTypeOK' /\ (tariffActive => tariff # None)' /\ RouteMeasuredOnce' /\ DistanceInv'
  <2>1. RideTypeOK' /\ (tariffActive => tariff # None)' /\ RouteMeasuredOnce'
    BY <1>1, <1>6 DEF RideInv, RideTypeOK, RouteMeasuredOnce
  <2>2. DistanceInv'
    BY <1>1, <1>7, IdleHasNoOperation DEF RideInv, DistanceInv, Measuring, Moves
  <2>3. QED
    BY <2>1, <2>2
<1>9. BreakdownAddsUp'
  BY <1>1, <1>5, <1>6 DEF RideInv, BreakdownAddsUp, AddsUp
<1>10. RideRequests'
  <2> SUFFICES ASSUME NEW u \in Requests PROVE (RideTyping(req[u]) /\ RideKnows(req[u]))'
    BY DEF RideRequests
  <2>1. CASE u = t
    BY <1>7, <2>1, IdleHasNoOperation DEF Moves, RideTyping, RideKnows
  <2>2. CASE u # t
    <3>1. RideTyping(req[u]) /\ RideKnows(req[u]) /\ req'[u] = req[u]
      BY <1>7, <2>2 DEF RideInv, RideRequests, Moves
    <3>2. req[u].op = "updateStatus" => ride'[req[u].id] # None
      BY <1>3, <1>5, <1>6, <3>1 DEF RideTyping, RideKnows, StatusRequest
    <3>3. QED
      BY <1>1, <3>1, <3>2 DEF RideTyping, RideKnows
  <2>3. QED
    BY <2>1, <2>2
<1>11. HistoryInv'
  <2>1. x.history # <<>> /\ Head(x.history) = "pending_payment" /\ Last(x.history) = x.status
        /\ Len(x.history) = 1
    BY <1>5 DEF Last
  <2>2. \A u \in Requests, c \in Rides : SavingStatus(req'[u], c) =>
           /\ u # t /\ SavingStatus(req[u], c) /\ req'[u] = req[u] /\ c # b
    BY <1>3, <1>7, IdleHasNoOperation DEF Moves, SavingStatus, RideInv, RideRequests, RideKnows
  <2>3. \A c \in Rides : ride'[c] # None =>
           History(c)' # <<>> /\ Head(History(c)') = "pending_payment"
           /\ Last(History(c)') = ride'[c].status
    BY <1>6, <2>1 DEF RideInv, HistoryInv, History
  <2>4. ASSUME "status" \notin overlapped, NEW c \in Rides, ride'[c] # None,
               NEW i \in 1..Len(History(c)') - 1
        PROVE  <<History(c)'[i], History(c)'[i + 1]>> \in Transitions
    BY <1>6, <2>1, <2>4 DEF RideInv, HistoryInv, History
  <2>5. "status" \notin overlapped =>
           /\ \A u, v \in Requests, c \in Rides :
                 SavingStatus(req'[u], c) /\ SavingStatus(req'[v], c) => u = v
           /\ \A u \in Requests, c \in Rides :
                 SavingStatus(req'[u], c) => <<ride'[c].status, req'[u].status>> \in Transitions
    BY <1>6, <2>2 DEF RideInv, HistoryInv
  <2>6. QED
    BY <1>1, <2>3, <2>4, <2>5 DEF HistoryInv, History, SavingStatus
<1>12. QED
  BY <1>8, <1>9, <1>10, <1>11 DEF RideInv

(* A history grows by the status that its last one was checked against. *)
LEMMA StatusSaveStep ==
  ASSUME HandlersOK, RideInv, NEW t \in Requests, StatusSave(t)
  PROVE  RideInv'
<1> DEFINE b == req[t].id
           s == req[t].status
           h == History(b)
           x == [ride[b] EXCEPT !.status = s, !.history = Append(h, s)]
<1>1. /\ req[t] \in StatusRequest /\ b \in Rides /\ s \in BookingStatus /\ ride[b] # None
      /\ SavingStatus(req[t], b) /\ Finish(t)
      /\ UNCHANGED <<mapsKey, distances, tariff, tariffActive, overlapped>>
  BY DEF StatusSave, At, RideInv, RideRequests, RideTyping, RideKnows, StatusRequest, SavingStatus
<1>2. ride[b] \in Ride /\ h \in Seq(BookingStatus)
  BY <1>1 DEF RideInv, RideTypeOK, History, Ride
<1>3. ride' = [ride EXCEPT ![b] = x]
  BY <1>1 DEF StatusSave, History, RideInv, RideTypeOK
<1> DEFINE g == Append(h, s)
<1>4. /\ g \in Seq(BookingStatus) /\ Len(g) = Len(h) + 1 /\ g[Len(g)] = s
      /\ \A i \in 1..Len(h) : g[i] = h[i]
  BY <1>1, <1>2
<1>5. /\ x \in Ride /\ x.status = s /\ x.history = g /\ x.price = ride[b].price /\ x # None
  BY <1>1, <1>2, <1>4, RideAssumptions DEF Ride
<1> HIDE DEF x
<1>6. /\ ride' \in [Rides -> Ride \cup {None}] /\ ride'[b] = x
      /\ \A c \in Rides \ {b} : ride'[c] = ride[c]
  BY <1>1, <1>3, <1>5 DEF RideInv, RideTypeOK
<1>7. HandlersOK' /\ Moves(t, Idle)
  BY <1>1, FinishMoves
<1>8. RideTypeOK' /\ (tariffActive => tariff # None)' /\ RouteMeasuredOnce' /\ DistanceInv'
  <2>1. RideTypeOK' /\ (tariffActive => tariff # None)' /\ RouteMeasuredOnce'
    BY <1>1, <1>6 DEF RideInv, RideTypeOK, RouteMeasuredOnce
  <2>2. DistanceInv'
    BY <1>1, <1>7, IdleHasNoOperation DEF RideInv, DistanceInv, Measuring, Moves
  <2>3. QED
    BY <2>1, <2>2
<1>9. BreakdownAddsUp'
  BY <1>1, <1>5, <1>6 DEF RideInv, BreakdownAddsUp
<1>10. RideRequests'
  <2> SUFFICES ASSUME NEW u \in Requests PROVE (RideTyping(req[u]) /\ RideKnows(req[u]))'
    BY DEF RideRequests
  <2>1. CASE u = t
    BY <1>7, <2>1, IdleHasNoOperation DEF Moves, RideTyping, RideKnows
  <2>2. CASE u # t
    <3>1. RideTyping(req[u]) /\ RideKnows(req[u]) /\ req'[u] = req[u]
      BY <1>7, <2>2 DEF RideInv, RideRequests, Moves
    <3>2. req[u].op = "updateStatus" => ride'[req[u].id] # None
      BY <1>5, <1>6, <3>1 DEF RideTyping, RideKnows, StatusRequest
    <3>3. QED
      BY <1>1, <3>1, <3>2 DEF RideTyping, RideKnows
  <2>3. QED
    BY <2>1, <2>2
<1>11. HistoryInv'
  <2>1. /\ h # <<>> /\ Head(h) = "pending_payment" /\ h[Len(h)] = ride[b].status
        /\ "status" \notin overlapped =>
              /\ <<ride[b].status, s>> \in Transitions
              /\ \A u \in Requests \ {t} : ~SavingStatus(req[u], b)
              /\ \A i \in 1..Len(h) - 1 : <<h[i], h[i + 1]>> \in Transitions
    BY <1>1 DEF RideInv, HistoryInv, History, Last
  <2>2. g # <<>> /\ Head(g) = "pending_payment" /\ Last(g) = s
    BY <1>2, <1>4, <2>1 DEF Last
  <2>3. "status" \notin overlapped => \A i \in 1..Len(g) - 1 : <<g[i], g[i + 1]>> \in Transitions
    <3> SUFFICES ASSUME "status" \notin overlapped, NEW i \in 1..Len(g) - 1
                 PROVE  <<g[i], g[i + 1]>> \in Transitions
      OBVIOUS
    <3>1. CASE i < Len(h)
      BY <1>2, <1>4, <2>1, <3>1
    <3>2. CASE i = Len(h)
      BY <1>2, <1>4, <2>1, <3>2
    <3>3. QED
      BY <1>2, <1>4, <3>1, <3>2
  <2>4. \A u \in Requests, c \in Rides : SavingStatus(req'[u], c) =>
           /\ u # t /\ SavingStatus(req[u], c) /\ req'[u] = req[u]
           /\ "status" \notin overlapped => c # b
    BY <1>7, <2>1, IdleHasNoOperation DEF Moves, SavingStatus
  <2> HIDE DEF g
  <2>5. \A c \in Rides : ride'[c] # None =>
           History(c)' # <<>> /\ Head(History(c)') = "pending_payment"
           /\ Last(History(c)') = ride'[c].status
    BY <1>5, <1>6, <2>2 DEF RideInv, HistoryInv, History
  <2>6. ASSUME "status" \notin overlapped, NEW c \in Rides, ride'[c] # None,
               NEW i \in 1..Len(History(c)') - 1
        PROVE  <<History(c)'[i], History(c)'[i + 1]>> \in Transitions
    BY <1>5, <1>6, <2>3, <2>6 DEF RideInv, HistoryInv, History
  <2>7. "status" \notin overlapped =>
           /\ \A u, v \in Requests, c \in Rides :
                 SavingStatus(req'[u], c) /\ SavingStatus(req'[v], c) => u = v
           /\ \A u \in Requests, c \in Rides :
                 SavingStatus(req'[u], c) => <<ride'[c].status, req'[u].status>> \in Transitions
    BY <1>6, <2>4 DEF RideInv, HistoryInv
  <2>8. QED
    BY <1>1, <2>5, <2>6, <2>7 DEF HistoryInv, History, SavingStatus
<1>12. QED
  BY <1>8, <1>9, <1>10, <1>11 DEF RideInv

LEMMA RuleStep ==
  ASSUME HandlersOK, RideInv, NEW t \in Requests, RuleCreate(t) \/ RuleUpdate(t) \/ RuleToggle(t)
  PROVE  RideInv'
<1>1. /\ Finish(t) /\ UNCHANGED <<mapsKey, distances, ride, overlapped>>
      /\ tariff' \in Tariffs \cup {None} /\ tariffActive' \in BOOLEAN
      /\ tariffActive' => tariff' # None
      /\ tariff # None => tariff' # None
  <2>1. RideTyping(req[t]) /\ RideKnows(req[t])
    BY DEF RideInv, RideRequests
  <2>2. CASE RuleCreate(t)
    BY <2>1, <2>2, RideAssumptions
       DEF RuleCreate, At, RideTyping, RuleRequest, RideInv, RideTypeOK
  <2>3. CASE RuleUpdate(t)
    BY <2>1, <2>3, RideAssumptions
       DEF RuleUpdate, At, RideTyping, RuleRequest, RideInv, RideTypeOK
  <2>4. CASE RuleToggle(t)
    BY <2>1, <2>4 DEF RuleToggle, At, RideTyping, RideKnows, FlagRequest, RideInv, RideTypeOK
  <2>5. QED
    BY <2>2, <2>3, <2>4
<1>2. HandlersOK' /\ Moves(t, Idle)
  BY <1>1, FinishMoves
<1>3. /\ RideTypeOK' /\ (tariffActive => tariff # None)' /\ BreakdownAddsUp' /\ RouteMeasuredOnce'
      /\ DistanceInv'
  <2>1. RideTypeOK' /\ (tariffActive => tariff # None)' /\ BreakdownAddsUp' /\ RouteMeasuredOnce'
    BY <1>1 DEF RideInv, RideTypeOK, BreakdownAddsUp, RouteMeasuredOnce
  <2>2. DistanceInv'
    BY <1>1, <1>2, IdleHasNoOperation DEF RideInv, DistanceInv, Measuring, Moves
  <2>3. QED
    BY <2>1, <2>2
<1>4. RideRequests'
  BY <1>1, <1>2, IdleHasNoOperation DEF RideInv, RideRequests, RideTyping, RideKnows, Moves
<1>5. HistoryInv'
  BY <1>1, <1>2, HistoryKept, IdleHasNoOperation DEF RideInv, SavingStatus, Moves
<1>6. QED
  BY <1>3, <1>4, <1>5 DEF RideInv

LEMMA RideAsideStep ==
  ASSUME RideInv, RideAside
  PROVE  RideInv'
<1>1. /\ UNCHANGED <<mapsKey, distances, tariff, tariffActive, ride>>
      /\ overlapped \subseteq overlapped'
      /\ \A t \in Requests : req'[t] = req[t] \/ req'[t].op \notin RideOperations
  BY DEF RideAside, rideVars, Foreign
<1>2. RideTypeOK' /\ (tariffActive => tariff # None)' /\ BreakdownAddsUp' /\ RouteMeasuredOnce'
  BY <1>1 DEF RideInv, RideTypeOK, BreakdownAddsUp, RouteMeasuredOnce
<1>3. RideRequests' /\ DistanceInv'
  BY <1>1 DEF RideOperations, RideInv, RideRequests, RideTyping, RideKnows, DistanceInv, Measuring
<1>4. HistoryInv'
  BY <1>1 DEF RideOperations, RideInv, HistoryInv, History, SavingStatus
<1>5. QED
  BY <1>2, <1>3, <1>4 DEF RideInv

LEMMA RideInvStep ==
  ASSUME HandlersOK, RideInv, RideNext \/ RideAside
  PROVE  RideInv'
<1>1. ASSUME NEW t \in Requests, RideStep(t) PROVE RideInv'
  BY <1>1, RideReadsStep, CacheStoreStep, RideInsertStep, StatusSaveStep, RuleStep
     DEF RideStep, RideReads
<1>2. QED
  BY <1>1, RideAsideStep DEF RideNext

(* What the invariant says of the stored rides. *)
LEMMA RideInvImplies == RideInv => HistoryIsLegal
BY DEF RideInv, HistoryInv, History, HistoryIsLegal

LEMMA EstimateStepOf ==
  ASSUME HandlersOK, NEW t \in Requests, Estimate(t)
  PROVE  HandlersOK' /\ StepOf(RideOperations)
<1> DEFINE r == [req[t] EXCEPT !.at = "insert",
                !.price = CalculatePrice(tariff, req[t].party, req[t].metres, req[t].surge)]
<1>1. "op" \in DOMAIN r /\ r.op = req[t].op
  BY DEF HandlersOK
<1>2. /\ Continue(t, r) \/ Continue(t, Idle)
      /\ req[t].op \in RideOperations /\ overlapped \subseteq overlapped'
  BY DEF Estimate, At, Finish, RideOperations, RideKept
<1> HIDE DEF r
<1>3. CASE Continue(t, r)
  BY <1>1, <1>2, <1>3, ContinueIsStepOf
<1>4. CASE Continue(t, Idle)
  BY <1>2, <1>4, ContinueIsStepOf, IdleHasNoOperation
<1>5. QED
  BY <1>2, <1>3, <1>4

(* What the rest of the process sees of a step of the rides. *)
LEMMA RideStepOf ==
  ASSUME HandlersOK, RideNext
  PROVE  HandlersOK' /\ StepOf(RideOperations)
<1> SUFFICES ASSUME NEW t \in Requests, RideStep(t)
             PROVE  HandlersOK' /\ StepOf(RideOperations)
  BY DEF RideNext
<1> USE DEF HandlersOK, StepOf, RideOperations, Start, Continue, Finish, Idle, At, RideKept, Overlap
<1>1. CASE RideAsk(t) \/ StatusAsk(t) \/ RuleAsk(t)
  BY <1>1 DEF RideAsk, StatusAsk, RuleAsk
<1>2. CASE CacheFind(t) \/ AskGoogle(t) \/ CacheStore(t)
  <2>1. CASE CacheFind(t)
    BY <2>1 DEF CacheFind
  <2>2. CASE AskGoogle(t) \/ CacheStore(t)
    BY <2>2 DEF AskGoogle, CacheStore
  <2>3. QED
    BY <1>2, <2>1, <2>2
<1>3. CASE Estimate(t) \/ RideInsert(t) \/ StatusFind(t) \/ StatusSave(t)
  <2>1. CASE Estimate(t)
    BY <2>1, EstimateStepOf
  <2>2. CASE StatusFind(t)
    <3>1. /\ Continue(t, [req[t] EXCEPT !.at = "save"]) \/ Finish(t)
          /\ req[t].op \in RideOperations /\ overlapped \subseteq overlapped'
      BY <2>2 DEF StatusFind
    <3>2. QED
      BY <3>1, AtIsStepOf
  <2>3. CASE RideInsert(t) \/ StatusSave(t)
    BY <2>3 DEF RideInsert, StatusSave
  <2>4. QED
    BY <1>3, <2>1, <2>2, <2>3
<1>4. CASE RuleFind(t) \/ RuleCreate(t) \/ RuleUpdate(t) \/ RuleToggle(t)
  BY <1>4 DEF RuleFind, RuleCreate, RuleUpdate, RuleToggle
<1>5. QED
  BY <1>1, <1>2, <1>3, <1>4 DEF RideStep
=============================================================================
