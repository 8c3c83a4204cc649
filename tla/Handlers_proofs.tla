--------------------------- MODULE Handlers_proofs ---------------------------
(***************************************************************************)
(* What the proofs about services of one process share: a step moves one   *)
(* request of its own service, and leaves those of the others as they are. *)
(***************************************************************************)
EXTENDS Handlers, TLAPS

(* Every request in flight says which operation it is. *)
HandlersOK ==
    /\ DOMAIN req = Requests
    /\ \A t \in Requests : "op" \in DOMAIN req[t]

(* The record of a request changes, and no other one. *)
Moves(t, r) ==
    /\ req'[t] = r
    /\ \A u \in Requests \ {t} : req'[u] = req[u]

(* A step of a service with these operations. *)
StepOf(operations) ==
    /\ \A t \in Requests :
          req'[t] = req[t] \/ {req[t].op, req'[t].op} \subseteq operations \cup {"none"}
    /\ overlapped \subseteq overlapped'

(* A step of anything else in the process, of its failure, or none at all. *)
Foreign(operations) ==
    /\ \A t \in Requests : req'[t] = req[t] \/ req'[t].op \notin operations
    /\ overlapped \subseteq overlapped'

-----------------------------------------------------------------------------
LEMMA MoveOne ==
  ASSUME HandlersOK, NEW t \in Requests, NEW r, "op" \in DOMAIN r,
         req' = [req EXCEPT ![t] = r]
  PROVE  HandlersOK' /\ Moves(t, r)
BY DEF HandlersOK, Moves

LEMMA IdleHasNoOperation == Idle.op = "none" /\ Idle.at = "idle" /\ "op" \in DOMAIN Idle
BY DEF Idle

LEMMA FinishMoves ==
  ASSUME HandlersOK, NEW t \in Requests, Finish(t)
  PROVE  HandlersOK' /\ Moves(t, Idle)
BY MoveOne, IdleHasNoOperation DEF Finish, Continue

LEMMA StartMoves ==
  ASSUME HandlersOK, NEW t \in Requests, NEW r, "op" \in DOMAIN r, Start(t, r)
  PROVE  HandlersOK' /\ Moves(t, r)
BY MoveOne DEF Start

LEMMA ContinueMoves ==
  ASSUME HandlersOK, NEW t \in Requests, NEW r, "op" \in DOMAIN r, Continue(t, r)
  PROVE  HandlersOK' /\ Moves(t, r)
BY MoveOne DEF Continue

LEMMA ContinueIsStepOf ==
  ASSUME HandlersOK, NEW t \in Requests, NEW r, NEW operations, Continue(t, r),
         "op" \in DOMAIN r, {req[t].op, r.op} \subseteq operations \cup {"none"},
         overlapped \subseteq overlapped'
  PROVE  HandlersOK' /\ StepOf(operations)
BY ContinueMoves DEF Moves, StepOf

(* Most steps only bring their request to the next await. *)
LEMMA AtIsStepOf ==
  ASSUME HandlersOK, NEW t \in Requests, NEW operations, NEW v,
         Continue(t, [req[t] EXCEPT !.at = v]) \/ Finish(t),
         req[t].op \in operations, overlapped \subseteq overlapped'
  PROVE  HandlersOK' /\ StepOf(operations)
<1>1. /\ "op" \in DOMAIN [req[t] EXCEPT !.at = v]
      /\ [req[t] EXCEPT !.at = v].op = req[t].op
  BY DEF HandlersOK
<1>2. QED
  BY <1>1, ContinueIsStepOf, IdleHasNoOperation DEF Finish

LEMMA InitOK == HandlersInit => HandlersOK
BY IdleHasNoOperation DEF HandlersInit, HandlersOK

LEMMA FreshIsFree ==
  ASSUME NEW free PROVE \A d \in Fresh(free) : d \in free
BY DEF Fresh

LEMMA FailIsForeign ==
  ASSUME HandlersOK, NEW t \in Requests, Fail(t), NEW operations, "none" \notin operations
  PROVE  HandlersOK' /\ Foreign(operations)
BY FinishMoves, IdleHasNoOperation DEF Fail, Moves, Foreign

LEMMA OthersAreForeign ==
  ASSUME NEW mine, NEW others, StepOf(others), mine \cap others = {}, "none" \notin mine
  PROVE  /\ Foreign(mine)
         /\ \A t \in Requests : req[t].op \in mine => req'[t] = req[t]
BY DEF StepOf, Foreign
=============================================================================
