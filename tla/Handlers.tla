------------------------------ MODULE Handlers ------------------------------
(***************************************************************************)
(* The requests of the services that use no transaction.  A request is a   *)
(* record of what its handler has read so far and of the await it is at;   *)
(* between two awaits of one request any other request may take a step.    *)
(***************************************************************************)
EXTENDS Process, Naturals, FiniteSets, Sequences

CONSTANT
    Shifts  \* bound: the sets of operations that may be asked for together

ASSUME HandlersAssumptions == IsFiniteSet(Requests)

VARIABLES
    req,        \* the requests in flight
    shift,      \* the operations of this behaviour
    overlapped  \* history, not code: which steps of two requests overlapped

handlers == <<req, shift, overlapped>>

Idle == [op |-> "none", at |-> "idle"]

HandlersInit ==
    /\ req = [t \in Requests |-> Idle]
    /\ shift \in Shifts
    /\ overlapped = {}

(* Some of these operations are asked for in this behaviour. *)
Open(operations) == shift \cap operations # {}

(* The operation of r is asked for. *)
Start(t, r) ==
    /\ req[t] = Idle
    /\ r.op \in shift
    /\ req' = [req EXCEPT ![t] = r]
    /\ UNCHANGED shift

At(t, op, step) == req[t].op = op /\ req[t].at = step

(* The request's handler goes on with what it knows now. *)
Continue(t, r) ==
    /\ req' = [req EXCEPT ![t] = r]
    /\ UNCHANGED shift

(* The handler returns or throws. *)
Finish(t) == Continue(t, Idle)

(* Which of the documents that may come to exist an insertion creates. *)
Fresh(free) == IF free = {} THEN {} ELSE {CHOOSE d \in free : TRUE}

(* t reaches a step while another request is between two steps of its own. *)
Overlap(t, kind, Between(_)) ==
    overlapped' = IF \E u \in Requests \ {t} : Between(req[u])
                  THEN overlapped \cup {kind} ELSE overlapped

(* Any call a handler waits for may throw, and the process may die. *)
Fail(t) ==
    /\ req[t] # Idle
    /\ Finish(t)
    /\ UNCHANGED overlapped
=============================================================================
