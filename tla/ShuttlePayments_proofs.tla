----------------------- MODULE ShuttlePayments_proofs ----------------------
(***************************************************************************)
(* Proofs about ShuttlePayments, for any sets of bookings, references and  *)
(* requests.                                                               *)
(***************************************************************************)
EXTENDS ShuttlePayments, TLAPS

(* A request in flight has a booking, and past its first step a reference of a
   transaction that was opened at Paystack. *)
Holding == Steps \ {"idle", "init", "delete"}

HeldOK ==
    \A t \in Requests :
        /\ pc[t] # "idle" => target[t] \in Bookings
        /\ pc[t] \in Holding => /\ reference[t] \in Refs
                                /\ charge[reference[t]] # "unused"

(* A transaction Paystack knows carries the id of a booking. *)
SourceOK == \A r \in Refs : charge[r] # "unused" => source[r] \in Bookings

TypeInv == TypeOK /\ HeldOK /\ SourceOK

-----------------------------------------------------------------------------
(* What a handler may still rely on after its awaits. *)

LateSteps == {"late_notify", "late_refund", "late_mark", "late_log"}

ConfirmSteps == {"confirm", "log", "commit", "notify", "verify_save", "verify_log"}

(* The reference a request carries was opened for the booking it carries, and
   the customer paid it unless the request is the one that opened it. *)
HeldInv ==
    \A t \in Requests :
        /\ pc[t] \in Holding => source[reference[t]] = target[t]
        /\ pc[t] = "init_save" => charge[reference[t]] = "created"
        /\ pc[t] \in LateSteps \cup {"verify"} => Charged(reference[t])
        /\ pc[t] \in ConfirmSteps => charge[reference[t]] = "exact"

(* A transaction just created is known to the request that created it alone. *)
OpenedOnce ==
    \A t, u \in Requests :
        pc[t] = "init_save" /\ pc[u] = "init_save" /\ t # u
            => reference[t] # reference[u]

LateInv == \A t \in Requests : pc[t] \in LateSteps => Lapsed(target[t])

(* Between its updateOne and its commit a confirming transaction holds the
   document, still RESERVED. *)
LockInv ==
    \A t \in Requests :
        pc[t] \in {"log", "commit"} =>
            txnLock[target[t]] = t /\ status[target[t]] = "reserved"

(* These handlers found or made the booking something else than RESERVED, and
   nothing makes it RESERVED again. *)
LeftInv ==
    \A t \in Requests :
        pc[t] \in {"notify", "late_log", "delete"} => status[target[t]] # "reserved"

AuditInv ==
    /\ \A r \in Refs : <<"PAYMENT_SUCCESS", r>> \in audit => charge[r] = "exact"
    /\ \A t \in Requests :
        pc[t] = "commit" => <<"PAYMENT_SUCCESS", reference[t]>> \in audit

-----------------------------------------------------------------------------
(* The types alone are not inductive: what a handler writes is what it kept
   over its awaits, so the invariant also types that. *)
LEMMA TypeInit == Init => TypeInv
BY NoneIsFresh
   DEF Init, TypeInv, TypeOK, HeldOK, SourceOK, Status, PaidAt, Age, Charge,
       Delivery, Refund, Steps, Holding

LEMMA TypeStep == TypeInv /\ [Next]_vars => TypeInv'
<1> SUFFICES ASSUME TypeInv, [Next]_vars PROVE TypeInv'
  OBVIOUS
<1> USE NoneIsFresh
    DEF TypeInv, TypeOK, HeldOK, SourceOK, Status, PaidAt, Age, Charge, Charged,
        Delivery, Refund, AuditAction, Steps, Holding, Start, Advance, Finish,
        Acknowledge, doc, paystack, requests
<1>1. ASSUME NEW t \in Requests, NEW b \in Bookings, InitRead(t, b) PROVE TypeInv'
  BY <1>1 DEF InitRead
<1>2. ASSUME NEW t \in Requests, NEW r \in Refs, InitPaystack(t, r) PROVE TypeInv'
  BY <1>2 DEF InitPaystack
<1>3. ASSUME NEW t \in Requests, InitSave(t) PROVE TypeInv'
  <2>1. CASE status[target[t]] = "absent"
    BY <1>3, <2>1 DEF InitSave
  <2>2. CASE status[target[t]] # "absent"
    <3>1. /\ target[t] \in Bookings
          /\ reference[t] \in Refs
          /\ charge[reference[t]] # "unused"
      BY <1>3 DEF InitSave
    <3>2. paymentReference' \in [Bookings -> Refs \cup {None}]
      BY <1>3, <2>2, <3>1 DEF InitSave
    <3>3. charge' \in [Refs -> Charge] /\ SourceOK'
      BY <1>3, <2>2, <3>1 DEF InitSave
    <3>4. HeldOK'
      BY <1>3, <2>2, <3>1 DEF InitSave
    <3>5. QED
      BY <1>3, <2>2, <3>2, <3>3, <3>4 DEF InitSave
  <2>3. QED
    BY <2>1, <2>2
<1>4. ASSUME NEW t \in Requests, NEW r \in Refs, WebhookRead(t, r) PROVE TypeInv'
  BY <1>4 DEF WebhookRead
<1>5. ASSUME NEW t \in Requests, ConfirmUpdate(t) PROVE TypeInv'
  BY <1>5 DEF ConfirmUpdate
<1>6. ASSUME NEW t \in Requests, ConfirmLog(t) PROVE TypeInv'
  BY <1>6 DEF ConfirmLog
<1>7. ASSUME NEW t \in Requests, ConfirmCommit(t) PROVE TypeInv'
  BY <1>7 DEF ConfirmCommit
<1>8. ASSUME NEW t \in Requests, ConfirmNotify(t) PROVE TypeInv'
  BY <1>8 DEF ConfirmNotify
<1>9. ASSUME NEW t \in Requests, LateNotify(t) PROVE TypeInv'
  BY <1>9 DEF LateNotify
<1>10. ASSUME NEW t \in Requests, LateRefund(t) PROVE TypeInv'
  BY <1>10 DEF LateRefund
<1>11. ASSUME NEW t \in Requests, LateMark(t) PROVE TypeInv'
  BY <1>11 DEF LateMark
<1>12. ASSUME NEW t \in Requests, LateLog(t) PROVE TypeInv'
  BY <1>12 DEF LateLog
<1>13. ASSUME NEW t \in Requests, NEW r \in Refs, VerifyCharge(t, r) PROVE TypeInv'
  BY <1>13 DEF VerifyCharge
<1>14. ASSUME NEW t \in Requests, NEW b \in Bookings, Reconcile(t, b) PROVE TypeInv'
  BY <1>14 DEF Reconcile
<1>15. ASSUME NEW t \in Requests, VerifyRead(t) PROVE TypeInv'
  BY <1>15 DEF VerifyRead
<1>16. ASSUME NEW t \in Requests, VerifySave(t) PROVE TypeInv'
  <2>1. CASE status[target[t]] = "absent"
    BY <1>16, <2>1 DEF VerifySave
  <2>2. CASE status[target[t]] # "absent"
    <3>1. /\ status' \in [Bookings -> Status]
          /\ paidAt' \in [Bookings -> PaidAt]
      BY <1>16, <2>2 DEF VerifySave
    <3>2. paymentVerified' = [paymentVerified EXCEPT ![target[t]] = TRUE]
      BY <1>16, <2>2 DEF VerifySave
    <3>3. paymentVerified' \in [Bookings -> BOOLEAN]
      BY <3>2
    <3>4. HeldOK'
      BY <1>16, <2>2 DEF VerifySave
    <3>5. QED
      BY <1>16, <2>2, <3>1, <3>3, <3>4 DEF VerifySave
  <2>3. QED
    BY <2>1, <2>2
<1>17. ASSUME NEW t \in Requests, VerifyLog(t) PROVE TypeInv'
  BY <1>17 DEF VerifyLog
<1>18. ASSUME NEW b \in Bookings, Expire(b) PROVE TypeInv'
  BY <1>18 DEF Expire
<1>19. ASSUME NEW t \in Requests, NEW b \in Bookings, DeleteRead(t, b) PROVE TypeInv'
  BY <1>19 DEF DeleteRead
<1>20. ASSUME NEW t \in Requests, DeleteWrite(t) PROVE TypeInv'
  BY <1>20 DEF DeleteWrite
<1>21. ASSUME NEW t \in Requests, Fail(t) PROVE TypeInv'
  BY <1>21 DEF Fail
<1>22. ASSUME NEW r \in Refs, Pay(r) PROVE TypeInv'
  BY <1>22 DEF Pay
<1>23. ASSUME NEW r \in Refs, GiveUp(r) PROVE TypeInv'
  BY <1>23 DEF GiveUp
<1>24. ASSUME NEW b \in Bookings, Tick(b) PROVE TypeInv'
  BY <1>24 DEF Tick, Later
<1>25. CASE UNCHANGED vars
  BY <1>25 DEF vars
<1>26. QED
  BY <1>1, <1>2, <1>3, <1>4, <1>5, <1>6, <1>7, <1>8, <1>9, <1>10, <1>11, <1>12,
     <1>13, <1>14, <1>15, <1>16, <1>17, <1>18, <1>19, <1>20, <1>21, <1>22, <1>23,
     <1>24, <1>25 DEF Next, Handle

(* Every field of the document, of Paystack's records and of a request keeps
   its type: no handler stores a reference or a booking it does not have. *)
THEOREM TypeCorrect == Spec => []TypeOK
<1>1. TypeInv => TypeOK
  BY DEF TypeInv
<1>2. QED
  BY <1>1, TypeInit, TypeStep, PTL DEF Spec

-----------------------------------------------------------------------------
(* Each request keeps what its reference stands for: a new reference is unused at
   Paystack, and charges are final. *)
LEMMA HeldStep ==
  TypeInv /\ HeldInv /\ OpenedOnce /\ [Next]_vars
    => HeldInv' /\ OpenedOnce'
<1> SUFFICES ASSUME TypeInv, HeldInv, OpenedOnce, [Next]_vars
             PROVE HeldInv' /\ OpenedOnce'
  OBVIOUS
<1> USE DEF TypeInv, TypeOK, HeldOK, SourceOK, HeldInv, OpenedOnce, Steps, Holding,
    LateSteps, ConfirmSteps, Charge, Charged, Start, Advance, Finish, Acknowledge, doc,
       paystack, requests
<1>1. ASSUME NEW t \in Requests, NEW b \in Bookings, InitRead(t, b)
      PROVE HeldInv' /\ OpenedOnce'
  BY <1>1 DEF InitRead
<1>2. ASSUME NEW t \in Requests, NEW r \in Refs, InitPaystack(t, r)
      PROVE HeldInv' /\ OpenedOnce'
  BY <1>2 DEF InitPaystack
<1>3. ASSUME NEW t \in Requests, InitSave(t) PROVE HeldInv' /\ OpenedOnce'
  BY <1>3 DEF InitSave
<1>4. ASSUME NEW t \in Requests, NEW r \in Refs, WebhookRead(t, r)
      PROVE HeldInv' /\ OpenedOnce'
  BY <1>4 DEF WebhookRead, Ignored, Charged
<1>5. ASSUME NEW t \in Requests, ConfirmUpdate(t) PROVE HeldInv' /\ OpenedOnce'
  BY <1>5 DEF ConfirmUpdate, ConfirmMatches
<1>6. ASSUME NEW t \in Requests, ConfirmLog(t) PROVE HeldInv' /\ OpenedOnce'
  BY <1>6 DEF ConfirmLog
<1>7. ASSUME NEW t \in Requests, ConfirmCommit(t) PROVE HeldInv' /\ OpenedOnce'
  BY <1>7 DEF ConfirmCommit
<1>8. ASSUME NEW t \in Requests, ConfirmNotify(t) PROVE HeldInv' /\ OpenedOnce'
  BY <1>8 DEF ConfirmNotify
<1>9. ASSUME NEW t \in Requests, LateNotify(t) PROVE HeldInv' /\ OpenedOnce'
  BY <1>9 DEF LateNotify
<1>10. ASSUME NEW t \in Requests, LateRefund(t) PROVE HeldInv' /\ OpenedOnce'
  BY <1>10 DEF LateRefund
<1>11. ASSUME NEW t \in Requests, LateMark(t) PROVE HeldInv' /\ OpenedOnce'
  BY <1>11 DEF LateMark, MarkMatches
<1>12. ASSUME NEW t \in Requests, LateLog(t) PROVE HeldInv' /\ OpenedOnce'
  BY <1>12 DEF LateLog
<1>13. ASSUME NEW t \in Requests, NEW r \in Refs, VerifyCharge(t, r)
      PROVE HeldInv' /\ OpenedOnce'
  BY <1>13 DEF VerifyCharge, Charged
<1>14. ASSUME NEW t \in Requests, NEW b \in Bookings, Reconcile(t, b)
      PROVE HeldInv' /\ OpenedOnce'
  BY <1>14 DEF Reconcile, Charged
<1>15. ASSUME NEW t \in Requests, VerifyRead(t) PROVE HeldInv' /\ OpenedOnce'
  BY <1>15 DEF VerifyRead, VerifyDeclines
<1>16. ASSUME NEW t \in Requests, VerifySave(t) PROVE HeldInv' /\ OpenedOnce'
  BY <1>16 DEF VerifySave
<1>17. ASSUME NEW t \in Requests, VerifyLog(t) PROVE HeldInv' /\ OpenedOnce'
  BY <1>17 DEF VerifyLog
<1>18. ASSUME NEW b \in Bookings, Expire(b) PROVE HeldInv' /\ OpenedOnce'
  BY <1>18 DEF Expire, Expirable
<1>19. ASSUME NEW t \in Requests, NEW b \in Bookings, DeleteRead(t, b)
      PROVE HeldInv' /\ OpenedOnce'
  BY <1>19 DEF DeleteRead, Deletable
<1>20. ASSUME NEW t \in Requests, DeleteWrite(t) PROVE HeldInv' /\ OpenedOnce'
  BY <1>20 DEF DeleteWrite
<1>21. ASSUME NEW t \in Requests, Fail(t) PROVE HeldInv' /\ OpenedOnce'
  BY <1>21 DEF Fail
<1>22. ASSUME NEW r \in Refs, Pay(r) PROVE HeldInv' /\ OpenedOnce'
  BY <1>22 DEF Pay
<1>23. ASSUME NEW r \in Refs, GiveUp(r) PROVE HeldInv' /\ OpenedOnce'
  BY <1>23 DEF GiveUp
<1>24. ASSUME NEW b \in Bookings, Tick(b) PROVE HeldInv' /\ OpenedOnce'
  BY <1>24 DEF Tick, Later
<1>25. CASE UNCHANGED vars
  BY <1>25 DEF vars
<1>26. QED
  BY <1>1, <1>2, <1>3, <1>4, <1>5, <1>6, <1>7, <1>8, <1>9, <1>10, <1>11, <1>12, <1>13,
     <1>14, <1>15, <1>16, <1>17, <1>18, <1>19, <1>20, <1>21, <1>22, <1>23, <1>24, <1>25
     DEF Next, Handle

(* The window of a reservation, once closed, stays closed. *)
LEMMA LateStep == TypeInv /\ LateInv /\ [Next]_vars => LateInv'
<1> SUFFICES ASSUME TypeInv, LateInv, [Next]_vars PROVE LateInv'
  OBVIOUS
<1> USE DEF TypeInv, TypeOK, HeldOK, LateInv, Steps, Holding, LateSteps, Age, Lapsed,
    Start, Advance, Finish, Acknowledge, doc, paystack, requests
<1>1. ASSUME NEW t \in Requests, NEW b \in Bookings, InitRead(t, b) PROVE LateInv'
  BY <1>1 DEF InitRead
<1>2. ASSUME NEW t \in Requests, NEW r \in Refs, InitPaystack(t, r) PROVE LateInv'
  BY <1>2 DEF InitPaystack
<1>3. ASSUME NEW t \in Requests, InitSave(t) PROVE LateInv'
  BY <1>3 DEF InitSave
<1>4. ASSUME NEW t \in Requests, NEW r \in Refs, WebhookRead(t, r) PROVE LateInv'
  BY <1>4 DEF WebhookRead, Ignored, Charged
<1>5. ASSUME NEW t \in Requests, ConfirmUpdate(t) PROVE LateInv'
  BY <1>5 DEF ConfirmUpdate, ConfirmMatches
<1>6. ASSUME NEW t \in Requests, ConfirmLog(t) PROVE LateInv'
  BY <1>6 DEF ConfirmLog
<1>7. ASSUME NEW t \in Requests, ConfirmCommit(t) PROVE LateInv'
  BY <1>7 DEF ConfirmCommit
<1>8. ASSUME NEW t \in Requests, ConfirmNotify(t) PROVE LateInv'
  BY <1>8 DEF ConfirmNotify
<1>9. ASSUME NEW t \in Requests, LateNotify(t) PROVE LateInv'
  BY <1>9 DEF LateNotify
<1>10. ASSUME NEW t \in Requests, LateRefund(t) PROVE LateInv'
  BY <1>10 DEF LateRefund
<1>11. ASSUME NEW t \in Requests, LateMark(t) PROVE LateInv'
  BY <1>11 DEF LateMark, MarkMatches
<1>12. ASSUME NEW t \in Requests, LateLog(t) PROVE LateInv'
  BY <1>12 DEF LateLog
<1>13. ASSUME NEW t \in Requests, NEW r \in Refs, VerifyCharge(t, r) PROVE LateInv'
  BY <1>13 DEF VerifyCharge, Charged
<1>14. ASSUME NEW t \in Requests, NEW b \in Bookings, Reconcile(t, b) PROVE LateInv'
  BY <1>14 DEF Reconcile, Charged
<1>15. ASSUME NEW t \in Requests, VerifyRead(t) PROVE LateInv'
  BY <1>15 DEF VerifyRead, VerifyDeclines
<1>16. ASSUME NEW t \in Requests, VerifySave(t) PROVE LateInv'
  BY <1>16 DEF VerifySave
<1>17. ASSUME NEW t \in Requests, VerifyLog(t) PROVE LateInv'
  BY <1>17 DEF VerifyLog
<1>18. ASSUME NEW b \in Bookings, Expire(b) PROVE LateInv'
  BY <1>18 DEF Expire, Expirable
<1>19. ASSUME NEW t \in Requests, NEW b \in Bookings, DeleteRead(t, b) PROVE LateInv'
  BY <1>19 DEF DeleteRead, Deletable
<1>20. ASSUME NEW t \in Requests, DeleteWrite(t) PROVE LateInv'
  BY <1>20 DEF DeleteWrite
<1>21. ASSUME NEW t \in Requests, Fail(t) PROVE LateInv'
  BY <1>21 DEF Fail
<1>22. ASSUME NEW r \in Refs, Pay(r) PROVE LateInv'
  BY <1>22 DEF Pay
<1>23. ASSUME NEW r \in Refs, GiveUp(r) PROVE LateInv'
  BY <1>23 DEF GiveUp
<1>24. ASSUME NEW b \in Bookings, Tick(b) PROVE LateInv'
  BY <1>24 DEF Tick, Later
<1>25. CASE UNCHANGED vars
  BY <1>25 DEF vars
<1>26. QED
  BY <1>1, <1>2, <1>3, <1>4, <1>5, <1>6, <1>7, <1>8, <1>9, <1>10, <1>11, <1>12, <1>13,
     <1>14, <1>15, <1>16, <1>17, <1>18, <1>19, <1>20, <1>21, <1>22, <1>23, <1>24, <1>25
     DEF Next, Handle

(* No writer gets at a document that a confirming transaction wrote. *)
LEMMA LockStep == TypeInv /\ LockInv /\ [Next]_vars => LockInv'
<1> SUFFICES ASSUME TypeInv, LockInv, [Next]_vars PROVE LockInv'
  OBVIOUS
<1> USE NoneIsFresh DEF TypeInv, TypeOK, HeldOK, LockInv, Steps, Holding, Unlocked,
    Start, Advance, Finish, Acknowledge, doc, paystack, requests
<1>1. ASSUME NEW t \in Requests, NEW b \in Bookings, InitRead(t, b) PROVE LockInv'
  BY <1>1 DEF InitRead
<1>2. ASSUME NEW t \in Requests, NEW r \in Refs, InitPaystack(t, r) PROVE LockInv'
  BY <1>2 DEF InitPaystack
<1>3. ASSUME NEW t \in Requests, InitSave(t) PROVE LockInv'
  BY <1>3 DEF InitSave
<1>4. ASSUME NEW t \in Requests, NEW r \in Refs, WebhookRead(t, r) PROVE LockInv'
  BY <1>4 DEF WebhookRead, Ignored, Charged
<1>5. ASSUME NEW t \in Requests, ConfirmUpdate(t) PROVE LockInv'
  BY <1>5 DEF ConfirmUpdate, ConfirmMatches
<1>6. ASSUME NEW t \in Requests, ConfirmLog(t) PROVE LockInv'
  BY <1>6 DEF ConfirmLog
<1>7. ASSUME NEW t \in Requests, ConfirmCommit(t) PROVE LockInv'
  BY <1>7 DEF ConfirmCommit
<1>8. ASSUME NEW t \in Requests, ConfirmNotify(t) PROVE LockInv'
  BY <1>8 DEF ConfirmNotify
<1>9. ASSUME NEW t \in Requests, LateNotify(t) PROVE LockInv'
  BY <1>9 DEF LateNotify
<1>10. ASSUME NEW t \in Requests, LateRefund(t) PROVE LockInv'
  BY <1>10 DEF LateRefund
<1>11. ASSUME NEW t \in Requests, LateMark(t) PROVE LockInv'
  BY <1>11 DEF LateMark, MarkMatches
<1>12. ASSUME NEW t \in Requests, LateLog(t) PROVE LockInv'
  BY <1>12 DEF LateLog
<1>13. ASSUME NEW t \in Requests, NEW r \in Refs, VerifyCharge(t, r) PROVE LockInv'
  BY <1>13 DEF VerifyCharge, Charged
<1>14. ASSUME NEW t \in Requests, NEW b \in Bookings, Reconcile(t, b) PROVE LockInv'
  BY <1>14 DEF Reconcile, Charged
<1>15. ASSUME NEW t \in Requests, VerifyRead(t) PROVE LockInv'
  BY <1>15 DEF VerifyRead, VerifyDeclines
<1>16. ASSUME NEW t \in Requests, VerifySave(t) PROVE LockInv'
  BY <1>16 DEF VerifySave
<1>17. ASSUME NEW t \in Requests, VerifyLog(t) PROVE LockInv'
  BY <1>17 DEF VerifyLog
<1>18. ASSUME NEW b \in Bookings, Expire(b) PROVE LockInv'
  BY <1>18 DEF Expire, Expirable
<1>19. ASSUME NEW t \in Requests, NEW b \in Bookings, DeleteRead(t, b) PROVE LockInv'
  BY <1>19 DEF DeleteRead, Deletable
<1>20. ASSUME NEW t \in Requests, DeleteWrite(t) PROVE LockInv'
  BY <1>20 DEF DeleteWrite
<1>21. ASSUME NEW t \in Requests, Fail(t) PROVE LockInv'
  BY <1>21 DEF Fail
<1>22. ASSUME NEW r \in Refs, Pay(r) PROVE LockInv'
  BY <1>22 DEF Pay
<1>23. ASSUME NEW r \in Refs, GiveUp(r) PROVE LockInv'
  BY <1>23 DEF GiveUp
<1>24. ASSUME NEW b \in Bookings, Tick(b) PROVE LockInv'
  BY <1>24 DEF Tick, Later
<1>25. CASE UNCHANGED vars
  BY <1>25 DEF vars
<1>26. QED
  BY <1>1, <1>2, <1>3, <1>4, <1>5, <1>6, <1>7, <1>8, <1>9, <1>10, <1>11, <1>12, <1>13,
     <1>14, <1>15, <1>16, <1>17, <1>18, <1>19, <1>20, <1>21, <1>22, <1>23, <1>24, <1>25
     DEF Next, Handle

(* Nothing makes a booking RESERVED again, and a late payment's mark misses only
   bookings that are gone or PAID. *)
LEMMA LeftStep ==
  TypeInv /\ LockInv /\ LeftInv /\ VerifiedIffPaid /\ [Next]_vars
    => LeftInv'
<1> SUFFICES ASSUME TypeInv, LockInv, LeftInv, VerifiedIffPaid, [Next]_vars
             PROVE LeftInv'
  OBVIOUS
<1> USE DEF TypeInv, TypeOK, HeldOK, LockInv, LeftInv, VerifiedIffPaid, Steps, Holding,
    Status, Start, Advance, Finish, Acknowledge, doc, paystack, requests
<1>1. ASSUME NEW t \in Requests, NEW b \in Bookings, InitRead(t, b) PROVE LeftInv'
  BY <1>1 DEF InitRead
<1>2. ASSUME NEW t \in Requests, NEW r \in Refs, InitPaystack(t, r) PROVE LeftInv'
  BY <1>2 DEF InitPaystack
<1>3. ASSUME NEW t \in Requests, InitSave(t) PROVE LeftInv'
  BY <1>3 DEF InitSave
<1>4. ASSUME NEW t \in Requests, NEW r \in Refs, WebhookRead(t, r) PROVE LeftInv'
  BY <1>4 DEF WebhookRead, Ignored, Charged
<1>5. ASSUME NEW t \in Requests, ConfirmUpdate(t) PROVE LeftInv'
  BY <1>5 DEF ConfirmUpdate, ConfirmMatches
<1>6. ASSUME NEW t \in Requests, ConfirmLog(t) PROVE LeftInv'
  BY <1>6 DEF ConfirmLog
<1>7. ASSUME NEW t \in Requests, ConfirmCommit(t) PROVE LeftInv'
  BY <1>7 DEF ConfirmCommit
<1>8. ASSUME NEW t \in Requests, ConfirmNotify(t) PROVE LeftInv'
  BY <1>8 DEF ConfirmNotify
<1>9. ASSUME NEW t \in Requests, LateNotify(t) PROVE LeftInv'
  BY <1>9 DEF LateNotify
<1>10. ASSUME NEW t \in Requests, LateRefund(t) PROVE LeftInv'
  BY <1>10 DEF LateRefund
<1>11. ASSUME NEW t \in Requests, LateMark(t) PROVE LeftInv'
  BY <1>11 DEF LateMark, MarkMatches
<1>12. ASSUME NEW t \in Requests, LateLog(t) PROVE LeftInv'
  BY <1>12 DEF LateLog
<1>13. ASSUME NEW t \in Requests, NEW r \in Refs, VerifyCharge(t, r) PROVE LeftInv'
  BY <1>13 DEF VerifyCharge, Charged
<1>14. ASSUME NEW t \in Requests, NEW b \in Bookings, Reconcile(t, b) PROVE LeftInv'
  BY <1>14 DEF Reconcile, Charged
<1>15. ASSUME NEW t \in Requests, VerifyRead(t) PROVE LeftInv'
  BY <1>15 DEF VerifyRead, VerifyDeclines
<1>16. ASSUME NEW t \in Requests, VerifySave(t) PROVE LeftInv'
  BY <1>16 DEF VerifySave
<1>17. ASSUME NEW t \in Requests, VerifyLog(t) PROVE LeftInv'
  BY <1>17 DEF VerifyLog
<1>18. ASSUME NEW b \in Bookings, Expire(b) PROVE LeftInv'
  BY <1>18 DEF Expire, Expirable
<1>19. ASSUME NEW t \in Requests, NEW b \in Bookings, DeleteRead(t, b) PROVE LeftInv'
  BY <1>19 DEF DeleteRead, Deletable
<1>20. ASSUME NEW t \in Requests, DeleteWrite(t) PROVE LeftInv'
  BY <1>20 DEF DeleteWrite
<1>21. ASSUME NEW t \in Requests, Fail(t) PROVE LeftInv'
  BY <1>21 DEF Fail
<1>22. ASSUME NEW r \in Refs, Pay(r) PROVE LeftInv'
  BY <1>22 DEF Pay
<1>23. ASSUME NEW r \in Refs, GiveUp(r) PROVE LeftInv'
  BY <1>23 DEF GiveUp
<1>24. ASSUME NEW b \in Bookings, Tick(b) PROVE LeftInv'
  BY <1>24 DEF Tick, Later
<1>25. CASE UNCHANGED vars
  BY <1>25 DEF vars
<1>26. QED
  BY <1>1, <1>2, <1>3, <1>4, <1>5, <1>6, <1>7, <1>8, <1>9, <1>10, <1>11, <1>12, <1>13,
     <1>14, <1>15, <1>16, <1>17, <1>18, <1>19, <1>20, <1>21, <1>22, <1>23, <1>24, <1>25
     DEF Next, Handle

(* The audit entry is there before the commit, and stays. *)
LEMMA AuditStep == TypeInv /\ HeldInv /\ AuditInv /\ [Next]_vars => AuditInv'
<1> SUFFICES ASSUME TypeInv, HeldInv, AuditInv, [Next]_vars PROVE AuditInv'
  OBVIOUS
<1> USE DEF TypeInv, TypeOK, HeldOK, HeldInv, AuditInv, Steps, Holding, LateSteps,
    ConfirmSteps, Charge, Start, Advance, Finish, Acknowledge, doc, paystack, requests
<1>1. ASSUME NEW t \in Requests, NEW b \in Bookings, InitRead(t, b) PROVE AuditInv'
  BY <1>1 DEF InitRead
<1>2. ASSUME NEW t \in Requests, NEW r \in Refs, InitPaystack(t, r) PROVE AuditInv'
  BY <1>2 DEF InitPaystack
<1>3. ASSUME NEW t \in Requests, InitSave(t) PROVE AuditInv'
  BY <1>3 DEF InitSave
<1>4. ASSUME NEW t \in Requests, NEW r \in Refs, WebhookRead(t, r) PROVE AuditInv'
  BY <1>4 DEF WebhookRead, Ignored, Charged
<1>5. ASSUME NEW t \in Requests, ConfirmUpdate(t) PROVE AuditInv'
  BY <1>5 DEF ConfirmUpdate, ConfirmMatches
<1>6. ASSUME NEW t \in Requests, ConfirmLog(t) PROVE AuditInv'
  BY <1>6 DEF ConfirmLog
<1>7. ASSUME NEW t \in Requests, ConfirmCommit(t) PROVE AuditInv'
  BY <1>7 DEF ConfirmCommit
<1>8. ASSUME NEW t \in Requests, ConfirmNotify(t) PROVE AuditInv'
  BY <1>8 DEF ConfirmNotify
<1>9. ASSUME NEW t \in Requests, LateNotify(t) PROVE AuditInv'
  BY <1>9 DEF LateNotify
<1>10. ASSUME NEW t \in Requests, LateRefund(t) PROVE AuditInv'
  BY <1>10 DEF LateRefund
<1>11. ASSUME NEW t \in Requests, LateMark(t) PROVE AuditInv'
  BY <1>11 DEF LateMark, MarkMatches
<1>12. ASSUME NEW t \in Requests, LateLog(t) PROVE AuditInv'
  BY <1>12 DEF LateLog
<1>13. ASSUME NEW t \in Requests, NEW r \in Refs, VerifyCharge(t, r) PROVE AuditInv'
  BY <1>13 DEF VerifyCharge, Charged
<1>14. ASSUME NEW t \in Requests, NEW b \in Bookings, Reconcile(t, b) PROVE AuditInv'
  BY <1>14 DEF Reconcile, Charged
<1>15. ASSUME NEW t \in Requests, VerifyRead(t) PROVE AuditInv'
  BY <1>15 DEF VerifyRead, VerifyDeclines
<1>16. ASSUME NEW t \in Requests, VerifySave(t) PROVE AuditInv'
  BY <1>16 DEF VerifySave
<1>17. ASSUME NEW t \in Requests, VerifyLog(t) PROVE AuditInv'
  BY <1>17 DEF VerifyLog
<1>18. ASSUME NEW b \in Bookings, Expire(b) PROVE AuditInv'
  BY <1>18 DEF Expire, Expirable
<1>19. ASSUME NEW t \in Requests, NEW b \in Bookings, DeleteRead(t, b) PROVE AuditInv'
  BY <1>19 DEF DeleteRead, Deletable
<1>20. ASSUME NEW t \in Requests, DeleteWrite(t) PROVE AuditInv'
  BY <1>20 DEF DeleteWrite
<1>21. ASSUME NEW t \in Requests, Fail(t) PROVE AuditInv'
  BY <1>21 DEF Fail
<1>22. ASSUME NEW r \in Refs, Pay(r) PROVE AuditInv'
  BY <1>22 DEF Pay
<1>23. ASSUME NEW r \in Refs, GiveUp(r) PROVE AuditInv'
  BY <1>23 DEF GiveUp
<1>24. ASSUME NEW b \in Bookings, Tick(b) PROVE AuditInv'
  BY <1>24 DEF Tick, Later
<1>25. CASE UNCHANGED vars
  BY <1>25 DEF vars
<1>26. QED
  BY <1>1, <1>2, <1>3, <1>4, <1>5, <1>6, <1>7, <1>8, <1>9, <1>10, <1>11, <1>12, <1>13,
     <1>14, <1>15, <1>16, <1>17, <1>18, <1>19, <1>20, <1>21, <1>22, <1>23, <1>24, <1>25
     DEF Next, Handle

(* The handlers that write the document. *)
WritesDoc ==
    \/ \E t \in Requests :
        InitSave(t) \/ ConfirmCommit(t) \/ LateMark(t) \/ VerifySave(t) \/
        DeleteWrite(t)
    \/ \E b \in Bookings : Expire(b)

(* All the other steps leave the documents alone. *)
LEMMA DocWriters == [Next]_vars => WritesDoc \/ UNCHANGED doc
<1> SUFFICES ASSUME [Next]_vars PROVE WritesDoc \/ UNCHANGED doc
  OBVIOUS
<1>1. CASE UNCHANGED vars
  BY <1>1 DEF vars
<1>2. CASE \E t \in Requests : Handle(t)
  BY <1>2 DEF Handle, WritesDoc, InitPaystack, ConfirmUpdate, ConfirmLog,
     ConfirmNotify, LateNotify, LateRefund, LateLog, VerifyRead, VerifyLog, doc
<1>3. QED
  BY <1>1, <1>2 DEF Next, WritesDoc, InitRead, WebhookRead, VerifyCharge, Reconcile,
     DeleteRead, Fail, Pay, GiveUp, Tick, Expire

(* What Paystack charged is final: amount and booking of a charged reference. *)
LEMMA ChargedKept ==
  TypeInv /\ HeldInv /\ [Next]_vars
    => \A r \in Refs : Charged(r) => charge'[r] = charge[r] /\ source'[r] = source[r]
<1> SUFFICES ASSUME TypeInv, HeldInv, [Next]_vars, NEW r \in Refs, Charged(r)
             PROVE charge'[r] = charge[r] /\ source'[r] = source[r]
  OBVIOUS
<1> USE DEF TypeInv, TypeOK, HeldOK, Charge, Charged, Holding, Steps
<1>1. ASSUME NEW t \in Requests, NEW q \in Refs, InitPaystack(t, q)
      PROVE charge'[r] = charge[r] /\ source'[r] = source[r]
  BY <1>1 DEF InitPaystack
<1>2. ASSUME NEW t \in Requests, InitSave(t)
      PROVE charge'[r] = charge[r] /\ source'[r] = source[r]
  BY <1>2 DEF InitSave, Finish, HeldInv
<1>3. ASSUME NEW q \in Refs, Pay(q)
      PROVE charge'[r] = charge[r] /\ source'[r] = source[r]
  BY <1>3 DEF Pay
<1>4. CASE UNCHANGED <<charge, source>>
  BY <1>4
<1>5. QED
  BY <1>1, <1>2, <1>3, <1>4
     DEF Next, Handle, vars, paystack, ConfirmUpdate, ConfirmLog, ConfirmCommit,
     ConfirmNotify, LateNotify, LateRefund, LateMark, LateLog, VerifyRead, VerifySave,
     VerifyLog, DeleteWrite, InitRead, WebhookRead, VerifyCharge, Reconcile,
     DeleteRead, Fail, GiveUp, Tick, Expire

(* The clock does not turn back. *)
LEMMA LapsedKept == TypeInv /\ [Next]_vars => \A b \in Bookings : Lapsed(b) =>
   Lapsed(b)'
<1> SUFFICES ASSUME TypeInv, [Next]_vars, NEW b \in Bookings, Lapsed(b)
             PROVE Lapsed(b)'
  OBVIOUS
<1>1. ASSUME NEW c \in Bookings, Tick(c) PROVE Lapsed(b)'
  BY <1>1 DEF Tick, Later, Lapsed, TypeInv, TypeOK, Age
<1>2. CASE UNCHANGED age
  BY <1>2 DEF Lapsed
<1>3. QED
  BY <1>1, <1>2
     DEF Next, Handle, vars, InitRead, InitPaystack, InitSave, WebhookRead,
     ConfirmUpdate,
         ConfirmLog, ConfirmCommit, ConfirmNotify, LateNotify, LateRefund, LateMark,
         LateLog,
         VerifyCharge, Reconcile, VerifyRead, VerifySave, VerifyLog, Expire, DeleteRead,
         DeleteWrite, Fail, Pay, GiveUp

(* The two fields change together in every handler that writes either. *)
LEMMA VerifiedStep ==
  TypeInv /\ VerifiedIffPaid /\ [Next]_vars => VerifiedIffPaid'
<1> SUFFICES ASSUME TypeInv, VerifiedIffPaid, [Next]_vars PROVE VerifiedIffPaid'
  OBVIOUS
<1> USE DEF TypeInv, TypeOK, HeldOK, VerifiedIffPaid, Holding, Steps, Start, Advance,
    Finish
<1>1. ASSUME NEW t \in Requests, InitSave(t) PROVE VerifiedIffPaid'
  BY <1>1 DEF InitSave
<1>2. ASSUME NEW t \in Requests, ConfirmCommit(t) PROVE VerifiedIffPaid'
  BY <1>2 DEF ConfirmCommit
<1>3. ASSUME NEW t \in Requests, LateMark(t) PROVE VerifiedIffPaid'
  BY <1>3 DEF LateMark, MarkMatches
<1>4. ASSUME NEW t \in Requests, VerifySave(t) PROVE VerifiedIffPaid'
  BY <1>4 DEF VerifySave, doc
<1>5. ASSUME NEW b \in Bookings, Expire(b) PROVE VerifiedIffPaid'
  BY <1>5 DEF Expire, Expirable
<1>6. ASSUME NEW t \in Requests, DeleteWrite(t) PROVE VerifiedIffPaid'
  BY <1>6 DEF DeleteWrite
<1>7. CASE UNCHANGED doc
  BY <1>7 DEF doc
<1>8. QED
  BY <1>1, <1>2, <1>3, <1>4, <1>5, <1>6, <1>7, DocWriters DEF WritesDoc

(* The two writers of PAID carry a reference that was charged in full. *)
LEMMA PaidStep ==
  TypeInv /\ HeldInv /\ PaidWasCharged /\ [Next]_vars => PaidWasCharged'
<1> SUFFICES ASSUME TypeInv, HeldInv, PaidWasCharged, [Next]_vars,
                    NEW b \in Bookings, status'[b] = "paid"
             PROVE \E r \in Refs : source'[r] = b /\ charge'[r] = "exact"
  BY DEF PaidWasCharged
<1>1. SUFFICES \E r \in Refs : source[r] = b /\ charge[r] = "exact"
  BY <1>1, ChargedKept DEF Charged
<1> USE DEF TypeInv, TypeOK, HeldOK, HeldInv, ConfirmSteps, Holding, Steps
<1>2. CASE status[b] = "paid"
  BY <1>2 DEF PaidWasCharged
<1>3. ASSUME NEW t \in Requests, ConfirmCommit(t), status[b] # "paid"
      PROVE \E r \in Refs : source[r] = b /\ charge[r] = "exact"
  BY <1>3 DEF ConfirmCommit, Advance
<1>4. ASSUME NEW t \in Requests, VerifySave(t), status[b] # "paid"
      PROVE \E r \in Refs : source[r] = b /\ charge[r] = "exact"
  BY <1>4 DEF VerifySave, Advance, doc
<1>5. QED
  BY <1>2, <1>3, <1>4, DocWriters
     DEF WritesDoc, doc, InitSave, LateMark, DeleteWrite, Expire

(* A refund is requested by a request on the late path alone. *)
LEMMA RefundsStep ==
  TypeInv /\ HeldInv /\ LateInv /\ RefundsAreLate /\ [Next]_vars => RefundsAreLate'
<1> SUFFICES ASSUME TypeInv, HeldInv, LateInv, RefundsAreLate, [Next]_vars,
                    NEW r \in Refs, refund'[r] # "none"
             PROVE Charged(r)' /\ Lapsed(source[r])'
  BY DEF RefundsAreLate, Lapsed
<1>1. SUFFICES Charged(r) /\ Lapsed(source[r])
  <2>1. Charged(r)' /\ source'[r] = source[r]
    BY <1>1, ChargedKept DEF Charged
  <2>2. source[r] \in Bookings
    BY <1>1 DEF TypeInv, SourceOK, Charged
  <2>3. QED
    BY <1>1, <2>1, <2>2, LapsedKept DEF Lapsed
<1>2. CASE refund[r] # "none"
  BY <1>2 DEF RefundsAreLate, Lapsed
<1>3. ASSUME NEW t \in Requests, LateRefund(t), refund[r] = "none"
      PROVE Charged(r) /\ Lapsed(source[r])
  <2>1. pc[t] = "late_refund" /\ reference[t] = r
    BY <1>3 DEF LateRefund, Advance, TypeInv, TypeOK, HeldOK, Holding, Steps
  <2>2. QED
    BY <2>1 DEF HeldInv, LateInv, LateSteps, Holding, Steps, Lapsed
<1>4. QED
  BY <1>2, <1>3
     DEF Next, Handle, vars, paystack, InitRead, InitPaystack, InitSave, WebhookRead,
         ConfirmUpdate, ConfirmLog, ConfirmCommit, ConfirmNotify, LateNotify, LateMark,
         LateLog, VerifyCharge, Reconcile, VerifyRead, VerifySave, VerifyLog, Expire,
         DeleteRead, DeleteWrite, Fail, Pay, GiveUp, Tick

(* The commit follows its audit entry. *)
LEMMA AuditedStep ==
  TypeInv /\ HeldInv /\ AuditInv /\ WebhookPaidIsAudited /\ [Next]_vars
    => WebhookPaidIsAudited'
<1> SUFFICES ASSUME TypeInv, HeldInv, AuditInv, WebhookPaidIsAudited, [Next]_vars,
                    NEW b \in Bookings, paidAt'[b] = "paid_at"
             PROVE \E r \in Refs :
                      source'[r] = b /\ <<"PAYMENT_SUCCESS", r>> \in audit'
  BY DEF WebhookPaidIsAudited
<1>1. audit \subseteq audit'
  BY DEF Next, Handle, vars, InitRead, InitPaystack, InitSave, WebhookRead,
     ConfirmUpdate,
         ConfirmLog, ConfirmCommit, ConfirmNotify, LateNotify, LateRefund, LateMark,
         LateLog,
         VerifyCharge, Reconcile, VerifyRead, VerifySave, VerifyLog, Expire, DeleteRead,
         DeleteWrite, Fail, Pay, GiveUp, Tick
<1>2. SUFFICES \E r \in Refs : source[r] = b /\ <<"PAYMENT_SUCCESS", r>> \in audit
  BY <1>1, <1>2, ChargedKept DEF AuditInv, Charged
<1>3. CASE paidAt[b] = "paid_at"
  BY <1>3 DEF WebhookPaidIsAudited
<1>4. ASSUME NEW t \in Requests, ConfirmCommit(t), paidAt[b] # "paid_at"
      PROVE \E r \in Refs : source[r] = b /\ <<"PAYMENT_SUCCESS", r>> \in audit
  <2>1. pc[t] = "commit" /\ target[t] = b
    BY <1>4 DEF ConfirmCommit, Advance, TypeInv, TypeOK, HeldOK
  <2>2. reference[t] \in Refs /\ source[reference[t]] = b
    BY <2>1 DEF TypeInv, HeldOK, HeldInv, Holding, Steps
  <2>3. <<"PAYMENT_SUCCESS", reference[t]>> \in audit
    BY <2>1 DEF AuditInv
  <2>4. QED
    BY <2>2, <2>3
<1>5. QED
  BY <1>3, <1>4, DocWriters
     DEF WritesDoc, doc, InitSave, LateMark, VerifySave, DeleteWrite, Expire, TypeInv,
     TypeOK

(* Every answer 200 comes from a handler that saw, or made, the booking decided. *)
LEMMA AckedStep ==
  TypeInv /\ HeldInv /\ LeftInv /\ VerifiedIffPaid /\ AckedIsDecided /\ [Next]_vars
    => AckedIsDecided'
<1> SUFFICES ASSUME TypeInv, HeldInv, LeftInv, VerifiedIffPaid, AckedIsDecided,
  [Next]_vars PROVE AckedIsDecided'
  OBVIOUS
<1> USE NoneIsFresh DEF TypeInv, TypeOK, HeldOK, SourceOK, HeldInv, LeftInv,
    AckedIsDecided, VerifiedIffPaid, Steps, Holding, ConfirmSteps, Charge, Charged,
       Status, Start, Advance, Finish, Acknowledge, doc, paystack, requests
<1>1. ASSUME NEW t \in Requests, NEW b \in Bookings, InitRead(t, b)
      PROVE AckedIsDecided'
  BY <1>1 DEF InitRead
<1>2. ASSUME NEW t \in Requests, NEW r \in Refs, InitPaystack(t, r)
      PROVE AckedIsDecided'
  BY <1>2 DEF InitPaystack
<1>3. ASSUME NEW t \in Requests, InitSave(t) PROVE AckedIsDecided'
  BY <1>3 DEF InitSave
<1>4. ASSUME NEW t \in Requests, NEW r \in Refs, WebhookRead(t, r) PROVE AckedIsDecided'
  BY <1>4 DEF WebhookRead, Ignored, Charged
<1>5. ASSUME NEW t \in Requests, ConfirmUpdate(t) PROVE AckedIsDecided'
  BY <1>5 DEF ConfirmUpdate, ConfirmMatches
<1>6. ASSUME NEW t \in Requests, ConfirmLog(t) PROVE AckedIsDecided'
  BY <1>6 DEF ConfirmLog
<1>7. ASSUME NEW t \in Requests, ConfirmCommit(t) PROVE AckedIsDecided'
  BY <1>7 DEF ConfirmCommit
<1>8. ASSUME NEW t \in Requests, ConfirmNotify(t) PROVE AckedIsDecided'
  BY <1>8 DEF ConfirmNotify
<1>9. ASSUME NEW t \in Requests, LateNotify(t) PROVE AckedIsDecided'
  BY <1>9 DEF LateNotify
<1>10. ASSUME NEW t \in Requests, LateRefund(t) PROVE AckedIsDecided'
  BY <1>10 DEF LateRefund
<1>11. ASSUME NEW t \in Requests, LateMark(t) PROVE AckedIsDecided'
  BY <1>11 DEF LateMark, MarkMatches
<1>12. ASSUME NEW t \in Requests, LateLog(t) PROVE AckedIsDecided'
  BY <1>12 DEF LateLog
<1>13. ASSUME NEW t \in Requests, NEW r \in Refs, VerifyCharge(t, r)
      PROVE AckedIsDecided'
  BY <1>13 DEF VerifyCharge, Charged
<1>14. ASSUME NEW t \in Requests, NEW b \in Bookings, Reconcile(t, b)
      PROVE AckedIsDecided'
  BY <1>14 DEF Reconcile, Charged
<1>15. ASSUME NEW t \in Requests, VerifyRead(t) PROVE AckedIsDecided'
  BY <1>15 DEF VerifyRead, VerifyDeclines
<1>16. ASSUME NEW t \in Requests, VerifySave(t) PROVE AckedIsDecided'
  BY <1>16 DEF VerifySave
<1>17. ASSUME NEW t \in Requests, VerifyLog(t) PROVE AckedIsDecided'
  BY <1>17 DEF VerifyLog
<1>18. ASSUME NEW b \in Bookings, Expire(b) PROVE AckedIsDecided'
  BY <1>18 DEF Expire, Expirable
<1>19. ASSUME NEW t \in Requests, NEW b \in Bookings, DeleteRead(t, b)
      PROVE AckedIsDecided'
  BY <1>19 DEF DeleteRead, Deletable
<1>20. ASSUME NEW t \in Requests, DeleteWrite(t) PROVE AckedIsDecided'
  BY <1>20 DEF DeleteWrite
<1>21. ASSUME NEW t \in Requests, Fail(t) PROVE AckedIsDecided'
  BY <1>21 DEF Fail
<1>22. ASSUME NEW r \in Refs, Pay(r) PROVE AckedIsDecided'
  BY <1>22 DEF Pay
<1>23. ASSUME NEW r \in Refs, GiveUp(r) PROVE AckedIsDecided'
  BY <1>23 DEF GiveUp
<1>24. ASSUME NEW b \in Bookings, Tick(b) PROVE AckedIsDecided'
  BY <1>24 DEF Tick, Later
<1>25. CASE UNCHANGED vars
  BY <1>25 DEF vars
<1>26. QED
  BY <1>1, <1>2, <1>3, <1>4, <1>5, <1>6, <1>7, <1>8, <1>9, <1>10, <1>11, <1>12, <1>13,
     <1>14, <1>15, <1>16, <1>17, <1>18, <1>19, <1>20, <1>21, <1>22, <1>23, <1>24, <1>25
     DEF Next, Handle

(* paidAt takes the event's time in the commit alone, under the lock. *)
LEMMA ConfirmStep ==
  TypeInv /\ LockInv /\ [Next]_vars
    => \A b \in Bookings :
        paidAt[b] # "paid_at" /\ paidAt'[b] = "paid_at" => status[b] = "reserved"
<1> SUFFICES ASSUME TypeInv, LockInv, [Next]_vars, NEW b \in Bookings,
                    paidAt[b] # "paid_at", paidAt'[b] = "paid_at"
             PROVE status[b] = "reserved"
  OBVIOUS
<1> USE DEF TypeInv, TypeOK, HeldOK, Holding, Steps
<1>1. ASSUME NEW t \in Requests, ConfirmCommit(t) PROVE status[b] = "reserved"
  BY <1>1 DEF ConfirmCommit, Advance, LockInv
<1>2. QED
  BY <1>1, DocWriters DEF WritesDoc, doc, InitSave, LateMark, VerifySave, DeleteWrite,
     Expire

-----------------------------------------------------------------------------
(* The inductive invariant: the types, what the requests in flight rely on, and
   the properties that are needed to preserve each other. *)
IInv ==
    /\ TypeInv
    /\ HeldInv /\ OpenedOnce /\ LateInv /\ LockInv /\ LeftInv /\ AuditInv
    /\ VerifiedIffPaid /\ PaidWasCharged /\ RefundsAreLate
    /\ WebhookPaidIsAudited /\ AckedIsDecided

LEMMA InvInit == Init => IInv
<1> SUFFICES ASSUME Init PROVE IInv
  OBVIOUS
<1>1. TypeInv
  BY TypeInit
<1>2. HeldInv /\ OpenedOnce /\ LateInv /\ LockInv /\ LeftInv /\ AuditInv
  BY DEF Init, HeldInv, OpenedOnce, LateInv, LockInv, LeftInv, AuditInv, Holding, Steps,
         LateSteps, ConfirmSteps
<1>3. VerifiedIffPaid /\ PaidWasCharged /\ WebhookPaidIsAudited
  BY DEF Init, VerifiedIffPaid, PaidWasCharged, WebhookPaidIsAudited
<1>4. RefundsAreLate /\ AckedIsDecided
  BY DEF Init, RefundsAreLate, AckedIsDecided
<1>5. QED
  BY <1>1, <1>2, <1>3, <1>4 DEF IInv

LEMMA InvStep == IInv /\ [Next]_vars => IInv'
<1> SUFFICES ASSUME IInv, [Next]_vars PROVE IInv'
  OBVIOUS
<1>1. TypeInv' /\ HeldInv' /\ OpenedOnce'
  BY TypeStep, HeldStep DEF IInv
<1>2. LateInv' /\ LockInv' /\ LeftInv' /\ AuditInv'
  BY LateStep, LockStep, LeftStep, AuditStep DEF IInv
<1>3. VerifiedIffPaid' /\ PaidWasCharged' /\ RefundsAreLate'
  BY VerifiedStep, PaidStep, RefundsStep DEF IInv
<1>4. WebhookPaidIsAudited' /\ AckedIsDecided'
  BY AuditedStep, AckedStep DEF IInv
<1>5. QED
  BY <1>1, <1>2, <1>3, <1>4 DEF IInv

LEMMA InvHolds == Spec => []IInv
BY InvInit, InvStep, PTL DEF Spec

(* paymentVerified and PAID agree, whichever of the webhook, the manual
   verification, the late mark, the clean-up and the deletion raced. *)
THEOREM VerifiedIffPaidHolds == Spec => []VerifiedIffPaid
<1>1. IInv => VerifiedIffPaid
  BY DEF IInv
<1>2. QED
  BY <1>1, InvHolds, PTL

(* No booking is PAID without a transaction of its own charged in full, however
   many references initialize issued for it. *)
THEOREM PaidWasChargedHolds == Spec => []PaidWasCharged
<1>1. IInv => PaidWasCharged
  BY DEF IInv
<1>2. QED
  BY <1>1, InvHolds, PTL

(* Nothing is refunded that was not charged, or before the window closed. *)
THEOREM RefundsAreLateHolds == Spec => []RefundsAreLate
<1>1. IInv => RefundsAreLate
  BY DEF IInv
<1>2. QED
  BY <1>1, InvHolds, PTL

(* A payment the webhook confirmed has its audit entry. *)
THEOREM WebhookPaidIsAuditedHolds == Spec => []WebhookPaidIsAudited
<1>1. IInv => WebhookPaidIsAudited
  BY DEF IInv
<1>2. QED
  BY <1>1, InvHolds, PTL

(* The webhook is not answered 200 over a charge in full of the stored reference
   while the booking is still RESERVED. *)
THEOREM AckedIsDecidedHolds == Spec => []AckedIsDecided
<1>1. IInv => AckedIsDecided
  BY DEF IInv
<1>2. QED
  BY <1>1, InvHolds, PTL

(* The webhook's commit finds the booking RESERVED. *)
THEOREM ConfirmsOnlyReservedHolds == Spec => ConfirmsOnlyReserved
<1>1. IInv /\ [Next]_vars
        => [\A b \in Bookings :
              paidAt[b] # "paid_at" /\ paidAt'[b] = "paid_at" => status[b] = "reserved"]_vars
  BY ConfirmStep DEF IInv
<1>2. QED
  BY <1>1, InvHolds, PTL DEF Spec, ConfirmsOnlyReserved

-----------------------------------------------------------------------------
(* A deletion under way was allowed when it started. *)
LEMMA DeletionArrives ==
  ASSUME TypeInv, [Next]_vars, NEW t \in Requests, pc'[t] = "delete"
  PROVE  \/ pc[t] = "delete" /\ target'[t] = target[t]
         \/ target'[t] \in Bookings /\ Deletable(target'[t])
<1> DEFINE Arrives == \/ pc[t] = "delete" /\ target'[t] = target[t]
                      \/ target'[t] \in Bookings /\ Deletable(target'[t])
<1> USE DEF TypeInv, TypeOK, Steps, Start, Advance, Finish, requests
<1>1. ASSUME NEW u \in Requests,
             \/ \E r \in Refs : InitPaystack(u, r) \/ WebhookRead(u, r) \/ VerifyCharge(u, r)
             \/ \E b \in Bookings : InitRead(u, b) \/ Reconcile(u, b)
      PROVE  Arrives
  BY <1>1 DEF InitPaystack, WebhookRead, VerifyCharge, InitRead, Reconcile
<1>2. ASSUME NEW u \in Requests, NEW b \in Bookings, DeleteRead(u, b) PROVE Arrives
  BY <1>2 DEF DeleteRead
<1>3. ASSUME NEW u \in Requests,
             InitSave(u) \/ ConfirmNotify(u) \/ LateLog(u) \/ VerifyLog(u) \/ DeleteWrite(u)
               \/ Fail(u)
      PROVE  Arrives
  BY <1>3 DEF InitSave, ConfirmNotify, LateLog, VerifyLog, DeleteWrite, Fail
<1>4. ASSUME NEW u \in Requests,
             ConfirmUpdate(u) \/ ConfirmLog(u) \/ ConfirmCommit(u) \/ VerifyRead(u)
               \/ VerifySave(u)
      PROVE  Arrives
  BY <1>4 DEF ConfirmUpdate, ConfirmLog, ConfirmCommit, VerifyRead, VerifySave
<1>5. ASSUME NEW u \in Requests, LateNotify(u) \/ LateRefund(u) \/ LateMark(u)
      PROVE  Arrives
  BY <1>5 DEF LateNotify, LateRefund, LateMark
<1>6. CASE UNCHANGED requests
  BY <1>6
<1>7. QED
  BY <1>1, <1>2, <1>3, <1>4, <1>5, <1>6
     DEF Next, Handle, vars, Expire, Tick, Pay, GiveUp

(* What the webhook has confirmed is PAID, and no deletion of it is under way. *)
ConfirmedInv ==
    /\ \A b \in Bookings : paidAt[b] = "paid_at" => status[b] = "paid"
    /\ \A t \in Requests : pc[t] = "delete" => paidAt[target[t]] # "paid_at"

LEMMA ConfirmedStep ==
  ASSUME IInv, ConfirmedInv, [Next]_vars
  PROVE  ConfirmedInv'
<1> USE DEF IInv, TypeInv, TypeOK, HeldOK, ConfirmedInv, Holding, Steps
<1>1. \A b \in Bookings : paidAt'[b] = "paid_at" => status'[b] = "paid"
  <2>1. CASE UNCHANGED doc
    BY <2>1 DEF doc
  <2>2. ASSUME NEW t \in Requests, InitSave(t) \/ ConfirmCommit(t) \/ VerifySave(t)
        PROVE  \A b \in Bookings : paidAt'[b] = "paid_at" => status'[b] = "paid"
    BY <2>2 DEF InitSave, ConfirmCommit, VerifySave, Advance, Finish, doc
  <2>3. ASSUME NEW t \in Requests, LateMark(t)
        PROVE  \A b \in Bookings : paidAt'[b] = "paid_at" => status'[b] = "paid"
    BY <2>3 DEF LateMark, MarkMatches, VerifiedIffPaid
  <2>4. ASSUME NEW t \in Requests, DeleteWrite(t)
        PROVE  \A b \in Bookings : paidAt'[b] = "paid_at" => status'[b] = "paid"
    BY <2>4 DEF DeleteWrite, Finish
  <2>5. ASSUME NEW c \in Bookings, Expire(c)
        PROVE  \A b \in Bookings : paidAt'[b] = "paid_at" => status'[b] = "paid"
    BY <2>5 DEF Expire, Expirable
  <2>6. QED
    BY <2>1, <2>2, <2>3, <2>4, <2>5, DocWriters DEF WritesDoc
<1>2. ASSUME NEW b \in Bookings, paidAt[b] # "paid_at", paidAt'[b] = "paid_at"
      PROVE  status[b] = "reserved" /\ UNCHANGED target
                /\ \A t \in Requests : pc'[t] = "delete" => pc[t] = "delete"
  <2>1. ASSUME NEW t \in Requests, ConfirmCommit(t), target[t] = b
        PROVE  status[b] = "reserved" /\ UNCHANGED target
                  /\ \A u \in Requests : pc'[u] = "delete" => pc[u] = "delete"
    BY <2>1 DEF ConfirmCommit, Advance, LockInv
  <2>2. \E t \in Requests : ConfirmCommit(t) /\ target[t] = b
    <3>1. ASSUME NEW t \in Requests,
                 InitSave(t) \/ VerifySave(t) \/ LateMark(t) \/ DeleteWrite(t)
          PROVE  FALSE
      BY <1>2, <3>1 DEF InitSave, VerifySave, LateMark, DeleteWrite, Advance, Finish, doc
    <3>2. ASSUME NEW t \in Requests, ConfirmCommit(t) PROVE target[t] = b
      BY <1>2, <3>2 DEF ConfirmCommit, Advance
    <3>3. ASSUME NEW c \in Bookings, Expire(c) PROVE FALSE
      BY <1>2, <3>3 DEF Expire
    <3>4. QED
      BY <1>2, <3>1, <3>2, <3>3, DocWriters DEF WritesDoc, doc
  <2>3. QED
    BY <2>1, <2>2
<1>3. ASSUME NEW t \in Requests, pc'[t] = "delete" PROVE paidAt'[target'[t]] # "paid_at"
  <2>1. target'[t] \in Bookings /\ paidAt[target'[t]] # "paid_at"
    <3>1. CASE pc[t] = "delete" /\ target'[t] = target[t]
      BY <3>1
    <3>2. CASE target'[t] \in Bookings /\ Deletable(target'[t])
      BY <3>2 DEF Deletable
    <3>3. QED
      BY <1>3, <3>1, <3>2, DeletionArrives
  <2>2. CASE paidAt'[target'[t]] = "paid_at"
    <3>1. status[target'[t]] = "reserved" /\ target'[t] = target[t] /\ pc[t] = "delete"
      BY <1>2, <1>3, <2>1, <2>2
    <3>2. QED
      BY <3>1 DEF LeftInv
  <2>3. QED
    BY <2>2
<1>4. QED
  BY <1>1, <1>3

LEMMA StaysPaidStep ==
  ASSUME IInv, ConfirmedInv, [Next]_vars, NEW b \in Bookings,
         status[b] = "paid", paidAt[b] = "paid_at"
  PROVE  status'[b] = "paid"
<1> USE DEF IInv, TypeInv, TypeOK, HeldOK, ConfirmedInv, Holding, Steps
<1>1. ASSUME NEW t \in Requests, InitSave(t) \/ ConfirmCommit(t) \/ VerifySave(t)
      PROVE  status'[b] = "paid"
  BY <1>1 DEF InitSave, ConfirmCommit, VerifySave, doc
<1>2. ASSUME NEW t \in Requests, LateMark(t) PROVE status'[b] = "paid"
  BY <1>2 DEF LateMark, MarkMatches, VerifiedIffPaid
<1>3. ASSUME NEW t \in Requests, DeleteWrite(t) PROVE status'[b] = "paid"
  BY <1>3 DEF DeleteWrite, Finish
<1>4. ASSUME NEW c \in Bookings, Expire(c) PROVE status'[b] = "paid"
  BY <1>4 DEF Expire, Expirable
<1>5. QED
  BY <1>1, <1>2, <1>3, <1>4, DocWriters DEF WritesDoc, doc

(* "PAID -> blocked. Payment confirmed." (shuttle-services.service.ts:516) holds of
   what the webhook confirmed, for any number of handlers: none takes it back. *)
THEOREM ConfirmedStaysPaidHolds == Spec => ConfirmedStaysPaid
<1>1. Init => ConfirmedInv
  BY DEF Init, ConfirmedInv
<1>2. IInv /\ ConfirmedInv /\ [Next]_vars => ConfirmedInv'
  BY ConfirmedStep
<1>3. IInv /\ ConfirmedInv /\ [Next]_vars
        => [\A b \in Bookings :
              status[b] = "paid" /\ paidAt[b] = "paid_at" => status'[b] = "paid"]_vars
  BY StaysPaidStep
<1>4. QED
  BY <1>1, <1>2, <1>3, InvHolds, PTL DEF Spec, ConfirmedStaysPaid

-----------------------------------------------------------------------------
(* ShuttlePayments implements the racing lifecycle of BookingLifecycle: every step of
   a handler moves the booking's status as it allows, or not at all. *)

Funded == {b \in Bookings : \E r \in Refs : source[r] = b /\ charge[r] = "exact"}

(* Only the customer's payment in full funds a booking. *)
LEMMA FundedStep ==
  TypeInv /\ HeldInv /\ [Next]_vars
    => \/ Funded' = Funded
       \/ UNCHANGED doc /\ \E b \in Bookings : Funded' = Funded \cup {b}
<1> SUFFICES ASSUME TypeInv, HeldInv, [Next]_vars
             PROVE \/ Funded' = Funded
                   \/ UNCHANGED doc /\ \E b \in Bookings : Funded' = Funded \cup {b}
  OBVIOUS
<1> USE DEF TypeInv, TypeOK, HeldOK, SourceOK, Charge, Holding, Steps
<1>1. ASSUME NEW t \in Requests, NEW r \in Refs, InitPaystack(t, r)
      PROVE Funded' = Funded
  BY <1>1 DEF InitPaystack, Funded
<1>2. ASSUME NEW t \in Requests, InitSave(t) PROVE Funded' = Funded
  BY <1>2 DEF InitSave, Funded, Finish, HeldInv
<1>3. ASSUME NEW r \in Refs, Pay(r), charge'[r] = "exact"
      PROVE UNCHANGED doc /\ source[r] \in Bookings /\ Funded' = Funded \cup {source[r]}
  BY <1>3 DEF Pay, Funded
<1>4. ASSUME NEW r \in Refs, Pay(r), charge'[r] # "exact" PROVE Funded' = Funded
  BY <1>4 DEF Pay, Funded
<1>5. CASE UNCHANGED <<charge, source>>
  BY <1>5 DEF Funded
<1>6. QED
  BY <1>1, <1>2, <1>3, <1>4, <1>5
     DEF Next, Handle, vars, paystack, InitRead, WebhookRead, ConfirmUpdate, ConfirmLog,
         ConfirmCommit, ConfirmNotify, LateNotify, LateRefund, LateMark, LateLog,
         VerifyCharge, Reconcile, VerifyRead, VerifySave, VerifyLog, Expire, DeleteRead,
         DeleteWrite, Fail, GiveUp, Tick

(* Every step of a handler is a step of the lifecycle, or leaves it alone. *)
LEMMA AbstractStep ==
  IInv /\ [Next]_vars => [Abstract!RacingNext]_(Abstract!lifecycle)
<1> SUFFICES ASSUME IInv, [Next]_vars
             PROVE Abstract!RacingNext \/ (status' = status /\ Funded' = Funded)
  BY DEF Abstract!lifecycle, Funded
<1> USE DEF IInv, TypeInv, TypeOK, HeldOK, Status, Holding, Steps
<1>1. CASE status' = status
  BY <1>1, FundedStep DEF Abstract!RacingNext, Abstract!Next, Abstract!Fund, Funded
<1>2. ASSUME NEW t \in Requests, ConfirmCommit(t) PROVE Abstract!RacingNext
  <2>1. /\ target[t] \in Bookings
        /\ status[target[t]] = "reserved"
        /\ target[t] \in Funded
    BY <1>2 DEF ConfirmCommit, Advance, LockInv, HeldInv, ConfirmSteps, Funded
  <2>2. Funded' = Funded
    BY <1>2 DEF ConfirmCommit, Funded, paystack
  <2>3. Abstract!Pay(target[t])
    BY <1>2, <2>1, <2>2 DEF ConfirmCommit, Abstract!Pay, Abstract!Move, Funded
  <2>4. QED
    BY <2>1, <2>2, <2>3 DEF Abstract!RacingNext, Abstract!Next, Funded
<1>3. ASSUME NEW t \in Requests, VerifySave(t), status' # status PROVE Abstract!RacingNext
  <2>1. /\ target[t] \in Bookings
        /\ status[target[t]] \in {"reserved", "expired", "refund_pending"}
        /\ target[t] \in Funded
    BY <1>3 DEF VerifySave, Advance, Finish, doc, HeldInv, ConfirmSteps, Funded
  <2>2. Funded' = Funded
    BY <1>3 DEF VerifySave, Funded, paystack
  <2>3. Abstract!Pay(target[t]) \/ Abstract!StalePay(target[t])
    BY <1>3, <2>1, <2>2
       DEF VerifySave, doc, Abstract!Pay, Abstract!StalePay, Abstract!Move, Funded
  <2>4. QED
    BY <2>1, <2>2, <2>3 DEF Abstract!RacingNext, Abstract!Next, Funded
<1>4. ASSUME NEW t \in Requests, LateMark(t), status' # status PROVE Abstract!RacingNext
  <2>1. /\ target[t] \in Bookings
        /\ status[target[t]] \in {"reserved", "expired"}
    BY <1>4 DEF LateMark, MarkMatches, Advance, VerifiedIffPaid
  <2>2. Funded' = Funded
    BY <1>4 DEF LateMark, Funded, paystack
  <2>3. Abstract!OweRefund(target[t])
    BY <1>4, <2>1, <2>2 DEF LateMark, Abstract!OweRefund, Abstract!Move, Funded
  <2>4. QED
    BY <2>1, <2>2, <2>3 DEF Abstract!RacingNext, Abstract!Next, Funded
<1>5. ASSUME NEW t \in Requests, DeleteWrite(t), status' # status PROVE Abstract!RacingNext
  <2>1. /\ target[t] \in Bookings
        /\ status[target[t]] \in {"expired", "refund_pending", "paid"}
    BY <1>5 DEF DeleteWrite, Finish, LeftInv
  <2>2. Funded' = Funded
    BY <1>5 DEF DeleteWrite, Funded, paystack
  <2>3. Abstract!Remove(target[t]) \/ Abstract!StaleRemove(target[t])
    BY <1>5, <2>1, <2>2
       DEF DeleteWrite, Abstract!Remove, Abstract!StaleRemove, Abstract!Move, Funded
  <2>4. QED
    BY <2>1, <2>2, <2>3 DEF Abstract!RacingNext, Abstract!Next, Funded
<1>6. ASSUME NEW b \in Bookings, Expire(b) PROVE Abstract!RacingNext
  <2>1. Funded' = Funded
    BY <1>6 DEF Expire, Funded, paystack
  <2>2. Abstract!Expire(b)
    BY <1>6, <2>1 DEF Expire, Expirable, Abstract!Expire, Abstract!Move, Funded
  <2>3. QED
    BY <2>1, <2>2 DEF Abstract!RacingNext, Abstract!Next, Funded
<1>7. QED
  BY <1>1, <1>2, <1>3, <1>4, <1>5, <1>6, DocWriters DEF WritesDoc, InitSave, doc

(* However the handlers of a booking interleave and fail, its status moves only as
   the racing lifecycle allows: beside the documented steps there are two, PAID over
   EXPIRED or REFUND_PENDING with the money taken, and the deletion of PAID or
   REFUND_PENDING.  A RESERVED booking is never deleted. *)
THEOREM LifecycleImplemented == Spec => RacingLifecycle
<1>1. Init => Abstract!Init
  BY DEF Init, Abstract!Init
<1>2. QED
  BY <1>1, AbstractStep, InvHolds, PTL DEF Spec, RacingLifecycle, Abstract!RacingSpec

-----------------------------------------------------------------------------
(* What the log, the mark and the stored reference say, and who holds a lock.  None
   of these is a conjunct of IInv: they follow the handlers' order of calls. *)

(* The audit log does not lie: an entry for a payment names a charge in full, an entry
   for a refund a transaction whose refund was requested. *)
AuditTellsTruth ==
    \A r \in Refs :
        /\ <<"PAYMENT_SUCCESS", r>> \in audit \/ <<"PAYMENT_VERIFIED_MANUALLY", r>> \in audit
              => charge[r] = "exact"
        /\ <<"PAYMENT_EXPIRED_REFUNDED", r>> \in audit => refund[r] # "none"

(* A booking marked REFUND_PENDING has a refund under way, of its own money. *)
OwedIsRequested ==
    \A b \in Bookings :
        status[b] = "refund_pending" =>
            \E r \in Refs : source[r] = b /\ Charged(r) /\ refund[r] # "none"

(* The reference a booking stores is of a transaction opened for that booking: no two
   bookings share one. *)
StoredIsOwn ==
    \A b \in Bookings :
        paymentReference[b] # None =>
            charge[paymentReference[b]] # "unused" /\ source[paymentReference[b]] = b

(* A document is locked by a transaction in flight that wrote it, and by nobody once
   that transaction has ended, however it ended. *)
LockIsHeld ==
    \A b \in Bookings :
        txnLock[b] # None => target[txnLock[b]] = b /\ pc[txnLock[b]] \in {"log", "commit"}

(* The mark and its entry come after the request for the refund. *)
RequestedFirst ==
    \A t \in Requests :
        pc[t] \in {"late_mark", "late_log"} => refund[reference[t]] # "none"

PaperInv == AuditTellsTruth /\ OwedIsRequested /\ StoredIsOwn /\ RequestedFirst

(* A request reaches these steps from the one before, with the reference it had. *)
LEMMA LateArrives ==
  ASSUME TypeInv, [Next]_vars, NEW t \in Requests, pc'[t] \in {"late_mark", "late_log"}
  PROVE  /\ reference'[t] = reference[t]
         /\ pc[t] \in {"late_mark", "late_log"} \/ LateRefund(t)
<1> USE DEF TypeInv, TypeOK, Steps, Start, Advance, Finish, requests
<1>1. ASSUME NEW u \in Requests,
             \/ \E r \in Refs : InitPaystack(u, r) \/ WebhookRead(u, r) \/ VerifyCharge(u, r)
             \/ \E b \in Bookings : InitRead(u, b) \/ Reconcile(u, b) \/ DeleteRead(u, b)
      PROVE  reference'[t] = reference[t] /\ pc[t] \in {"late_mark", "late_log"}
  BY <1>1 DEF InitPaystack, WebhookRead, VerifyCharge, InitRead, Reconcile, DeleteRead
<1>2. ASSUME NEW u \in Requests,
             InitSave(u) \/ ConfirmNotify(u) \/ LateLog(u) \/ VerifyLog(u) \/ DeleteWrite(u)
               \/ Fail(u)
      PROVE  reference'[t] = reference[t] /\ pc[t] \in {"late_mark", "late_log"}
  BY <1>2 DEF InitSave, ConfirmNotify, LateLog, VerifyLog, DeleteWrite, Fail
<1>3. ASSUME NEW u \in Requests,
             ConfirmUpdate(u) \/ ConfirmLog(u) \/ ConfirmCommit(u) \/ VerifyRead(u)
               \/ VerifySave(u)
      PROVE  reference'[t] = reference[t] /\ pc[t] \in {"late_mark", "late_log"}
  BY <1>3 DEF ConfirmUpdate, ConfirmLog, ConfirmCommit, VerifyRead, VerifySave
<1>4. ASSUME NEW u \in Requests, LateNotify(u) \/ LateMark(u)
      PROVE  reference'[t] = reference[t] /\ pc[t] \in {"late_mark", "late_log"}
  BY <1>4 DEF LateNotify, LateMark
<1>5. ASSUME NEW u \in Requests, LateRefund(u)
      PROVE  /\ reference'[t] = reference[t]
             /\ pc[t] \in {"late_mark", "late_log"} \/ LateRefund(t)
  BY <1>5 DEF LateRefund
<1>6. CASE UNCHANGED requests
  BY <1>6
<1>7. QED
  BY <1>1, <1>2, <1>3, <1>4, <1>5, <1>6
     DEF Next, Handle, vars, Expire, Tick, Pay, GiveUp

(* A request for a refund is not withdrawn, and it is LateRefund that makes it. *)
LEMMA RefundStays ==
  ASSUME TypeInv, [Next]_vars
  PROVE  /\ \A r \in Refs : refund[r] # "none" => refund'[r] # "none"
         /\ \A t \in Requests : LateRefund(t) =>
               reference[t] \in Refs /\ refund'[reference[t]] # "none"
<1>1. ASSUME NEW t \in Requests, LateRefund(t)
      PROVE  /\ reference[t] \in Refs /\ refund'[reference[t]] # "none"
             /\ \A r \in Refs : refund[r] # "none" => refund'[r] # "none"
  BY <1>1 DEF LateRefund, Advance, TypeInv, TypeOK, HeldOK, Holding, Steps
<1>2. CASE UNCHANGED refund
  BY <1>1, <1>2
<1>3. QED
  BY <1>1, <1>2
     DEF Next, Handle, vars, paystack, InitRead, InitPaystack, InitSave, WebhookRead,
         ConfirmUpdate, ConfirmLog, ConfirmCommit, ConfirmNotify, LateNotify, LateMark,
         LateLog, VerifyCharge, Reconcile, VerifyRead, VerifySave, VerifyLog, Expire,
         DeleteRead, DeleteWrite, Fail, Pay, GiveUp, Tick

LEMMA RequestedFirstStep ==
  ASSUME TypeInv, RequestedFirst, [Next]_vars
  PROVE  RequestedFirst'
<1> SUFFICES ASSUME NEW t \in Requests, pc'[t] \in {"late_mark", "late_log"}
             PROVE  refund'[reference'[t]] # "none"
  BY DEF RequestedFirst
<1>1. reference'[t] = reference[t] /\ (pc[t] \in {"late_mark", "late_log"} \/ LateRefund(t))
  BY LateArrives
<1>2. CASE pc[t] \in {"late_mark", "late_log"}
  <2>1. reference[t] \in Refs /\ refund[reference[t]] # "none"
    BY <1>2 DEF RequestedFirst, TypeInv, HeldOK, Holding, Steps
  <2>2. QED
    BY <1>1, <2>1, RefundStays
<1>3. QED
  BY <1>1, <1>2, RefundStays

(* Three handlers write an entry, each about the reference it carries. *)
LEMMA AuditTellsStep ==
  ASSUME TypeInv, HeldInv, RequestedFirst, AuditTellsTruth, [Next]_vars
  PROVE  AuditTellsTruth'
<1>1. /\ \A r \in Refs : charge[r] = "exact" => charge'[r] = "exact"
      /\ \A r \in Refs : refund[r] # "none" => refund'[r] # "none"
  BY ChargedKept, RefundStays DEF Charged
<1> USE DEF TypeInv, HeldOK, HeldInv, ConfirmSteps, Holding, Steps, Advance, Finish
<1>2. ASSUME NEW t \in Requests, ConfirmLog(t) PROVE AuditTellsTruth'
  <2>1. reference[t] \in Refs /\ charge[reference[t]] = "exact"
    BY <1>2 DEF ConfirmLog
  <2>2. audit' = audit \cup {<<"PAYMENT_SUCCESS", reference[t]>>}
    BY <1>2 DEF ConfirmLog
  <2>3. QED
    BY <1>1, <2>1, <2>2 DEF AuditTellsTruth
<1>3. ASSUME NEW t \in Requests, VerifyLog(t) PROVE AuditTellsTruth'
  <2>1. reference[t] \in Refs /\ charge[reference[t]] = "exact"
    BY <1>3 DEF VerifyLog
  <2>2. audit' = audit \cup {<<"PAYMENT_VERIFIED_MANUALLY", reference[t]>>}
    BY <1>3 DEF VerifyLog
  <2>3. QED
    BY <1>1, <2>1, <2>2 DEF AuditTellsTruth
<1>4. ASSUME NEW t \in Requests, LateLog(t) PROVE AuditTellsTruth'
  <2>1. reference[t] \in Refs /\ refund[reference[t]] # "none"
    BY <1>4 DEF LateLog, RequestedFirst
  <2>2. audit' = audit \cup {<<"PAYMENT_EXPIRED_REFUNDED", reference[t]>>}
    BY <1>4 DEF LateLog
  <2>3. QED
    BY <1>1, <2>1, <2>2 DEF AuditTellsTruth
<1>5. CASE UNCHANGED audit
  BY <1>1, <1>5 DEF AuditTellsTruth
<1>6. QED
  BY <1>2, <1>3, <1>4, <1>5
     DEF Next, Handle, vars, InitRead, InitPaystack, InitSave, WebhookRead, ConfirmUpdate,
         ConfirmCommit, ConfirmNotify, LateNotify, LateRefund, LateMark, VerifyCharge,
         Reconcile, VerifyRead, VerifySave, Expire, DeleteRead, DeleteWrite, Fail, Pay,
         GiveUp, Tick

(* The mark is written by a request that has requested the refund of its booking's
   money; whoever writes the status afterwards overwrites it. *)
LEMMA OwedStep ==
  ASSUME TypeInv, HeldInv, RequestedFirst, OwedIsRequested, [Next]_vars
  PROVE  OwedIsRequested'
<1> SUFFICES ASSUME NEW b \in Bookings, status'[b] = "refund_pending"
             PROVE  \E r \in Refs : source'[r] = b /\ Charged(r)' /\ refund'[r] # "none"
  BY DEF OwedIsRequested
<1>1. SUFFICES \E r \in Refs : source[r] = b /\ Charged(r) /\ refund[r] # "none"
  BY <1>1, ChargedKept, RefundStays DEF Charged
<1>2. CASE status[b] = "refund_pending"
  BY <1>2 DEF OwedIsRequested
<1> USE DEF TypeInv, TypeOK, HeldOK, HeldInv, Holding, Steps
<1>3. ASSUME NEW t \in Requests, LateMark(t), status[b] # "refund_pending"
      PROVE  \E r \in Refs : source[r] = b /\ Charged(r) /\ refund[r] # "none"
  <2>1. pc[t] = "late_mark" /\ target[t] = b
    BY <1>3 DEF LateMark, Advance
  <2>2. /\ reference[t] \in Refs /\ source[reference[t]] = b /\ Charged(reference[t])
        /\ refund[reference[t]] # "none"
    BY <2>1 DEF RequestedFirst, LateSteps
  <2>3. QED
    BY <2>2
<1>4. QED
  BY <1>2, <1>3, DocWriters
     DEF WritesDoc, doc, InitSave, ConfirmCommit, VerifySave, DeleteWrite, Expire

(* An opened transaction stays opened, for the booking it was opened for. *)
LEMMA OpenedKept ==
  ASSUME TypeInv, [Next]_vars, NEW r \in Refs, charge[r] # "unused"
  PROVE  charge'[r] # "unused" /\ source'[r] = source[r]
<1> USE DEF TypeInv, TypeOK, HeldOK, Charge, Holding, Steps
<1>1. ASSUME NEW t \in Requests, NEW q \in Refs, InitPaystack(t, q)
      PROVE  charge'[r] # "unused" /\ source'[r] = source[r]
  BY <1>1 DEF InitPaystack
<1>2. ASSUME NEW t \in Requests, InitSave(t)
      PROVE  charge'[r] # "unused" /\ source'[r] = source[r]
  BY <1>2 DEF InitSave, Finish
<1>3. ASSUME NEW q \in Refs, Pay(q)
      PROVE  charge'[r] # "unused" /\ source'[r] = source[r]
  BY <1>3 DEF Pay
<1>4. CASE UNCHANGED <<charge, source>>
  BY <1>4
<1>5. QED
  BY <1>1, <1>2, <1>3, <1>4
     DEF Next, Handle, vars, paystack, ConfirmUpdate, ConfirmLog, ConfirmCommit,
     ConfirmNotify, LateNotify, LateRefund, LateMark, LateLog, VerifyRead, VerifySave,
     VerifyLog, DeleteWrite, InitRead, WebhookRead, VerifyCharge, Reconcile,
     DeleteRead, Fail, GiveUp, Tick, Expire

(* InitSave stores the reference its own request opened. *)
LEMMA StoredStep ==
  ASSUME TypeInv, HeldInv, StoredIsOwn, [Next]_vars
  PROVE  StoredIsOwn'
<1> SUFFICES ASSUME NEW b \in Bookings, paymentReference'[b] # None
             PROVE  /\ charge'[paymentReference'[b]] # "unused"
                    /\ source'[paymentReference'[b]] = b
  BY DEF StoredIsOwn
<1>1. SUFFICES \E r \in Refs :
                  paymentReference'[b] = r /\ charge[r] # "unused" /\ source[r] = b
  BY <1>1, OpenedKept
<1> USE DEF TypeInv, TypeOK, HeldOK, HeldInv, Holding, Steps
<1>2. CASE paymentReference'[b] = paymentReference[b]
  BY <1>2 DEF StoredIsOwn
<1>3. ASSUME NEW t \in Requests, InitSave(t), paymentReference'[b] # paymentReference[b]
      PROVE  \E r \in Refs :
                paymentReference'[b] = r /\ charge[r] # "unused" /\ source[r] = b
  <2>1. pc[t] = "init_save" /\ target[t] = b /\ paymentReference'[b] = reference[t]
    BY <1>3 DEF InitSave, Finish
  <2>2. QED
    BY <2>1
<1>4. ASSUME NEW t \in Requests, DeleteWrite(t), paymentReference'[b] # paymentReference[b]
      PROVE  FALSE
  BY <1>4 DEF DeleteWrite
<1>5. QED
  BY <1>2, <1>3, <1>4, DocWriters
     DEF WritesDoc, doc, ConfirmCommit, LateMark, VerifySave, Expire

(* The lock is taken by the updateOne, kept by the log, and given back by the commit
   or by whatever ends the transaction. *)
LEMMA LockHeldStep ==
  ASSUME TypeInv, LockIsHeld, [Next]_vars
  PROVE  LockIsHeld'
<1> USE NoneIsFresh DEF TypeInv, TypeOK, HeldOK, LockIsHeld, Holding, Steps, Start, Advance, Finish,
                        requests
<1>1. ASSUME NEW t \in Requests,
             \/ \E r \in Refs : InitPaystack(t, r) \/ WebhookRead(t, r) \/ VerifyCharge(t, r)
             \/ \E b \in Bookings : InitRead(t, b) \/ Reconcile(t, b) \/ DeleteRead(t, b)
      PROVE  LockIsHeld'
  BY <1>1 DEF InitPaystack, WebhookRead, VerifyCharge, InitRead, Reconcile, DeleteRead
<1>2. ASSUME NEW t \in Requests,
             InitSave(t) \/ ConfirmNotify(t) \/ LateLog(t) \/ VerifyLog(t) \/ DeleteWrite(t)
      PROVE  LockIsHeld'
  BY <1>2 DEF InitSave, ConfirmNotify, LateLog, VerifyLog, DeleteWrite
<1>3. ASSUME NEW t \in Requests,
             VerifyRead(t) \/ VerifySave(t) \/ LateNotify(t) \/ LateRefund(t) \/ LateMark(t)
      PROVE  LockIsHeld'
  BY <1>3 DEF VerifyRead, VerifySave, LateNotify, LateRefund, LateMark
<1>4. ASSUME NEW t \in Requests, ConfirmUpdate(t) PROVE LockIsHeld'
  BY <1>4 DEF ConfirmUpdate, Unlocked
<1>5. ASSUME NEW t \in Requests, ConfirmLog(t) PROVE LockIsHeld'
  BY <1>5 DEF ConfirmLog
<1>6. ASSUME NEW t \in Requests, ConfirmCommit(t) PROVE LockIsHeld'
  BY <1>6 DEF ConfirmCommit
<1>7. ASSUME NEW t \in Requests, Fail(t) PROVE LockIsHeld'
  BY <1>7 DEF Fail
<1>8. CASE UNCHANGED <<requests, txnLock>>
  BY <1>8
<1>9. QED
  BY <1>1, <1>2, <1>3, <1>4, <1>5, <1>6, <1>7, <1>8
     DEF Next, Handle, vars, Expire, Tick, Pay, GiveUp

LEMMA PaperHolds == Spec => [](IInv /\ PaperInv /\ LockIsHeld)
<1>1. Init => PaperInv /\ LockIsHeld
  BY DEF Init, PaperInv, AuditTellsTruth, OwedIsRequested, StoredIsOwn, RequestedFirst, LockIsHeld
<1>2. IInv /\ PaperInv /\ LockIsHeld /\ [Next]_vars => PaperInv' /\ LockIsHeld'
  BY RequestedFirstStep, AuditTellsStep, OwedStep, StoredStep, LockHeldStep DEF IInv, PaperInv
<1>3. QED
  BY <1>1, <1>2, InvInit, InvStep, PTL DEF Spec

(* Whatever fails between two awaits, an entry of the audit log names a charge that was
   made or a refund that was requested (handleShuttleServicesPayment,
   verifyShuttleServicesManually, handleLatePaymentForExpiredBooking). *)
THEOREM AuditTellsTheTruth == Spec => []AuditTellsTruth
<1>1. PaperInv => AuditTellsTruth
  BY DEF PaperInv
<1>2. QED
  BY <1>1, PaperHolds, PTL

(* A booking is REFUND_PENDING only once Paystack was asked to refund a charge of that
   very booking (payments.service.ts:512): the mark never precedes its request. *)
THEOREM OwedRefundsAreRequested == Spec => []OwedIsRequested
<1>1. PaperInv => OwedIsRequested
  BY DEF PaperInv
<1>2. QED
  BY <1>1, PaperHolds, PTL

(* However many initializations of however many bookings interleave, the reference a
   booking stores is of a transaction Paystack opened for it
   (initializeShuttleServicesPayment). *)
THEOREM StoredReferencesAreOwn == Spec => []StoredIsOwn
<1>1. PaperInv => StoredIsOwn
  BY DEF PaperInv
<1>2. QED
  BY <1>1, PaperHolds, PTL

(* No document stays locked by a confirming transaction that failed or died: who holds
   the lock is between its updateOne and its commit. *)
THEOREM LocksAreHeld == Spec => []LockIsHeld
<1>1. QED
  BY PaperHolds, PTL

-----------------------------------------------------------------------------
(* The window of a reservation *)

(* Within its fifteen minutes a booking is RESERVED or PAID: it is not expired, nor
   owed a refund, nor deleted. *)
WindowIsSafe ==
    \A b \in Bookings : status[b] \notin {"reserved", "paid"} => Lapsed(b)

(* A full payment of the stored reference whose webhook was answered 200 within the
   window has its booking PAID. *)
AckedInTimeIsPaid ==
    \A r \in Refs :
        /\ delivery[r] = "acked"
        /\ charge[r] = "exact"
        /\ paymentReference[source[r]] = r
        /\ ~Lapsed(source[r])
        => paymentVerified[source[r]]

(* Who deletes found the booking past its window. *)
DeletesLapsed == \A t \in Requests : pc[t] = "delete" => Lapsed(target[t])

LEMMA DeletesLapsedStep ==
  ASSUME TypeInv, WindowIsSafe, DeletesLapsed, [Next]_vars
  PROVE  DeletesLapsed'
<1> SUFFICES ASSUME NEW t \in Requests, pc'[t] = "delete" PROVE Lapsed(target[t])'
  BY DEF DeletesLapsed
<1>1. CASE pc[t] = "delete" /\ target'[t] = target[t]
  <2>1. target[t] \in Bookings /\ Lapsed(target[t])
    BY <1>1 DEF TypeInv, HeldOK, DeletesLapsed
  <2>2. QED
    BY <1>1, <2>1, LapsedKept DEF Lapsed
<1>2. CASE target'[t] \in Bookings /\ Deletable(target'[t])
  <2>1. Lapsed(target'[t])
    BY <1>2 DEF Deletable, WindowIsSafe
  <2>2. QED
    BY <1>2, <2>1, LapsedKept DEF Lapsed
<1>3. QED
  BY <1>1, <1>2, DeletionArrives

(* The three that end a reservation have seen its window close. *)
LEMMA WindowStep ==
  ASSUME TypeInv, LateInv, WindowIsSafe, DeletesLapsed, [Next]_vars
  PROVE  WindowIsSafe'
<1> SUFFICES ASSUME NEW b \in Bookings, status'[b] \notin {"reserved", "paid"} PROVE Lapsed(b)
  BY LapsedKept DEF WindowIsSafe
<1> USE DEF TypeInv, TypeOK, HeldOK
<1>1. CASE status'[b] = status[b]
  BY <1>1 DEF WindowIsSafe
<1>2. ASSUME NEW t \in Requests, LateMark(t), status'[b] # status[b] PROVE Lapsed(b)
  BY <1>2 DEF LateMark, Advance, LateInv, LateSteps
<1>3. ASSUME NEW t \in Requests, DeleteWrite(t), status'[b] # status[b] PROVE Lapsed(b)
  BY <1>3 DEF DeleteWrite, Finish, DeletesLapsed
<1>4. ASSUME NEW c \in Bookings, Expire(c), status'[b] # status[b] PROVE Lapsed(b)
  BY <1>4 DEF Expire, Expirable
<1>5. ASSUME NEW t \in Requests, InitSave(t) \/ ConfirmCommit(t) \/ VerifySave(t)
      PROVE  status'[b] = status[b]
  BY <1>5 DEF InitSave, ConfirmCommit, VerifySave, doc
<1>6. QED
  BY <1>1, <1>2, <1>3, <1>4, <1>5, DocWriters DEF WritesDoc, doc

LEMMA WindowHolds == Spec => [](IInv /\ WindowIsSafe)
<1>1. Init => WindowIsSafe /\ DeletesLapsed
  BY DEF Init, WindowIsSafe, DeletesLapsed
<1>2. IInv /\ WindowIsSafe /\ DeletesLapsed /\ [Next]_vars => WindowIsSafe' /\ DeletesLapsed'
  BY DeletesLapsedStep, WindowStep DEF IInv
<1>3. QED
  BY <1>1, <1>2, InvInit, InvStep, PTL DEF Spec

(* Whatever the cron, the late payments and an administrator do, none of them takes a
   reservation within its window (expireReservations, deleteBooking). *)
THEOREM WindowsAreSafe == Spec => []WindowIsSafe
BY WindowHolds, PTL

(* "Safe to abort quietly; the booking state is already correct"
   (payments.service.ts:426) is true within the window: AckedIsSettled fails only of a
   charge that is confirmed after it. *)
THEOREM AckedInTimeArePaid == Spec => []AckedInTimeIsPaid
<1>1. IInv /\ WindowIsSafe => AckedInTimeIsPaid
  <2> SUFFICES ASSUME IInv, WindowIsSafe, NEW r \in Refs, delivery[r] = "acked",
                      charge[r] = "exact", paymentReference[source[r]] = r, ~Lapsed(source[r])
               PROVE  paymentVerified[source[r]]
    BY DEF AckedInTimeIsPaid
  <2>1. source[r] \in Bookings /\ status[source[r]] # "reserved"
    BY DEF IInv, TypeInv, SourceOK, AckedIsDecided
  <2>2. status[source[r]] = "paid"
    BY <2>1 DEF WindowIsSafe
  <2>3. QED
    BY <2>1, <2>2 DEF IInv, VerifiedIffPaid
<1>2. QED
  BY <1>1, WindowHolds, PTL
============================================================================
