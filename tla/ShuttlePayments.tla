-------------------------- MODULE ShuttlePayments --------------------------
(***************************************************************************)
(* Payment of a shuttle reservation: PaymentsService (initialize, webhook, *)
(* verify), the reconciliation and clean-up crons and the administrator's  *)
(* deletion, all writing one `shuttle` document through a single Node      *)
(* process.  A handler is interleaved with the others at every await, so a *)
(* handler is a request t with a program counter, one action per await,    *)
(* and what the handler carries over an await is kept in target[t] and     *)
(* reference[t].  MongoDB and Paystack are external: they are modelled by  *)
(* the operations the code uses.                                           *)
(***************************************************************************)
EXTENDS Process, Naturals

CONSTANTS
    Bookings,   \* shuttle bookings, created by createShuttle
    Refs        \* Paystack references generatePayRef may produce

ASSUME NoneIsFresh == None \notin Bookings \cup Refs \cup Requests

VARIABLES
    status, paymentReference, paymentVerified, paidAt,  \* the document
    age,                                \* the clock, relative to createdAt
    txnLock,                            \* MongoDB: transaction that wrote it
    charge, source, delivery, refund,   \* Paystack, per reference
    audit,                              \* the auditlogs collection
    pc, target, reference               \* requests in flight

doc == <<status, paymentReference, paymentVerified, paidAt>>
paystack == <<charge, source, delivery, refund>>
requests == <<pc, target, reference>>
vars == <<doc, age, txnLock, paystack, audit, requests>>

-----------------------------------------------------------------------------
(* ShuttleBookingStatus also declares "refunded" and "cancelled", which no
   code assigns.  "absent": the document was deleted. *)
Status == {"reserved", "paid", "expired", "refund_pending", "absent"}

(* What paidAt holds: the event's paid_at, or the server's clock. *)
PaidAt == {"unset", "paid_at", "now"}

(* Time since createdAt: under 10 minutes, until expiresAt (15 minutes), past
   expiresAt, past 48 hours.  Only these boundaries are read by the code. *)
Age == {"fresh", "settled", "lapsed", "stale"}

(* A transaction at Paystack: not created, created, handed to the customer's
   popup, charged for another amount than totalAmount, charged exactly. *)
Charge == {"unused", "created", "offered", "inexact", "exact"}
Charged(r) == charge[r] \in {"inexact", "exact"}

(* The charge.success webhook: not sent, sent and not yet answered 200,
   answered 200, given up by Paystack. *)
Delivery == {"none", "owed", "acked", "lost"}

(* How often a refund was requested: never, once, more than once. *)
Refund == {"none", "once", "again"}

AuditAction == {"PAYMENT_SUCCESS", "PAYMENT_EXPIRED_REFUNDED",
                "PAYMENT_VERIFIED_MANUALLY"}

Steps == {"idle", "init", "init_save", "confirm", "log", "commit", "notify",
          "late_notify", "late_refund", "late_mark", "late_log",
          "verify", "verify_save", "verify_log", "delete"}

TypeOK ==
    /\ status \in [Bookings -> Status]
    /\ paymentReference \in [Bookings -> Refs \cup {None}]
    /\ paymentVerified \in [Bookings -> BOOLEAN]
    /\ paidAt \in [Bookings -> PaidAt]
    /\ age \in [Bookings -> Age]
    /\ txnLock \in [Bookings -> Requests \cup {None}]
    /\ charge \in [Refs -> Charge]
    /\ source \in [Refs -> Bookings \cup {None}]
    /\ delivery \in [Refs -> Delivery]
    /\ refund \in [Refs -> Refund]
    /\ audit \subseteq AuditAction \X Refs
    /\ pc \in [Requests -> Steps]
    /\ target \in [Requests -> Bookings \cup {None}]
    /\ reference \in [Requests -> Refs \cup {None}]

(* Every booking was just reserved by createShuttle; nothing was paid. *)
Init ==
    /\ status = [b \in Bookings |-> "reserved"]
    /\ paymentReference = [b \in Bookings |-> None]
    /\ paymentVerified = [b \in Bookings |-> FALSE]
    /\ paidAt = [b \in Bookings |-> "unset"]
    /\ age = [b \in Bookings |-> "fresh"]
    /\ txnLock = [b \in Bookings |-> None]
    /\ charge = [r \in Refs |-> "unused"]
    /\ source = [r \in Refs |-> None]
    /\ delivery = [r \in Refs |-> "none"]
    /\ refund = [r \in Refs |-> "none"]
    /\ audit = {}
    /\ pc = [t \in Requests |-> "idle"]
    /\ target = [t \in Requests |-> None]
    /\ reference = [t \in Requests |-> None]

-----------------------------------------------------------------------------
(* Requests *)

Start(t, step, b, r) ==
    /\ pc[t] = "idle"
    /\ pc' = [pc EXCEPT ![t] = step]
    /\ target' = [target EXCEPT ![t] = b]
    /\ reference' = [reference EXCEPT ![t] = r]

Advance(t, from, to) ==
    /\ pc[t] = from
    /\ pc' = [pc EXCEPT ![t] = to]
    /\ UNCHANGED <<target, reference>>

Finish(t, from) ==
    /\ pc[t] = from
    /\ pc' = [pc EXCEPT ![t] = "idle"]
    /\ target' = [target EXCEPT ![t] = None]
    /\ reference' = [reference EXCEPT ![t] = None]

(* A write outside the transaction waits for the transaction to end. *)
Unlocked(b) == txnLock[b] = None

(* The controller answers 200 and Paystack stops sending the event again. *)
Acknowledge(r) == delivery' = [delivery EXCEPT ![r] = "acked"]

\* Mutant of Lapsed: the boundary of the wrong constant.
LapsedEarly(b) == age[b] # "fresh"

(* expiresAt.getTime() < Date.now() *)
Lapsed(b) == age[b] \in {"lapsed", "stale"}

-----------------------------------------------------------------------------
(* initializeShuttleServicesPayment *)

(* findById and the guards.  With a reference already stored the handler
   returns it and changes nothing; without one it goes on to Paystack. *)
InitRead(t, b) ==
    /\ status[b] = "reserved"
    /\ ~Lapsed(b)
    /\ paymentReference[b] = None
    /\ Start(t, "init", b, None)
    /\ UNCHANGED <<doc, age, txnLock, paystack, audit>>

(* A new reference, and the transaction Paystack opens for it with the
   booking's id in its metadata. *)
InitPaystack(t, r) ==
    /\ pc[t] = "init"
    /\ charge[r] = "unused"
    /\ charge' = [charge EXCEPT ![r] = "created"]
    /\ source' = [source EXCEPT ![r] = target[t]]
    /\ pc' = [pc EXCEPT ![t] = "init_save"]
    /\ reference' = [reference EXCEPT ![t] = r]
    /\ UNCHANGED <<doc, age, txnLock, delivery, refund, audit, target>>

(* booking.save() sets paymentReference alone, whatever became of the document
   since findById, and throws if it was deleted.  The reply hands the
   transaction to the customer. *)
InitSave(t) ==
    /\ Finish(t, "init_save")
    /\ Unlocked(target[t])
    /\ \/ /\ status[target[t]] = "absent"
          /\ UNCHANGED <<paymentReference, charge>>
       \/ /\ status[target[t]] # "absent"
          /\ paymentReference' = [paymentReference EXCEPT ![target[t]] = reference[t]]
          /\ charge' = [charge EXCEPT ![reference[t]] = "offered"]
    /\ UNCHANGED <<status, paymentVerified, paidAt, age, txnLock,
                   source, delivery, refund, audit>>

-----------------------------------------------------------------------------
(* handlePaystackWebhook and handleShuttleServicesPayment *)

\* Mutant of Ignored: no amount guard.
IgnoredButAmount(b, r) ==
    status[b] = "absent" \/ paymentVerified[b] \/ paymentReference[b] # r

(* What makes the handler return without touching the booking. *)
Ignored(b, r) ==
    \/ status[b] = "absent"
    \/ paymentVerified[b]
    \/ paymentReference[b] # r
    \/ ~Lapsed(b) /\ charge[r] # "exact"

(* Paystack posts charge.success for r: the first time, again after an answer
   other than 200, or once more for an event it saw answered.  The handler reads
   the booking and takes the late path or the confirming one. *)
WebhookRead(t, r) ==
    LET b == source[r] IN
    /\ Charged(r)
    /\ delivery[r] \in {"owed", "acked"}
    /\ \/ /\ pc[t] = "idle" /\ Ignored(b, r)
          /\ Acknowledge(r)
          /\ UNCHANGED requests
       \/ /\ ~Ignored(b, r)
          /\ Start(t, IF Lapsed(b) THEN "late_notify" ELSE "confirm", b, r)
          /\ UNCHANGED delivery
    /\ UNCHANGED <<doc, age, txnLock, charge, source, refund, audit>>

\* Mutant of ConfirmMatches: the status left out of the filter.
ConfirmMatchesAnyStatus(b, r) ==
    status[b] # "absent" /\ ~paymentVerified[b] /\ paymentReference[b] = r

(* The filter of the updateOne that confirms. *)
ConfirmMatches(b, r) ==
    /\ status[b] = "reserved"
    /\ ~paymentVerified[b]
    /\ paymentReference[b] = r

(* updateOne in the session.  A match is written provisionally: the document
   stays as it is for everyone else until the commit.  No match: abort, return.
   A match another transaction already wrote is a write conflict, an exception
   (Fail). *)
ConfirmUpdate(t) ==
    LET b == target[t]
        r == reference[t] IN
    \/ /\ Advance(t, "confirm", "log")
       /\ ConfirmMatches(b, r)
       /\ Unlocked(b)
       /\ txnLock' = [txnLock EXCEPT ![b] = t]
       /\ UNCHANGED <<doc, age, paystack, audit>>
    \/ /\ Finish(t, "confirm")
       /\ ~ConfirmMatches(b, r)
       /\ Acknowledge(r)
       /\ UNCHANGED <<doc, age, txnLock, charge, source, refund, audit>>

\* Mutant of ConfirmLog: the log call is not awaited, and lost.
ConfirmLogLost(t) ==
    /\ Advance(t, "log", "commit")
    /\ UNCHANGED <<doc, age, txnLock, paystack, audit>>

(* auditService.log takes no session: the entry is there at once. *)
ConfirmLog(t) ==
    /\ Advance(t, "log", "commit")
    /\ audit' = audit \cup {<<"PAYMENT_SUCCESS", reference[t]>>}
    /\ UNCHANGED <<doc, age, txnLock, paystack>>

ConfirmCommit(t) ==
    /\ Advance(t, "commit", "notify")
    /\ status' = [status EXCEPT ![target[t]] = "paid"]
    /\ paymentVerified' = [paymentVerified EXCEPT ![target[t]] = TRUE]
    /\ paidAt' = [paidAt EXCEPT ![target[t]] = "paid_at"]
    /\ txnLock' = [txnLock EXCEPT ![target[t]] = None]
    /\ UNCHANGED <<paymentReference, age, paystack, audit>>

(* notifyShuttleBookingSuccess went through and the handler returns. *)
ConfirmNotify(t) ==
    /\ Finish(t, "notify")
    /\ Acknowledge(reference[t])
    /\ UNCHANGED <<doc, age, txnLock, charge, source, refund, audit>>

(* handleLatePaymentForExpiredBooking: both emails must go out first. *)
LateNotify(t) ==
    /\ Advance(t, "late_notify", "late_refund")
    /\ UNCHANGED <<doc, age, txnLock, paystack, audit>>

LateRefund(t) ==
    /\ Advance(t, "late_refund", "late_mark")
    /\ refund' = [refund EXCEPT ![reference[t]] = IF @ = "none" THEN "once" ELSE "again"]
    /\ UNCHANGED <<doc, age, txnLock, charge, source, delivery, audit>>

\* Mutant of MarkMatches: paymentVerified left out of the filter.
MarkMatchesVerified(b) == status[b] # "absent"

(* The filter of the updateOne that marks. *)
MarkMatches(b) == status[b] # "absent" /\ ~paymentVerified[b]

LateMark(t) ==
    /\ Advance(t, "late_mark", "late_log")
    /\ Unlocked(target[t])
    /\ status' = IF MarkMatches(target[t])
                 THEN [status EXCEPT ![target[t]] = "refund_pending"]
                 ELSE status
    /\ UNCHANGED <<paymentReference, paymentVerified, paidAt, age, txnLock,
                   paystack, audit>>

LateLog(t) ==
    /\ Finish(t, "late_log")
    /\ audit' = audit \cup {<<"PAYMENT_EXPIRED_REFUNDED", reference[t]>>}
    /\ Acknowledge(reference[t])
    /\ UNCHANGED <<doc, age, txnLock, charge, source, refund>>

-----------------------------------------------------------------------------
(* verifyPayment and verifyShuttleServicesManually *)

(* The customer's page asks to verify r, and Paystack answers "success". *)
VerifyCharge(t, r) ==
    /\ Charged(r)
    /\ Start(t, "verify", source[r], r)
    /\ UNCHANGED <<doc, age, txnLock, paystack, audit>>

(* The cron finds b still unpaid, 10 minutes to 48 hours after its creation,
   and verifies the reference stored in it. *)
Reconcile(t, b) ==
    /\ status[b] = "reserved" /\ ~paymentVerified[b]
    /\ paymentReference[b] # None
    /\ age[b] \in {"settled", "lapsed"}
    /\ Charged(paymentReference[b])
    /\ Start(t, "verify", source[paymentReference[b]], paymentReference[b])
    /\ UNCHANGED <<doc, age, txnLock, paystack, audit>>

(* What makes the handler return or throw before it confirms.  Neither the
   status nor the stored reference is among it. *)
VerifyDeclines(b, r) ==
    \/ status[b] = "absent"
    \/ paymentVerified[b]
    \/ Lapsed(b)
    \/ charge[r] # "exact"

VerifyRead(t) ==
    /\ \/ Finish(t, "verify") /\ VerifyDeclines(target[t], reference[t])
       \/ Advance(t, "verify", "verify_save") /\ ~VerifyDeclines(target[t], reference[t])
    /\ UNCHANGED <<doc, age, txnLock, paystack, audit>>

(* booking.save() sets the three fields whatever the document now holds, and
   throws if it was deleted. *)
VerifySave(t) ==
    LET b == target[t] IN
    /\ \/ /\ Finish(t, "verify_save")
          /\ status[b] = "absent"
          /\ UNCHANGED doc
       \/ /\ Advance(t, "verify_save", "verify_log")
          /\ status[b] # "absent"
          /\ status' = [status EXCEPT ![b] = "paid"]
          /\ paymentVerified' = [paymentVerified EXCEPT ![b] = TRUE]
          /\ paidAt' = [paidAt EXCEPT ![b] = "now"]
          /\ UNCHANGED paymentReference
    /\ Unlocked(b)
    /\ UNCHANGED <<age, txnLock, paystack, audit>>

VerifyLog(t) ==
    /\ Finish(t, "verify_log")
    /\ audit' = audit \cup {<<"PAYMENT_VERIFIED_MANUALLY", reference[t]>>}
    /\ UNCHANGED <<doc, age, txnLock, paystack>>

-----------------------------------------------------------------------------
(* expireReservations, and the same update in createShuttle *)

Expirable(b) == status[b] = "reserved" /\ Lapsed(b)

\* Mutant of Expire: a status the enum does not declare.
ExpireMisspelt(b) ==
    /\ Expirable(b) /\ Unlocked(b)
    /\ status' = [status EXCEPT ![b] = "EXPIRED"]
    /\ UNCHANGED <<paymentReference, paymentVerified, paidAt, age, txnLock,
                   paystack, audit, requests>>

(* updateMany is atomic for one document at a time. *)
Expire(b) ==
    /\ Expirable(b) /\ Unlocked(b)
    /\ status' = [status EXCEPT ![b] = "expired"]
    /\ UNCHANGED <<paymentReference, paymentVerified, paidAt, age, txnLock,
                   paystack, audit, requests>>

-----------------------------------------------------------------------------
(* deleteBooking *)

\* Mutant of Deletable: a reservation, whose payment may be in flight, is not kept.
DeletableReserved(b) == status[b] \notin {"absent", "paid", "refund_pending"}

Deletable(b) == status[b] \notin {"absent", "reserved", "paid", "refund_pending"}

DeleteRead(t, b) ==
    /\ Deletable(b)
    /\ Start(t, "delete", b, None)
    /\ UNCHANGED <<doc, age, txnLock, paystack, audit>>

(* findByIdAndDelete, whatever the document now holds. *)
DeleteWrite(t) ==
    LET b == target[t] IN
    /\ Finish(t, "delete")
    /\ Unlocked(b)
    /\ status' = [status EXCEPT ![b] = "absent"]
    /\ paymentReference' = [paymentReference EXCEPT ![b] = None]
    /\ paymentVerified' = [paymentVerified EXCEPT ![b] = FALSE]
    /\ paidAt' = [paidAt EXCEPT ![b] = "unset"]
    /\ UNCHANGED <<age, txnLock, paystack, audit>>

-----------------------------------------------------------------------------
(* Failures and the environment *)

\* Mutant of Fail: the exception is swallowed and the webhook answered 200.
FailSwallowed(t) ==
    /\ pc[t] \notin {"idle", "init"}
    /\ Finish(t, pc[t])
    /\ delivery' = [r \in Refs |-> IF r = reference[t] /\ delivery[r] = "owed"
                                   THEN "acked" ELSE delivery[r]]
    /\ txnLock' = [b \in Bookings |-> IF txnLock[b] = t THEN None ELSE txnLock[b]]
    /\ UNCHANGED <<doc, age, charge, source, refund, audit>>

\* Mutant of Fail: the transaction is not aborted.
FailHolding(t) ==
    /\ pc[t] # "idle"
    /\ Finish(t, pc[t])
    /\ UNCHANGED <<doc, age, txnLock, paystack, audit>>

(* The call a request is waiting for throws, or the process dies: what the
   request held is lost, its transaction is aborted, and a webhook is not
   answered 200. *)
Fail(t) ==
    /\ pc[t] # "idle"
    /\ Finish(t, pc[t])
    /\ txnLock' = [b \in Bookings |-> IF txnLock[b] = t THEN None ELSE txnLock[b]]
    /\ UNCHANGED <<doc, age, paystack, audit>>

(* The customer pays in Paystack's popup, for any amount: the popup takes the
   amount from the page. *)
Pay(r) ==
    /\ charge[r] = "offered"
    /\ \E c \in {"inexact", "exact"} : charge' = [charge EXCEPT ![r] = c]
    /\ delivery' = [delivery EXCEPT ![r] = "owed"]
    /\ UNCHANGED <<doc, age, txnLock, source, refund, audit, requests>>

(* Paystack stops retrying. *)
GiveUp(r) ==
    /\ delivery[r] = "owed"
    /\ delivery' = [delivery EXCEPT ![r] = "lost"]
    /\ UNCHANGED <<doc, age, txnLock, charge, source, refund, audit, requests>>

Later == [fresh |-> "settled", settled |-> "lapsed", lapsed |-> "stale"]

Tick(b) ==
    /\ age[b] # "stale"
    /\ age' = [age EXCEPT ![b] = Later[age[b]]]
    /\ UNCHANGED <<doc, txnLock, paystack, audit, requests>>

-----------------------------------------------------------------------------
Handle(t) ==
    \/ \E r \in Refs : InitPaystack(t, r)
    \/ InitSave(t)
    \/ ConfirmUpdate(t) \/ ConfirmLog(t) \/ ConfirmCommit(t) \/ ConfirmNotify(t)
    \/ LateNotify(t) \/ LateRefund(t) \/ LateMark(t) \/ LateLog(t)
    \/ VerifyRead(t) \/ VerifySave(t) \/ VerifyLog(t)
    \/ DeleteWrite(t)

Next ==
    \/ \E t \in Requests :
        \/ Handle(t) \/ Fail(t)
        \/ \E b \in Bookings : InitRead(t, b) \/ Reconcile(t, b) \/ DeleteRead(t, b)
        \/ \E r \in Refs : WebhookRead(t, r) \/ VerifyCharge(t, r)
    \/ \E b \in Bookings : Expire(b) \/ Tick(b)
    \/ \E r \in Refs : Pay(r) \/ GiveUp(r)

Spec == Init /\ [][Next]_vars

-----------------------------------------------------------------------------
(* Properties *)

(* paymentVerified and the status PAID never disagree, although the webhook's
   transaction, the manual verification's save, the late-payment mark and the
   clean-up write the document independently of one another. *)
VerifiedIffPaid ==
    \A b \in Bookings :
        status[b] # "absent" => (paymentVerified[b] <=> status[b] = "paid")

(* A PAID booking was charged its full amount, by a transaction opened for that
   very booking, however many references were issued for it. *)
PaidWasCharged ==
    \A b \in Bookings :
        status[b] = "paid" => \E r \in Refs : source[r] = b /\ charge[r] = "exact"

(* A refund is requested only of money that was taken, and only once the window
   of the reservation it was taken for has closed. *)
RefundsAreLate ==
    \A r \in Refs :
        refund[r] # "none" => /\ Charged(r)
                              /\ age[source[r]] \in {"lapsed", "stale"}

(* A booking whose payment the webhook confirmed has its audit entry: the entry
   is awaited before the transaction commits. *)
WebhookPaidIsAudited ==
    \A b \in Bookings :
        paidAt[b] = "paid_at" =>
            \E r \in Refs : source[r] = b /\ <<"PAYMENT_SUCCESS", r>> \in audit

(* Once the webhook for the stored reference was answered 200, after which
   Paystack will not send it again, the booking is not left RESERVED, whichever
   duplicates, failures and other writers came between. *)
AckedIsDecided ==
    \A r \in Refs :
        /\ delivery[r] = "acked"
        /\ charge[r] = "exact"
        /\ paymentReference[source[r]] = r
        => status[source[r]] # "reserved"

(* The webhook confirms only a booking that is still RESERVED at the commit: no
   clean-up, deletion or other confirmation slips in after its updateOne. *)
ConfirmsOnlyReserved ==
    [][\A b \in Bookings :
        paidAt[b] # "paid_at" /\ paidAt'[b] = "paid_at" => status[b] = "reserved"]_vars

(* What the webhook confirmed stays PAID: no deletion that was allowed before, no
   late-payment mark, clean-up or verification under way takes it back ("PAID ->
   blocked. Payment confirmed.", shuttle-services.service.ts:516). *)
ConfirmedStaysPaid ==
    [][\A b \in Bookings :
        status[b] = "paid" /\ paidAt[b] = "paid_at" => status'[b] = "paid"]_vars

Abstract == INSTANCE BookingLifecycle WITH
    funded <- {b \in Bookings : \E r \in Refs : source[r] = b /\ charge[r] = "exact"}

(* "reserved -> paid | expired -> (refund_pending -> refunded)" (ARCHITECTURE.md:143),
   and deletion "blocked for reserved/paid/refund_pending" (ARCHITECTURE.md:156):
   the status moves only along the documented lifecycle. *)
DocumentedLifecycle == Abstract!Spec

(* The lifecycle with what handlers write on the strength of a stale read: PAID
   over EXPIRED or REFUND_PENDING, and the deletion of either or of PAID. *)
RacingLifecycle == Abstract!RacingSpec

(* "prevents double-refund on replay" (payments.service.ts:509): no transaction
   is asked to be refunded a second time. *)
RefundedOnce == \A r \in Refs : refund[r] # "again"

(* "Safe to abort quietly; the booking state is already correct"
   (payments.service.ts:426): a charge in full of the stored reference whose
   webhook was answered 200 has its booking PAID, or its refund requested. *)
AckedIsSettled ==
    \A r \in Refs :
        /\ delivery[r] = "acked"
        /\ charge[r] = "exact"
        /\ paymentReference[source[r]] = r
        => paymentVerified[source[r]] \/ refund[r] # "none"

(* "Log the successful payment - inside the same transaction so it rolls back
   together" (payments.service.ts:431): an entry for a payment stands only with
   the booking PAID, or a transaction still about to commit it. *)
AuditedIsPaid ==
    \A r \in Refs :
        <<"PAYMENT_SUCCESS", r>> \in audit =>
            \/ status[source[r]] \in {"paid", "absent"}
            \/ \E t \in Requests : pc[t] = "commit" /\ reference[t] = r

-----------------------------------------------------------------------------
(* Liveness *)

(* Node runs every handler that is not waiting, the crons fire again and again,
   Paystack repeats a webhook until it is answered 200, and a call that is tried
   again and again succeeds some time.  Customers and administrators owe
   nothing. *)
Fairness ==
    /\ \A t \in Requests :
        /\ WF_vars(Handle(t))
        /\ SF_vars(LateNotify(t))
        /\ SF_vars(LateRefund(t))
    /\ \A b \in Bookings : WF_vars(Expire(b))
    /\ \A r \in Refs :
        SF_vars(delivery[r] = "owed" /\ \E t \in Requests : WebhookRead(t, r))

FairSpec == Spec /\ Fairness

(* A reservation whose window has closed does not hold its seats for ever, even
   if a confirming transaction died with the document locked. *)
LapsedReservationEnds ==
    \A b \in Bookings :
        status[b] = "reserved" /\ Lapsed(b) ~> status[b] # "reserved"

LateOffer(r) ==
    /\ charge[r] = "offered"
    /\ Lapsed(source[r])
    /\ paymentReference[source[r]] = r

(* The money of r is on its way back, or r is no longer the webhook's to
   decide: Paystack gave up, another transaction replaced the reference or paid
   the booking, or the document was deleted. *)
GivenBack(r) ==
    \/ refund[r] # "none"
    \/ delivery[r] = "lost"
    \/ /\ Charged(r)
       /\ \/ paymentVerified[source[r]]
          \/ paymentReference[source[r]] # r

(* Money taken after the window closed goes back, although every attempt to
   handle its webhook may fail at any call, and the process may die. *)
LateChargeIsRefunded ==
    \A r \in Refs : [](LateOffer(r) => [](Charged(r) => <>GivenBack(r)))
============================================================================
