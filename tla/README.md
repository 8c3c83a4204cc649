# Novo car API: specifications

TLA+ models, TLC runs and TLAPS proofs for the Novo car API (`src/`, a NestJS
service over MongoDB, Paystack, Google Maps, Brevo and Termii). This document
lists the system's parts, says which module models which, what every run checks,
what is proved and from what, and what comes next. Paths are relative to the
repository's root; `payments.service.ts:407` is a line of
`src/payments/payments.service.ts`.

## 1. Inventory

One Node process serves HTTP handlers and crons on one event loop. A handler runs
undisturbed between two `await`s and is interleaved with every other handler at
each of them. All state is in MongoDB documents; what a handler read before an
await may be stale after it. Most handlers are check-then-write without a
transaction; two use transactions (`createShuttle`, and the webhook for shuttle
services). The process may die at any await.

| Component | State | Operations | Touches |
|---|---|---|---|
| Shuttle payments (`payments/`) | `paymentReference`, `paymentVerified`, `paidAt`, `status` of a `shuttle` document | initialize, webhook, verify, late refund | Paystack, seat reservation, audit log, mail, SMS |
| Payment reconciliation (`payments/payment-reconciliation.service.ts`) | none | every 30 minutes: verify unpaid references of 10 minutes to 48 hours | shuttle payments, legacy bookings |
| Seat reservation (`shuttle-services/`) | `shuttle` documents: legs, dates, `seatCount`, `status`, `expiresAt` | createShuttle (transaction), deleteBooking, listings | schedules, riders, payments |
| Reservation clean-up (`shuttle-service-cleanup.service.ts`) | none | every minute: RESERVED past `expiresAt` becomes EXPIRED | `shuttle` documents |
| Schedules and cities (`schedule/`, `city/`) | routes, capacity, prices, plans, `isActive`; city codes | create, update, toggle, delete, search | seat reservation |
| Administrators (`admin/`) | admin records: role, `isActive`, `createdBy` | bootstrap, createAdmin, setAdminStatus, login; SuperAdminGuard | all admin endpoints |
| Riders' accounts (`auth/`) | users, reset tokens | register, login, forgot / reset / change password, profile | bookings |
| Legacy trip bookings (`booking/`, `trips/`) | `user_bookings` documents | create, list; paid through the `booking` source of payments | payments |
| Paystack and guest bookings (`paystack-bookings/`, `guest-booking/`) | booking documents | create; the code that would pay for them is reachable by no route | none |
| On-demand rides (`shuttle-booking/`) | ride documents, status history, versioned pricing | create, updateStatus, list | pricing, maps |
| Pricing and maps (`pricing/`, `maps/`) | price configurations, cached distances | calculatePrice, getDistanceKm | Google Maps |
| Public forms: contact, quotes, rentals, leases, fleet, verification, manpower, interstate, consultations, job applications, O.D. school, booking requests, airport transfers, one-way and shuttle trips | one collection each | create; some are edited, reviewed or deleted by administrators | mail, SMS, audit log, Cloudinary |
| Newsroom, careers, cars (`newsroom/`, `career-jobs/`, `cars/`) | articles with slugs, vacancies, cars | create, update, toggle, delete | none |
| Newsletter (`newsletter/`) | subscriptions, requests to leave | subscribe, requestUnsubscribe, update, delete | mail |
| Health (`health/`) | failures in a row | keep-alive ping, a louder log line | none |
| Audit log, mail, notifications, chat, common code | audit entries; none | log; send | everything above |

Hard behaviours, and where they are listed in detail: `PROJECT.json` "hazards"
has one entry per hazard with its line. In short:

- *Interleaving*: webhook, verification, clean-up, deletion and initialization
  write one `shuttle` document in any order; two reservations count the same
  seats; two administrators pass the same count.
- *Unreliable delivery*: Paystack repeats a webhook until it is answered 200, may
  repeat it afterwards, and gives up some time.
- *Crash and partial failure*: between refund and mark, between audit entry and
  commit, between `updateOne` and commit with the document locked.
- *Time*: a payment may arrive before or after `expiresAt`, and cross it.
- *Snapshots*: a transaction reads the past, and is aborted only when it writes
  what someone else wrote.

What makes the parts correct:

- payments: PAID only with the money taken in full for that very booking; money
  taken too late goes back, once; a webhook answered 200 has settled its payment;
  the status only moves along its lifecycle; the audit trail agrees with it;
- seats: no leg of a schedule on a date holds more seats than the vehicle has; a
  reservation expired by a transaction is expired if and only if the transaction
  commits, and by one transaction only; a payment is never overwritten;
- administrators: at most four super admins; always one who can act; one
  bootstrap; everyone else created by a super admin;
- schedules: `basePrice` equals the "single" plan's price; a schedule that live
  bookings use is not deleted; a code names one city, and routes stay findable;
- riders: a reset token works once and for its own account;
- rides: the status history is a path of the transition table; the parts of a price
  add up; a route has one distance;
- legacy bookings: no more seats than the trip has; PAID only with the money taken;
- forms: whoever left an enquiry is known to somebody; the same form sent twice is
  stored once; an approval is mailed once;
- newsroom and newsletter: a slug follows its title; one request to leave at a time.

## 2. Modules

| Module | Role |
|---|---|
| `BookingLifecycle` | abstract: a booking's status as documented, and the two stale writes the handlers add |
| `Process` | the constants the models share: requests in flight, `None` |
| `ShuttlePayments` | payments, reconciliation, clean-up and deletion of one or more bookings |
| `MCShuttlePayments` | the above for TLC |
| `ShuttlePayments_proofs` | type correctness, the safety properties, and which lifecycle it implements, proved |
| `SeatReservation` | createShuttle under snapshot isolation, composed with `BookingLifecycle` |
| `MCSeatReservation`, `SeatReservation_proofs` | TLC instance; proofs |
| `MCShuttleService` | both sides of the shuttle service for TLC |
| `AdminAccounts` | bootstrap, createAdmin, setAdminStatus |
| `MCAdminAccounts`, `AdminAccounts_proofs` | TLC instance; proofs |
| `Handlers` | requests in flight of the services that use no transaction; extended by the following |
| `CityCodes`, `ScheduleCatalog` | cities; schedules beside cities, createShuttle and the booking lifecycle |
| `MCScheduleCatalog`, `ScheduleCatalog_proofs` | the two for TLC; proofs |
| `RiderAccounts` | registration, sign-in, profile, forgotten and changed passwords |
| `LegacyBookings` | trip bookings and the `booking` source of payments |
| `RideBookings` | on-demand rides, distance cache, pricing rules, `calculatePrice`, status history |
| `LeadForms` | the public forms, each a list of awaits |
| `Newsroom` | articles, vacancies, cars; newsletter |
| `FrontOffice`, `MCFrontOffice` | the five above in one process; its part of the TLC instance |
| `BackOffice`, `MCBackOffice` | `FrontOffice`, `ScheduleCatalog` and `AdminAccounts` in one process; TLC instance |
| `Handlers_proofs` | what a step of one service is to the requests of another |
| `RiderServices_proofs` | invariants of accounts, legacy bookings and rides |
| `FrontOffice_proofs` | invariants of newsroom and leads, and of the whole; its theorems |
| `SumLemmas` | sums over finite sets, for seats and their counts |

Definitions marked "Mutant of ..." are plausible bugs in the definition below
them. No specification uses them: each shows that a property notices.

### BookingLifecycle

`Next` is the lifecycle as the repository documents it: RESERVED becomes PAID, EXPIRED
or REFUND_PENDING, EXPIRED becomes REFUND_PENDING, and only EXPIRED is deleted
(ARCHITECTURE.md:143 and :156, shuttle-services.service.ts:510-520,
payments.service.ts:377). The code does two things more, because it writes on the
strength of a status that was true when it read it: `StalePay` saves PAID over EXPIRED or
REFUND_PENDING, `StaleRemove` deletes a booking that is PAID or REFUND_PENDING by then.
`RacingNext` has these too. `DocumentedLifecycle` says that `ShuttlePayments` implements
`Spec`, and a run refutes it; that it implements `RacingSpec` is proved.

### ShuttlePayments

State: the four fields of the document (`status`, `paymentReference`,
`paymentVerified`, `paidAt`); `age`, the clock as far as the code reads it (10
minutes, 15 minutes, 48 hours after `createdAt`); `txnLock`, the open transaction
that wrote a document; Paystack's transactions, their webhooks and refunds;
`audit`; and per request its program counter and the booking and reference it
carries.

Actions: one per await. `InitRead`, `InitPaystack`, `InitSave` are
`initializeShuttleServicesPayment`; `WebhookRead`, `ConfirmUpdate`, `ConfirmLog`,
`ConfirmCommit`, `ConfirmNotify` the webhook in time; `LateNotify`, `LateRefund`,
`LateMark`, `LateLog` the webhook past `expiresAt`; `VerifyCharge` / `Reconcile`,
`VerifyRead`, `VerifySave`, `VerifyLog` the manual verification and the cron that
uses it; `DeleteRead`, `DeleteWrite` the deletion; `Expire` the clean-up. `Fail`
drops a request at any await: an exception or the death of the process. `Pay`,
`GiveUp` and `Tick` are the environment.

Four facts about the libraries shape the model. A Mongoose `save()` writes only
the modified paths and filters by `_id`, so `VerifySave` and `InitSave` overwrite
whatever the document became. A write in a transaction is invisible and locks the
document until the commit; a write outside waits for it. `auditService.log` takes
no session and is visible at once. And the controller answers 200 exactly when the
handler returns without an exception, however early.

Left out: amounts are "exact" or not, since the code compares them for equality
only; passengers, mails and SMS are the steps `ConfirmNotify` and `LateNotify`,
which succeed or fail; a signature that does not match ends a request before any
state is read. The reply of `initialize` with a stored reference changes nothing
and is not a step.

### SeatReservation

State, for each of `Reservations` (the bookings that may come to exist): its status
(`committed`), `lapsed` (its `expiresAt` has passed), its `trip` (schedule and date of
each leg, `seatCount`), and of the transaction that creates it `stage`, `view` (its
snapshot, then its own writes) and `cleaned` (what its `updateMany` expired).

`Begin` validates and takes the snapshot, `Clean` is the `updateMany`, `Insert`
the seat checks, the insertion and the commit, `Abort` any way to fail.
`ExpireReservations` is the cron. `Settle` is what payments and deletion may do to a
booking: the steps of `BookingLifecycle` with the stale ones, which `ShuttlePayments` is
proved to implement. Seats are counted per leg, as `ShuttleServicesService` counts them
(`Available`); the count the search advertises decides nothing and is left out.

MongoDB's snapshot isolation is external: a transaction reads the statuses of its
first read, and is aborted (`Conflicting`) when it writes a document that an open
transaction wrote or that changed since. Capacity is a constant here.

### AdminAccounts

State: role, `isActive` and `createdBy` of each record, and the requests in
flight. A request is guarded (`CreateGuard`, `SetStatusGuard`), reads
(`CreateLookup`, `SetStatusFind`), counts (`SeedCheck`, `CreateCount`,
`SetStatusCount`) and writes (`Seed`, `Create`, `SetStatusSave`), one await each; the
bcrypt hash lies between count and insertion. A duplicate email makes the
insertion throw. `crossed` is a history variable and not code: it records that
a request passed its check while another one of the kind had passed and not yet
written. Records from before `isActive` existed are not modelled.

### Handlers and what extends it

The other services write single documents without a transaction, and their hazards
are all of one shape: a request reads, awaits, and writes what the read allowed.
`Handlers` has this shape once. `req` holds each request in flight: its operation,
the await it is at, what it read. `Start`, `Continue`, `Finish` and `Fail` (an
exception at an await, or the end of the process) move it. `Overlap` adds a name to
the history variable `overlapped` when a request passes a check while another
request is between the same check and its write. A property that such a race would
break says "unless" and the name of the race; everything else that may interleave
is covered without exception. `shift` is the set of operations that may be asked for
in a behaviour: a means to explore related operations together, see the bounds.

A Mongoose `save()` writes what was modified since `findById`; a field assigned the
value it was read with is not written. This matters wherever a request overlaps
another one on the same document and is modelled by carrying what was read (`read`,
`was`, `shown`, `flag`). `findByIdAndUpdate` writes what the payload names. A unique
index makes an insertion or a save throw. A new document's id comes from `Fresh`,
which names one (the ids not in use are interchangeable), or from any free id.

*CityCodes*. A code is a pair of the name's first three letters and a number, 0 for
none: `GenerateUniqueCode` tries them in the code's order, one query at a time.
*ScheduleCatalog*. Of a schedule: `from`, `to`, `basePrice`, the price of its
"single" plan, `isActive`. `createShuttle` appears as far as it concerns schedules:
it reads them outside its session (`BookFind`) and commits (`BookInsert`); what
becomes of the booking is `Settle`, a step of `BookingLifecycle`, stale or not. The body of PATCH
is typed `Partial<CreateScheduleDto>` and therefore not validated; the model sends the
fields of `UpdateSchedulePayload` with the types they have there. `named`, `turned`,
`flips`, `straddled` and `revived` are history variables of the properties.
*RiderAccounts*. bcrypt touches no document and belongs to the read before it; the
hash of a token is the token. *LegacyBookings*. No handler cancels a booking, so a
booking is paid or not. `HookFind`, `HookUpdate`, `HookLog` are the webhook;
`ReconcileBookings` and `VerifyAsk` start the same verification.
*RideBookings*. Money is in hundred-thousandths of a naira and distances are in
metres, so that `Fare` and the roundings are exact integers.
*LeadForms*. A form is the list of its awaits (`ContactUs` to `PaystackBookings`); an
await does the same in every form that has it. `told` and `reported` are what the
administrators can know of a lead. Mails nobody waits for are the end of a list.
*Newsroom*. A slug is a pair like a code. `removed` keeps deleted ids from returning.
*FrontOffice* joins the five: they share the requests and their failures, and no
document. *BackOffice* adds the catalogue and the administrators.

## 3. Runs

| Run | Instance | Shows |
|---|---|---|
| `shuttle_service` | 1 booking, 2 references, 3 requests; 3 reservations, 2 schedules, 2 days, 2 seats, 4 shapes of trip | the money, the flags and the audit trail of a booking agree; seats, clean-up and payments under snapshot isolation |
| `pay_liveness` | 1 booking, 1 reference, 2 requests, fair | lapsed reservations end, late money goes back |
| `refunded_once` | 1 booking, 1 reference, 2 requests | violated: a repeated webhook refunds again |
| `acked_settled` | the same | violated: a webhook that loses to the clean-up is answered 200 and nothing is refunded |
| `audited_paid` | the same | violated: the audit entry outlives the aborted transaction |
| `documented_lifecycle` | the same | violated: a verification saves PAID over EXPIRED |
| `seat_race` | 2 reservations | violated: two reservations of the last seats both commit |
| `back_office` | 2 of each document (1 ride, 1 booking of a schedule), 3 admin records with a cap of 2, 2 requests; 2 tokens, 2 references, 2 routes, 2 tariffs, 17 forms, 3 names with 2 prefixes, 2 prices | accounts, legacy bookings, rides, forms, newsroom, newsletter; toggles of cities and schedules; what the counts of super admins guarantee, and how far they are exceeded |
| `admin_lockout` | 2 records, 2 requests | violated: two super admins disable each other |
| `city_codes` | as the catalogue of `back_office` | violated: a renamed city leaves its schedules behind |
| `price_sync` | the same | violated: two updates part `basePrice` from its plan |
| `schedule_deletion` | the same | violated: a booking committed during a deletion loses its schedule |

Why the bounds are enough. Bookings of `ShuttlePayments` share nothing but the
pool of unused references and requests, so one booking meets every interleaving of
writers of a document; two references are needed for one to replace the other, a
third would replace it in the same way; three requests let two webhooks meet a
third writer (verification, deletion or initialization), the clean-up needs no
request, and requests are reused without limit. Three are in flight at once as long as
a reference is unused, two afterwards (`Load`). `MCShuttleService` explores the two
sides of the shuttle service one at a time (`side`): what one does to the other is
already a step of it. In `SeatReservation` two requests
race and the third booking is what they find: a lapsed reservation, a payment, a
taken seat; the four shapes give the same slot, the same schedule on another day,
one leg or both in common, and seats that fit together or do not. In
`AdminAccounts` a cap of two is reached by the bootstrapped admin and one more,
the third record overruns it. References, requests and reservations (each is the
request that creates it) are interchangeable and symmetric in the safety runs; the
liveness run uses no symmetry.

In `back_office` two requests overlap, which is what their
races need, and two documents of a kind tell "this one" from "another one". The
operations are explored in groups (`MCShifts`): those that read or write the same
documents are in one group, and operations of two groups cannot disturb each other,
as the services share no document but schedules, cities and bookings, which
`CatalogShifts` groups by the fields they share (codes, fares, `isActive`,
existence). Some groups start from documents that one request at a time
has created (`OfficeSeeded`, `CatalogSeeded`), so that the bounds are spent on the races. Counters: the
numbers tried for a code or a slug go up to 2 (`MaxSuffix`, `MaxCounter`), where two
documents leave one free; histories of four statuses (`MaxHistory`); two rows per cache
(`MaxRows`); two approvals (`MaxApprovals`); two lessons from an address
(`MaxPerAddress`, 3 in the code). A rule's fares are chosen so that every charge has a
fraction. Requests are symmetric.

Deadlock is not checked: references, bookings and emails of an instance run out
and the clock stops at its last class, after which the system rests. Nothing waits
on anything but MongoDB's lock; that it is always released is what
`LapsedReservationEnds` needs.

Fairness (`pay_liveness`). A handler that is not waiting runs: weak fairness of
`Handle`. Two calls in the late path go to others and may fail again and again;
they succeed some time: strong fairness of `LateNotify` and `LateRefund`. The cron
fires every minute: weak fairness of `Expire`. Paystack repeats a webhook that was
not answered 200: strong fairness of `WebhookRead`, as requests may be busy, until
it gives up, which the property allows for. Customers and administrators owe
nothing, `Fail` may happen for ever.

### Findings

1. *Double refund* (`refunded_once`). payments.service.ts:509 claims that the mark
   "prevents double-refund on replay". It is written after the refund and read by
   nobody: the guards look at `paymentVerified`, which stays false.
2. *A quiet abort that is not safe* (`acked_settled`). payments.service.ts:425
   says that the booking's state "is already correct" when the conditional update
   matches nothing. When the clean-up came in between, the customer has paid, the
   booking is EXPIRED, Paystack was answered 200 and nothing refunds. The
   reconciliation does not look at EXPIRED bookings.
3. *Audit outside the transaction* (`audited_paid`). payments.service.ts:431 says
   that the entry "rolls back together" with the payment.
4. *Overselling* (`seat_race`). shuttle-services.service.ts:229 says that of two
   racing requests "only one can commit". That holds of requests that clean a
   reservation in common (`OneCleaner`), not of two that only insert.
5. *Lockout* (`admin_lockout`). admin.service.ts:175 says "never disable the last
   active super admin". Two that disable each other do.
6. *Codes that change* (`city_codes`). city.controller.ts:28 and :35 say that a
   city's code is immutable. Renaming generates and saves another one
   (city.service.ts:74), schedules keep the old one, and a new city may be given it.
7. *Steps off the lifecycle* (`documented_lifecycle`). ARCHITECTURE.md:143 has PAID
   follow RESERVED, payments.service.ts:377 says of a payment whose window has closed
   "DO NOT mark as PAID", and shuttle-services.service.ts:516-519 that neither PAID nor
   REFUND_PENDING is deleted. The verification checks, and saves PAID over what the
   booking has become; the deletion checks, and deletes what it has become.
8. *Prices that diverge* (`price_sync`). schedule.service.ts:313 says that `basePrice`
   and the "single" plan's price "must never diverge". The guard is a read before the
   write: of two updates at once, one of the price and one of the plans, both pass it.
9. *A deletion under a booking* (`schedule_deletion`). schedule.service.ts:352 "refuses
   to delete a schedule that still has bookings referencing it". A booking committed
   between the count and the deletion is not counted; nor is an EXPIRED one, on which
   "nothing live depends" (:358) until a late payment revives it.

The other properties with an "unless" except what the code does when requests overlap.
Two legacy bookings can overbook a trip, a second reset can use a token again, two
rides can cache two distances, two status changes can leave a history that is no path
of the table, two toggles can count as one, and two requests to leave can both be pending;
no document or comment denies these. Four comments do come near what a property excepts.
admin.service.ts:23 calls the number of super admins a "hard cap" and :37 the bootstrap
"one-time"; each is a count before an insertion, so that overlapping creations exceed the
cap, by as many as `CapExceededByRequests` says, and two overlapping bootstraps both seed
(`SeededOnce`). Nothing is said there of requests that overlap.
booking-request.service.ts:38-43 wants a request that a flaky connection sends twice
treated as one; the look-up (46) and the insertion are separate calls, so that two copies
in flight together are stored twice (at the driving school a unique index prevents it):
the window works for a copy that comes later, which is what `OneLeadPerWindow` says.
airport-transfer.service.ts:97-99 has the approval mailed "only" on "the transition INTO
'approved'"; two reviews that both read "pending" both see that transition and both mail:
`ApprovalMailedOnce` counts them apart. `LatestLinkWorks` also shows what remains:
changing a password does not end a reset link that was sent before.

Also visible in the models and claimed by nobody: REFUND_PENDING is never left
(no code assigns REFUNDED, and such a booking cannot be deleted); a lost webhook is
only found if the cron, which runs every 30 minutes, does so between the 10th and 15th minute;
a charge of a reference that a second initialization replaced is neither booked nor refunded; a vehicle's seats can be
sold once outbound and once for the return of the same date, which
schedule.service.ts:45-55 describes as intended.

## 4. Proofs

All theorems hold for any sets of bookings, references, requests, schedules, tokens,
tariffs and records, and any capacity and cap, under the assumptions named below.
Every invariant and every action property that a passing run checks is also a
theorem of the module that states it, whose specification `MCShuttleService` and
`MCBackOffice` run beside the others. The route is the same each time: an inductive invariant, one lemma per action
(or per conjunct, where most actions leave it alone), and a theorem that concludes the
property from it.

*ShuttlePayments* (assumption: `None` is none of the other constants). `TypeOK`
alone is not inductive: a handler writes what it kept over its awaits. The
invariant also types what is held (`HeldOK`) and says what a request may still
rely on at each program counter: the reference it carries was opened for the booking
it carries, and paid, in full on the confirming paths (`HeldInv`); a transaction
just created is known to one request (`OpenedOnce`); the late path runs past
`expiresAt` (`LateInv`); between `updateOne` and commit the request holds the lock
of a document that is still RESERVED (`LockInv`); what a finished write left is not
RESERVED again (`LeftInv`); the audit entry precedes the commit (`AuditInv`). The
properties are conjuncts of the invariant, since they are needed to preserve each
other. It implies `VerifiedIffPaid`, `PaidWasCharged`,
`RefundsAreLate`, `WebhookPaidIsAudited`, `AckedIsDecided` and
`ConfirmsOnlyReserved`. `ConfirmedInv` adds that a booking the webhook confirmed is
PAID and that no deletion under way is of one: its status was RESERVED until then, which
no deletion accepts, so that nothing takes it back (`ConfirmedStaysPaidHolds`). `LifecycleImplemented` maps each
action to a step of `BookingLifecycle`, a stale one included, or a stutter and concludes
`Spec => RacingLifecycle`.

On top of `IInv`, `PaperInv` follows the paper trail. An audit entry names a charge that
was made or a refund that was requested (`AuditTellsTruth`); a booking is
REFUND_PENDING only after its refund was requested (`OwedIsRequested`; inductive with
`RequestedFirst`, about the request between the two); a stored reference was opened
for its booking (`StoredIsOwn`). A locked document has a holder that is between its
`updateOne` and its commit (`LockIsHeld`). `WindowsAreSafe` proves that nobody takes a
reservation within its 15 minutes; who deletes has read a document that may be deleted,
and within the window there is none (`DeletesLapsed`).

*SeatReservation* (assumptions: `SeatAssumptions`, what the DTOs and the schema
enforce). `IInv`: a document exists only when its transaction is done
(`CreatedInv`), what an open transaction cleaned is RESERVED for all others and
cleaned by no other (`LockInv`), and only bookings are cleaned (`CleanedInv`).
From it follow `OneCleaner`, `CleanupCommitted` and `PaidKept`.

`Settle` lets payments and deletion do to a booking what `BookingLifecycle` allows, the
stale steps included.
`LifecycleKept` is the converse: for every booking `b`, all the steps here (`Settle`, the
cron, and the clean-ups in the transactions of others) implement `Life(b)!RacingSpec`, where a
booking exists from the commit of its creation. So each module guarantees what the other
one assumes of a status: a clean-up that reads an old snapshot still expires only what
is RESERVED when it commits.

For the seats themselves `SeatInv` is added. Whom a booking saw is done and did not see
it back (`SeenInv`); who saw a booking saw all it saw but what was deleted since
(`SeenBefore`); a booking fits beside all it counted, even when what it counted has
changed since, because trips do not change (`FitInv`). For `CountedSeatsFit` take
holders of a leg of whom each two were created with one counting the other: the one
that saw most of them saw all of the rest, so their sum is at most what it checked. The bookings
that exist are finitely many because each was begun by a step (`IsFiniteSet(Busy)`);
`Reservations` itself need not be finite. `SeatsWouldFit` adds `RaceInv`: a creation in
flight has seen who holds seats, except for those committed since it began and those it
expires itself.

*SumLemmas*. A sum over a set is a fold that takes some member next, and nothing says
which. That the order does not matter is an induction over sets. The library's
induction theorems have an operator as a parameter, which the installed provers cannot
instantiate; here each induction is the choice of a smallest counterexample
instead (`SmallestSubset`), with the property written out in the set it is chosen from.

*AdminAccounts* (assumptions: finitely many records and requests, a positive cap).
`RequestInv` says what a request has checked that nobody takes back,
`CreateInv` and `DisableInv` that a lone request still finds what its count found.
`CapExceededByRequests` is inductive given these: a request past the check counts
as the super admin it may create. `LockedOutForGood` has the form
`[](LockedOut => []LockedOut)`; its invariant is `IInv`, and `LockedOut` says also that no
request in flight is about to register or enable a super admin.

*Handlers_proofs* (assumption: finitely many requests). A step of a service changes one
request, of that service, and never takes a name from `overlapped` (`StepOf`). For any
other service that is a step aside (`Foreign`): its requests stay as they are or are
started and ended by it alone. So an invariant is proved for a service's own actions and
for a step aside, and the invariants of services that share a process are put together
without looking at any pair of actions.

A property that says "unless two of them overlapped" is never inductive alone. Its
invariant says two more things while the name is not in `overlapped`: at most one
request is between the check and the write, and what that request has read or checked
still holds. This is what "nobody else wrote in between" means, and the proofs show that
it is the only thing the code relies on.

*ScheduleCatalog* (assumptions: `CityAssumptions`, `CatalogAssumptions`). `CatalogInv`
has a part for the cities (`ToggleCityInv`), for the schedules (`PriceInv`,
`ToggleScheduleInv`, and `NamedOnce`: what was never created was never toggled) and for
the bookings (`DeleteInv`: whoever is about to delete a schedule has counted, and what
became live since is in `straddled` or `revived`). It implies `CatalogTypeOK` and
`TogglesCount`, and what is true of the two properties that runs refute,
`PriceAgreesInTurn` and `DeletedUnused`. With
`RouteInv`, which says of a creation in flight what `RouteCitiesStand` says of a
schedule, it gives `ImmutableCodesSuffice`.

*FrontOffice* (assumptions: `RiderAssumptions`, `LegacyAssumptions`,
`RideAssumptions`, `LeadAssumptions`, `NewsroomAssumptions`). `OfficeInv` is the
conjunction of

- `RiderInv`: a stored token is its account's latest, and no two accounts have the same
  latest (`TokenOwner`); a stored token, or one a reset has found, is unused
  (`UnusedInv`); a reset carries the latest token, and an unused latest token is still
  stored (`LinkInv`);
- `LegacyInv`: a reference carried by a request was opened for the booking it carries,
  and charged from the guard on (`LegacyRequests`, `OwnReference`, `TransactionOrder`);
- `RoomInv`: there is room for what the one request past the count is about to insert;
- `RideInv`: what a price request carries is what `calculatePrice` returned, a saved
  status may follow the stored one (`HistoryInv`), a route being measured is not
  stored (`DistanceInv`); that a breakdown adds up is arithmetic: whole naira move out of
  a rounding (`RoundShifts`);
- `LeadInv`: what a form has done before its next await (`LeadRequests`, for every list
  of awaits that has the shape of the code's, `PlanShape`), the look-ups
  (`LookupInv`), the driving school's indexes (`SchoolInv`), and that mails sent and
  mails about to be sent are at most the approvals (`ReviewInv`);
- `NewsInv`: `TitleInv` and `LeaveInv`.

`LegacyInv` is also what the refinement of the trip bookings needs: with PENDING_PAYMENT as
RESERVED (`TripStatus`) and full charges as funds (`TripsFunded`), every step of the
office is a step of the documented lifecycle or a stutter (`TripsLiveTheLifecycle`).

`TripFits` adds the seats of a new booking to a sum whose other members are unchanged
(`SumOfMember`, `SumsAgree`).

What the violated properties fail for. A counterexample shows that a claim of the code
is not true; for all but one of the nine a theorem shows how much of it is.

- `AckedIsSettled` fails past `expiresAt` only: within the window it holds
  (`AckedInTimeArePaid`).
- `AuditedIsPaid` fails because an aborted transaction leaves its entry. The entry still
  names money that was charged (`AuditTellsTheTruth`).
- `LegFits` would hold if what the comment at shuttle-services.service.ts:229 says were
  true of every two creations that overlap (`OnlyOneCommits`), and if nobody could pay
  for an expired reservation (`NoLatePayment`): `SeatsWouldFit`.
- `LastSuperAdminStays` cannot be repaired from within: `LockedOutForGood`.
- `DocumentedLifecycle` fails through two steps alone, `StalePay` and `StaleRemove`; a
  RESERVED booking is never deleted (`LifecycleImplemented`), and what the webhook, not
  the verification, confirmed stays PAID (`ConfirmedStaysPaidHolds`).
- `PriceAgrees` fails when two updates of one schedule overlap, and then only
  (`PricesAgreeInTurn`).
- `LiveBookingHasSchedule` fails for a booking whose creation straddles the deletion and
  for one that a late payment revives, and for no other (`SchedulesDeletedUnused`).
- `RouteCitiesStand` would hold if codes were immutable as documented:
  `ImmutableCodesSuffice`.

The hypotheses of `SeatsWouldFit` and `ImmutableCodesSuffice` are conditions on a
behaviour, `[][...]_vars`, which the code does not enforce. They are met, for example, when
creations run one after the other and payments come in time, and when no city is
renamed. TLC agreed with each of these theorems on the instances of section 3 before it
was proved (`ImmutableCodesSuffice` on a part of the states). Apart from
`ConfirmedStaysPaidHolds` they name no property in `PROJECT.json`, since no run there
states theirs.

Model-checked only: the two properties of `pay_liveness`, since liveness under
fairness and ENABLED are out of the prover's reach. The violations are counterexamples
and not theorems; of `RefundedOnce` nothing is left to prove, since a webhook that is
repeated requests a refund each time. Not proved and not stated: what `Available` and the other operators
compute in general beyond the lemmas above.

Trusted: the models of MongoDB (snapshot isolation, write conflicts, locks,
atomic updates of one document, unique indexes) and of Paystack (what a
transaction, a webhook and a refund are), written from how the code uses them.

## 5. Not modelled

`PROJECT.json` "components" gives each part's status. Left out, with the reason:

- Code no request reaches: `PaystackWebhookController` (mainwebhook.controller.ts, in
  no module) and `PaystackBookingsService.updatePayment` that only it calls,
  `GuestBookingService.initiateGuestPayment`, `MoServicesService.updateRequestStatus`,
  the commented-out trips and refund routes, the stubs of subscriptions, fleet
  vehicles and drivers.
- Code without state: chat, health and keep-alive, configuration, logging, the
  signature scripts, and the reads of all services. Mail, SMS and Cloudinary are calls
  that succeed or fail.
- Data no property tells apart: texts, names, phone numbers, the times and days of a
  schedule, plans other than "single", the price of a plan in createShuttle, the
  fields of the forms beyond what a duplicate check compares.
- Floating point: `calculatePrice` computes in doubles, the model exactly. A value that
  is a half in exact arithmetic may be rounded the other way in doubles.
- Rate limits and guards of the controllers other than `SuperAdminGuard`, tokens of
  sessions, and records written by earlier versions of the code.
- Liveness beyond `pay_liveness`: no other service retries or promises anything later.

## 6. Plan

1. `BookingLifecycle`, `ShuttlePayments`, its proofs and refinement: done.
2. `SeatReservation`, composed with the lifecycle, and its proofs, the sums included: done.
3. `AdminAccounts`, `CityCodes`, `ScheduleCatalog` and their proofs: done.
4. `RiderAccounts`, `LegacyBookings`, `RideBookings`, `LeadForms`, `Newsroom`,
   `FrontOffice` and their proofs, `BackOffice` to run them with the catalogue: done.
5. `BookingLifecycle` as what shuttle payments and the clean-up transactions keep but for
   two stale writes, and the old trips without exception, and what the violated properties fail for: done.
6. Next: action properties of the services (an approved transfer's history, a charge
   is never taken back), and the refunds as one account of the money. Liveness beyond
   payments has nothing to rest on: no other service retries.
