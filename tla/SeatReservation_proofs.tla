----------------------- MODULE SeatReservation_proofs ----------------------
(***************************************************************************)
(* Proofs about SeatReservation, for any bookings, schedules and requests. *)
(* No bound is set on the bookings: those that exist are finitely many,    *)
(* because each was begun by a step.                                       *)
(***************************************************************************)
EXTENDS SeatReservation, SumLemmas

(* A document exists only once its request has committed. *)
CreatedInv == \A b \in Reservations : committed[b] # "absent" => stage[b] = "done"

(* What a transaction expired and has not committed is still RESERVED for all
   others, and no other transaction expired it. *)
LockInv ==
    \A b \in Reservations : stage[b] = "insert" =>
        /\ \A c \in cleaned[b] : committed[c] = "reserved"
        /\ \A d \in Reservations :
            d # b /\ stage[d] = "insert" => cleaned[b] \cap cleaned[d] = {}

(* Only existing bookings are expired. *)
CleanedInv == \A b \in Reservations : \A c \in cleaned[b] : stage[c] = "done"

IInv == SeatTypeOK /\ CreatedInv /\ LockInv /\ CleanedInv /\ CleanupCommitted /\ OneCleaner

-----------------------------------------------------------------------------
LEMMA InvInit == SeatInit => IInv
BY DEF SeatInit, IInv, SeatTypeOK, CreatedInv, LockInv, CleanedInv, CleanupCommitted, OneCleaner,
       SeatStatus, Stages, NothingSeen

(* A transaction that gets past its clean-up found every reservation it expired
   RESERVED and free. *)
LEMMA CleanStep ==
  ASSUME IInv, NEW b \in Reservations, Clean(b)
  PROVE  IInv'
<1> USE DEF IInv, SeatTypeOK, Stages, SeatStatus
<1>1. /\ cleaned' = [cleaned EXCEPT ![b] = Reclaimable(b)]
      /\ stage[b] = "clean"
      /\ stage' = [stage EXCEPT ![b] = "insert"]
      /\ UNCHANGED <<committed, lapsed, trip>>
  BY DEF Clean
<1>2. \A c \in Reclaimable(b) : c \in Reservations /\ committed[c] = "reserved" /\ Unheld(c)
  BY DEF Clean, Conflicting, Reclaimable
<1>3. SeatTypeOK'
  <2>1. view' \in [Reservations -> [Reservations -> SeatStatus]]
    BY DEF Clean
  <2>2. cleaned' \in [Reservations -> SUBSET Reservations]
    BY <1>1, <1>2
  <2>3. QED
    BY <1>1, <2>1, <2>2
<1>4. CreatedInv'
  BY <1>1 DEF CreatedInv
<1>5. CleanedInv'
  BY <1>1, <1>2 DEF CleanedInv, CreatedInv
<1>6. LockInv'
  BY <1>1, <1>2 DEF LockInv, Unheld
<1>7. CleanupCommitted'
  BY <1>1 DEF CleanupCommitted
<1>8. OneCleaner'
  BY <1>1 DEF OneCleaner
<1>9. QED
  BY <1>3, <1>4, <1>5, <1>6, <1>7, <1>8

(* The commit writes only reservations the transaction held. *)
LEMMA InsertStep ==
  ASSUME IInv, NEW b \in Reservations, Insert(b)
  PROVE  IInv'
<1> USE DEF IInv, SeatTypeOK, Stages, SeatStatus
<1>1. /\ stage[b] = "insert"
      /\ stage' = [stage EXCEPT ![b] = "done"]
      /\ committed' = [c \in Reservations |-> IF c = b THEN "reserved"
                                       ELSE IF c \in cleaned[b] THEN "expired"
                                       ELSE committed[c]]
      /\ UNCHANGED <<lapsed, trip, view, cleaned>>
  BY DEF Insert
<1>2. \A d \in Reservations : b \notin cleaned[d]
  BY <1>1 DEF CleanedInv
<1>3. SeatTypeOK'
  BY <1>1
<1>4. CreatedInv' /\ CleanedInv'
  BY <1>1 DEF CreatedInv, CleanedInv
<1>5. LockInv'
  BY <1>1, <1>2 DEF LockInv
<1>6. CleanupCommitted'
  BY <1>1, <1>2 DEF CleanupCommitted
<1>7. OneCleaner'
  BY <1>1 DEF OneCleaner, LockInv, CleanupCommitted
<1>8. QED
  BY <1>3, <1>4, <1>5, <1>6, <1>7

(* The cron and the payment handlers move a booking no transaction holds, and
   never back to RESERVED. *)
LEMMA OthersStep ==
  ASSUME IInv, NEW b \in Reservations, ExpireReservations(b) \/ Settle(b)
  PROVE  IInv'
<1> USE DEF IInv, SeatTypeOK, Stages, SeatStatus
<1>1. /\ Unheld(b)
      /\ committed[b] # "absent"
      /\ \E s \in SeatStatus \ {"reserved"} : committed' = [committed EXCEPT ![b] = s]
      /\ UNCHANGED <<lapsed, trip, stage, view, cleaned>>
  BY DEF ExpireReservations, Settle, Booking!Expire, Booking!Pay, Booking!StalePay,
         Booking!OweRefund, Booking!Remove, Booking!StaleRemove, Booking!Move
<1>2. SeatTypeOK'
  BY <1>1
<1>3. CreatedInv' /\ CleanedInv'
  BY <1>1 DEF CreatedInv, CleanedInv
<1>4. LockInv'
  BY <1>1 DEF LockInv, Unheld
<1>5. CleanupCommitted' /\ OneCleaner'
  BY <1>1 DEF CleanupCommitted, OneCleaner
<1>6. QED
  BY <1>2, <1>3, <1>4, <1>5

LEMMA InvStep == IInv /\ [SeatNext]_seatVars => IInv'
<1> SUFFICES ASSUME IInv, [SeatNext]_seatVars PROVE IInv'
  OBVIOUS
<1>1. ASSUME NEW b \in Reservations, Begin(b) PROVE IInv'
  BY <1>1 DEF Begin, IInv, SeatTypeOK, CreatedInv, LockInv, CleanedInv, CleanupCommitted,
              OneCleaner, SeatStatus, Stages
<1>2. ASSUME NEW b \in Reservations, Abort(b) PROVE IInv'
  BY <1>2 DEF Abort, IInv, SeatTypeOK, CreatedInv, LockInv, CleanedInv, CleanupCommitted,
              OneCleaner, SeatStatus, Stages, NothingSeen
<1>3. ASSUME NEW b \in Reservations, Lapse(b) PROVE IInv'
  BY <1>3 DEF Lapse, IInv, SeatTypeOK, CreatedInv, LockInv, CleanedInv, CleanupCommitted,
              OneCleaner
<1>4. CASE UNCHANGED seatVars
  BY <1>4 DEF seatVars, IInv, SeatTypeOK, CreatedInv, LockInv, CleanedInv, CleanupCommitted,
              OneCleaner
<1>5. QED
  BY <1>1, <1>2, <1>3, <1>4, CleanStep, InsertStep, OthersStep DEF SeatNext

LEMMA InvHolds == SeatSpec => []IInv
BY InvInit, InvStep, PTL DEF SeatSpec

-----------------------------------------------------------------------------
(* Every variable keeps its type. *)
THEOREM SeatTypeCorrect == SeatSpec => []SeatTypeOK
<1>1. IInv => SeatTypeOK
  BY DEF IInv
<1>2. QED
  BY <1>1, InvHolds, PTL

(* Two committed createShuttle transactions never freed the same reservation,
   whatever requests, crons and payments ran between their steps. *)
THEOREM OneCleanerHolds == SeatSpec => []OneCleaner
<1>1. IInv => OneCleaner
  BY DEF IInv
<1>2. QED
  BY <1>1, InvHolds, PTL

(* What a booking counted as expired when it was created is not RESERVED. *)
THEOREM CleanupCommittedHolds == SeatSpec => []CleanupCommitted
<1>1. IInv => CleanupCommitted
  BY DEF IInv
<1>2. QED
  BY <1>1, InvHolds, PTL

(* The transaction's writes, the cron's and the payments' leave a PAID booking
   PAID, or delete it. *)
LEMMA PaidStep == IInv /\ [SeatNext]_seatVars => \A b \in Reservations : StaysPaid(b)
<1> SUFFICES ASSUME IInv, [SeatNext]_seatVars, NEW b \in Reservations, committed[b] = "paid"
             PROVE committed'[b] \in {"paid", "absent"}
  BY DEF StaysPaid
<1> USE DEF IInv, SeatTypeOK
<1>1. ASSUME NEW d \in Reservations, Insert(d) PROVE committed'[b] \in {"paid", "absent"}
  BY <1>1 DEF Insert, LockInv, CreatedInv
<1>2. ASSUME NEW d \in Reservations, ExpireReservations(d) \/ Settle(d)
      PROVE committed'[b] \in {"paid", "absent"}
  BY <1>2 DEF ExpireReservations, Settle, Booking!Expire, Booking!Pay, Booking!StalePay,
         Booking!OweRefund, Booking!Remove, Booking!StaleRemove, Booking!Move
<1>3. CASE UNCHANGED committed
  BY <1>3
<1>4. QED
  BY <1>1, <1>2, <1>3 DEF SeatNext, seatVars, Begin, Clean, Abort, Lapse

(* No step of a createShuttle transaction, of the cron or of a payment handler
   takes PAID from a booking but its deletion. *)
THEOREM PaidKeptHolds == SeatSpec => PaidKept
<1>1. IInv /\ [SeatNext]_seatVars => [\A b \in Reservations : StaysPaid(b)]_seatVars
  BY PaidStep
<1>2. QED
  BY <1>1, InvHolds, PTL DEF SeatSpec, PaidKept

-----------------------------------------------------------------------------
(* What the other writers keep to, the transactions keep to as well.  From its
   insertion on a booking lives BookingLifecycle; its money may come from then on. *)
LifeStatus(b) == [c \in {b} |-> IF stage[c] = "done" THEN committed[c] ELSE "reserved"]

Payable(b) == IF stage[b] = "done" THEN {b} ELSE {}

Life(b) == INSTANCE BookingLifecycle WITH
    Bookings <- {b}, status <- LifeStatus(b), funded <- Payable(b)

LEMMA LifeInit == ASSUME SeatInit, NEW b \in Reservations PROVE Life(b)!Init
BY DEF SeatInit, Life!Init, LifeStatus, Payable

(* A commit creates one booking, and expires only reservations it held. *)
LEMMA InsertLives ==
  ASSUME IInv, NEW b \in Reservations, NEW d \in Reservations, Insert(d)
  PROVE  Life(b)!RacingNext \/ (LifeStatus(b)' = LifeStatus(b) /\ Payable(b)' = Payable(b))
<1>1. /\ stage[d] = "insert" /\ stage' = [stage EXCEPT ![d] = "done"]
      /\ \A c \in Reservations : committed'[c] = IF c = d THEN "reserved"
                                         ELSE IF c \in cleaned[d] THEN "expired"
                                         ELSE committed[c]
  BY DEF Insert
<1>2. CASE b = d
  <2>1. LifeStatus(b)' = LifeStatus(b) /\ Payable(b) = {} /\ Payable(b)' = {b}
    BY <1>1, <1>2 DEF IInv, SeatTypeOK, LifeStatus, Payable
  <2>2. QED
    BY <2>1 DEF Life!RacingNext, Life!Next, Life!Fund
<1>3. CASE b # d /\ b \in cleaned[d]
  <2>1. stage[b] = "done" /\ stage'[b] = "done" /\ committed[b] = "reserved" /\ committed'[b] = "expired"
    BY <1>1, <1>3 DEF IInv, SeatTypeOK, LockInv, CleanedInv
  <2>2. /\ LifeStatus(b)[b] = "reserved"
        /\ LifeStatus(b)' = [LifeStatus(b) EXCEPT ![b] = "expired"]
        /\ Payable(b)' = Payable(b)
    BY <2>1 DEF LifeStatus, Payable
  <2>3. QED
    BY <2>2 DEF Life!RacingNext, Life!Next, Life!Expire, Life!Move
<1>4. CASE b # d /\ b \notin cleaned[d]
  BY <1>1, <1>4 DEF IInv, SeatTypeOK, LifeStatus, Payable
<1>5. QED
  BY <1>2, <1>3, <1>4

(* The cron and the payment handlers take the steps of the lifecycle. *)
LEMMA OthersLive ==
  ASSUME IInv, NEW b \in Reservations, NEW d \in Reservations, ExpireReservations(d) \/ Settle(d)
  PROVE  Life(b)!RacingNext \/ (LifeStatus(b)' = LifeStatus(b) /\ Payable(b)' = Payable(b))
<1>1. /\ stage' = stage
      /\ \E s : /\ committed' = [committed EXCEPT ![d] = s]
               /\ \/ committed[d] \in {"reserved", "expired", "refund_pending"} /\ s = "paid"
                  \/ committed[d] = "reserved" /\ s = "expired"
                  \/ committed[d] \in {"reserved", "expired"} /\ s = "refund_pending"
                  \/ committed[d] \in {"expired", "refund_pending", "paid"} /\ s = "absent"
  BY DEF ExpireReservations, Settle, Booking!Expire, Booking!Pay, Booking!StalePay,
         Booking!OweRefund, Booking!Remove, Booking!StaleRemove, Booking!Move
<1>2. Payable(b)' = Payable(b)
  BY <1>1 DEF Payable
<1>3. CASE b = d
  <2>1. stage[b] = "done" /\ Payable(b) = {b}
    BY <1>1, <1>3 DEF IInv, CreatedInv, Payable
  <2>2. PICK s : /\ committed' = [committed EXCEPT ![b] = s]
                 /\ \/ committed[b] \in {"reserved", "expired", "refund_pending"} /\ s = "paid"
                    \/ committed[b] = "reserved" /\ s = "expired"
                    \/ committed[b] \in {"reserved", "expired"} /\ s = "refund_pending"
                    \/ committed[b] \in {"expired", "refund_pending", "paid"} /\ s = "absent"
    BY <1>1, <1>3
  <2>3. LifeStatus(b)[b] = committed[b] /\ LifeStatus(b)' = [LifeStatus(b) EXCEPT ![b] = s]
    BY <1>1, <2>1, <2>2 DEF IInv, SeatTypeOK, LifeStatus
  <2>4. QED
    BY <1>2, <2>1, <2>2, <2>3
       DEF Life!RacingNext, Life!Next, Life!Pay, Life!StalePay, Life!Expire, Life!OweRefund,
           Life!Remove, Life!StaleRemove, Life!Move
<1>4. CASE b # d
  BY <1>1, <1>2, <1>4 DEF IInv, SeatTypeOK, LifeStatus
<1>5. QED
  BY <1>3, <1>4

LEMMA LifeStep ==
  ASSUME IInv, [SeatNext]_seatVars, NEW b \in Reservations
  PROVE  [Life(b)!RacingNext]_(Life(b)!lifecycle)
<1> SUFFICES Life(b)!RacingNext \/ (LifeStatus(b)' = LifeStatus(b) /\ Payable(b)' = Payable(b))
  BY DEF Life!lifecycle
<1>1. ASSUME NEW d \in Reservations, Begin(d) \/ Clean(d) \/ Abort(d) \/ Lapse(d)
      PROVE  LifeStatus(b)' = LifeStatus(b) /\ Payable(b)' = Payable(b)
  <2>1. /\ committed' = committed
        /\ stage' = stage \/ \E s : s # "done" /\ stage[d] # "done" /\ stage' = [stage EXCEPT ![d] = s]
    BY <1>1 DEF Begin, Clean, Abort, Lapse
  <2>2. (stage'[b] = "done") <=> (stage[b] = "done")
    BY <2>1 DEF IInv, SeatTypeOK
  <2>3. QED
    BY <2>1, <2>2 DEF LifeStatus, Payable
<1>2. CASE UNCHANGED seatVars
  BY <1>2 DEF seatVars, LifeStatus, Payable
<1>3. QED
  BY <1>1, <1>2, InsertLives, OthersLive DEF SeatNext

(* The clean-up in createShuttle's transaction (shuttle-services.service.ts:228)
   keeps the order of a booking's statuses that the payment handlers keep: whatever
   was read in the snapshot, a commit expires only what is still RESERVED then. *)
THEOREM LifecycleKept ==
  ASSUME NEW b \in Reservations
  PROVE  SeatSpec => Life(b)!RacingSpec
<1>1. SeatInit => Life(b)!Init
  BY LifeInit
<1>2. IInv /\ [SeatNext]_seatVars => [Life(b)!RacingNext]_(Life(b)!lifecycle)
  BY LifeStep
<1>3. QED
  BY <1>1, <1>2, InvHolds, PTL DEF SeatSpec, Life!RacingSpec

-----------------------------------------------------------------------------
(* Seats: what SumLemmas say of sums, said of bookings.                    *)

(* The request and the booking it becomes ask for the same trip. *)
TripInv == \A b \in Reservations : stage[b] # "idle" => trip[b] \in Trips

Busy == {b \in Reservations : stage[b] # "idle"}

LEMMA SeatCounts ==
  ASSUME TripInv, IsFiniteSet(Busy), NEW S \in SUBSET Busy
  PROVE  /\ IsFiniteSet(S)
         /\ \A c \in S : trip[c] \in Trips /\ trip[c].seatCount \in Nat \ {0}
         /\ \A x \in S : [c \in S |-> trip[c].seatCount][x] \in Nat
<1>1. IsFiniteSet(S)
  BY FS_Subset
<1>2. \A c \in S : trip[c] \in Trips /\ trip[c].seatCount \in Nat \ {0}
  BY SeatAssumptions DEF TripInv, Busy
<1>3. QED
  BY <1>1, <1>2

(* A number of seats is a number. *)
LEMMA SeatsAreCounted ==
  ASSUME TripInv, IsFiniteSet(Busy), NEW S \in SUBSET Busy
  PROVE  SeatsOf(S) \in Nat
BY SeatCounts, SumType DEF SeatsOf

(* Fewer bookings hold no more seats. *)
LEMMA SeatsOfFewer ==
  ASSUME TripInv, IsFiniteSet(Busy), NEW S \in SUBSET Busy, NEW T \in SUBSET S
  PROVE  SeatsOf(T) <= SeatsOf(S)
<1> DEFINE f == [c \in S |-> trip[c].seatCount]
           g == [c \in T |-> trip[c].seatCount]
<1>1. IsFiniteSet(S) /\ IsFiniteSet(T) /\ \A x \in S : f[x] \in Nat
  BY SeatCounts, FS_Subset
<1>2. \A x \in T : g[x] = f[x]
  OBVIOUS
<1>3. SeatsOf(S) = SumFunctionOnSet(f, S) /\ SeatsOf(T) = SumFunctionOnSet(g, T)
  BY DEF SeatsOf
<1> HIDE DEF f, g
<1>4. SumFunctionOnSet(g, T) = SumFunctionOnSet(f, T)
  BY <1>1, <1>2, SumsAgree
<1>5. SumFunctionOnSet(f, T) <= SumFunctionOnSet(f, S)
  BY <1>1, SumOfFewer
<1>6. QED
  BY <1>3, <1>4, <1>5

(* Any booking's seats can be counted last. *)
LEMMA SeatsWithout ==
  ASSUME TripInv, IsFiniteSet(Busy), NEW S \in SUBSET Busy, NEW b \in S
  PROVE  SeatsOf(S) = trip[b].seatCount + SeatsOf(S \ {b})
<1> DEFINE R == S \ {b}
           f == [c \in S |-> trip[c].seatCount]
           g == [c \in R |-> trip[c].seatCount]
<1>1. IsFiniteSet(S) /\ IsFiniteSet(R) /\ \A x \in S : f[x] \in Nat
  BY SeatCounts, FS_Subset
<1>2. \A x \in R : g[x] = f[x]
  OBVIOUS
<1>3. /\ SeatsOf(S) = SumFunctionOnSet(f, S)
      /\ SeatsOf(R) = SumFunctionOnSet(g, R)
      /\ f[b] = trip[b].seatCount
  BY DEF SeatsOf
<1> HIDE DEF f, g
<1>4. SumFunctionOnSet(g, R) = SumFunctionOnSet(f, R)
  BY <1>1, <1>2, SumsAgree
<1>5. SumFunctionOnSet(f, S) = f[b] + SumFunctionOnSet(f, R)
  BY <1>1, SumOfMember
<1>6. QED
  BY <1>3, <1>4, <1>5

(* Seats are the same as long as the trips are. *)
LEMMA SeatsKept ==
  ASSUME TripInv, IsFiniteSet(Busy), NEW S \in SUBSET Busy,
         \A c \in S : trip'[c] = trip[c]
  PROVE  SumFunctionOnSet([c \in S |-> trip'[c].seatCount], S) = SeatsOf(S)
<1> DEFINE f == [c \in S |-> trip[c].seatCount]
           g == [c \in S |-> trip'[c].seatCount]
<1>1. \A x \in S : g[x] = f[x]
  OBVIOUS
<1>2. IsFiniteSet(S)
  BY SeatCounts
<1>3. SeatsOf(S) = SumFunctionOnSet(f, S)
  BY DEF SeatsOf
<1> HIDE DEF f, g
<1>4. SumFunctionOnSet(g, S) = SumFunctionOnSet(f, S)
  BY <1>1, <1>2, SumsAgree
<1>5. QED
  BY <1>3, <1>4 DEF g

-----------------------------------------------------------------------------
(* Who saw whom.                                                           *)

(* c was there when b's transaction began, whatever its status. *)
Seen(b, c) == view[b][c] # "absent"

(* Only committed bookings are seen, and of two bookings at most one saw the
   other. *)
SeenInv == \A b, c \in Reservations : Seen(b, c) => stage[c] = "done" /\ ~Seen(c, b)

(* Who saw a booking saw all that it saw, but those deleted in between. *)
SeenBefore ==
    \A b, c, d \in Reservations :
        Seen(b, c) /\ Seen(c, d) /\ committed[d] # "absent" => Seen(b, d)

(* A committed booking fits on each of its legs beside the bookings that its
   transaction counted: their trips do not change any more. *)
FitInv ==
    \A b \in Reservations, leg \in Legs :
        stage[b] = "done" /\ trip[b][leg] # None =>
            trip[b].seatCount + SeatsOf(Holders(view[b], leg, trip[b][leg]))
                <= Capacity[trip[b][leg][1]]

SeatInv ==
    /\ TripInv
    /\ IsFiniteSet(Busy)
    /\ SeenInv
    /\ SeenBefore
    /\ FitInv

LEMMA SeatInvInit == SeatInit => SeatInv
<1> SUFFICES ASSUME SeatInit PROVE SeatInv
  OBVIOUS
<1>1. Busy = {}
  BY DEF SeatInit, Busy
<1>2. IsFiniteSet(Busy)
  BY <1>1, FS_EmptySet
<1>3. TripInv /\ SeenInv /\ SeenBefore /\ FitInv
  BY DEF SeatInit, TripInv, SeenInv, SeenBefore, FitInv, Seen, NothingSeen
<1>4. QED
  BY <1>2, <1>3 DEF SeatInv

(* The holders a transaction sees are committed bookings. *)
LEMMA HoldersAreBusy ==
  ASSUME SeenInv, NEW b \in Reservations, NEW leg, NEW slot
  PROVE  /\ Holders(view[b], leg, slot) \in SUBSET Busy
         /\ \A c \in Holders(view[b], leg, slot) : stage[c] = "done"
BY DEF SeenInv, Seen, Holders, Holding, Busy

(* A step that leaves the committed bookings' trips and views alone, and commits
   none, leaves every committed booking fitting. *)
LEMMA StillFits ==
  ASSUME IInv, SeatInv,
         \A c \in Reservations : stage[c] = "done" => trip'[c] = trip[c] /\ view'[c] = view[c],
         NEW b \in Reservations, NEW leg \in Legs,
         stage[b] = "done", trip[b][leg] # None
  PROVE  (trip[b].seatCount + SeatsOf(Holders(view[b], leg, trip[b][leg]))
                <= Capacity[trip[b][leg][1]])'
<1> DEFINE slot == trip[b][leg]
           H == Holders(view[b], leg, slot)
<1>1. H \in SUBSET Busy /\ \A c \in H : stage[c] = "done" /\ trip'[c] = trip[c]
  BY HoldersAreBusy DEF SeatInv, Holders
<1>2. trip'[b] = trip[b] /\ view'[b] = view[b]
  OBVIOUS
<1>3. {c \in Reservations : view'[b][c] \in Holding /\ trip'[c][leg] = trip'[b][leg]} = H
  BY <1>1, <1>2 DEF Holders, SeatInv, SeenInv, Seen, Holding
<1>4. SumFunctionOnSet([c \in H |-> trip'[c].seatCount], H) = SeatsOf(H)
  BY <1>1, SeatsKept DEF SeatInv
<1>5. trip[b].seatCount + SeatsOf(H) <= Capacity[slot[1]]
  BY DEF SeatInv, FitInv
<1> HIDE DEF H
<1>6. Holders(view[b], leg, trip[b][leg])' = H
  BY <1>3 DEF Holders, Holding
<1>7. SeatsOf(Holders(view[b], leg, trip[b][leg]))' = SeatsOf(H)
  BY <1>4, <1>6 DEF SeatsOf
<1>8. QED
  BY <1>2, <1>5, <1>7

(* A transaction that begins sees the committed bookings, and none sees it. *)
LEMMA BeginKeepsSeats ==
  ASSUME IInv, SeatInv, NEW b \in Reservations, Begin(b)
  PROVE  SeatInv'
<1> USE DEF IInv, SeatTypeOK
<1>1. /\ stage[b] = "idle"
      /\ stage' = [stage EXCEPT ![b] = "clean"]
      /\ view' = [view EXCEPT ![b] = committed]
      /\ \A c \in Reservations \ {b} : trip'[c] = trip[c]
      /\ trip'[b] \in Trips
      /\ committed' = committed
  BY DEF Begin
<1>2. TripInv'
  BY <1>1 DEF SeatInv, TripInv
<1>3. IsFiniteSet(Busy')
  <2>1. Busy' = Busy \cup {b}
    BY <1>1 DEF Busy
  <2>2. QED
    BY <2>1, FS_AddElement DEF SeatInv
<1>4. SeenInv'
  BY <1>1 DEF SeatInv, SeenInv, Seen, CreatedInv
<1>5. SeenBefore'
  BY <1>1 DEF SeatInv, SeenInv, SeenBefore, Seen, CreatedInv
<1>6. FitInv'
  <2> SUFFICES ASSUME NEW c \in Reservations, NEW leg \in Legs, (stage[c] = "done")',
                      (trip[c][leg] # None)'
               PROVE  (trip[c].seatCount + SeatsOf(Holders(view[c], leg, trip[c][leg]))
                          <= Capacity[trip[c][leg][1]])'
    BY DEF FitInv
  <2>1. \A d \in Reservations : stage[d] = "done" => trip'[d] = trip[d] /\ view'[d] = view[d]
    BY <1>1
  <2>2. stage[c] = "done" /\ trip[c][leg] # None
    BY <1>1, <2>1
  <2>3. QED
    BY <2>1, <2>2, StillFits
<1>7. QED
  BY <1>2, <1>3, <1>4, <1>5, <1>6 DEF SeatInv

(* The clean-up hides no booking, it only expires what it sees. *)
LEMMA CleanKeepsSeats ==
  ASSUME IInv, SeatInv, NEW b \in Reservations, Clean(b)
  PROVE  SeatInv'
<1> USE DEF IInv, SeatTypeOK
<1>1. /\ stage[b] = "clean"
      /\ stage' = [stage EXCEPT ![b] = "insert"]
      /\ trip' = trip /\ committed' = committed
  BY DEF Clean
<1>2. /\ \A c \in Reservations \ {b} : view'[c] = view[c]
      /\ \A c, d \in Reservations : (view[c][d] # "absent")' <=> view[c][d] # "absent"
  BY DEF Clean, Reclaimable
<1>3. TripInv'
  BY <1>1 DEF SeatInv, TripInv
<1>4. IsFiniteSet(Busy')
  <2>1. Busy' = Busy
    BY <1>1 DEF Busy
  <2>2. QED
    BY <2>1 DEF SeatInv
<1>5. SeenInv'
  BY <1>1, <1>2 DEF SeatInv, SeenInv, Seen
<1>6. SeenBefore'
  BY <1>1, <1>2 DEF SeatInv, SeenBefore, Seen
<1>7. FitInv'
  <2> SUFFICES ASSUME NEW c \in Reservations, NEW leg \in Legs, (stage[c] = "done")',
                      (trip[c][leg] # None)'
               PROVE  (trip[c].seatCount + SeatsOf(Holders(view[c], leg, trip[c][leg]))
                          <= Capacity[trip[c][leg][1]])'
    BY DEF FitInv
  <2>1. \A d \in Reservations : stage[d] = "done" => trip'[d] = trip[d] /\ view'[d] = view[d]
    BY <1>1, <1>2
  <2>2. stage[c] = "done" /\ trip[c][leg] # None
    BY <1>1, <2>1
  <2>3. QED
    BY <2>1, <2>2, StillFits
<1>8. QED
  BY <1>3, <1>4, <1>5, <1>6, <1>7 DEF SeatInv

(* The seats that Fits found left are enough. *)
LEMMA EnoughLeft ==
  ASSUME NEW slot \in Slot, NEW booked \in Nat, NEW n \in Nat \ {0}, n <= Left(slot, booked)
  PROVE  n + booked <= Capacity[slot[1]]
<1>1. Capacity[slot[1]] \in Nat
  BY SeatAssumptions DEF Slot
<1>2. QED
  BY <1>1 DEF Left

(* Nobody has seen the booking before it is inserted, and it fits beside those
   its transaction counts. *)
LEMMA InsertKeepsSeats ==
  ASSUME IInv, SeatInv, NEW b \in Reservations, Insert(b)
  PROVE  SeatInv'
<1> USE DEF IInv, SeatTypeOK
<1>1. /\ stage[b] = "insert"
      /\ stage' = [stage EXCEPT ![b] = "done"]
      /\ trip' = trip /\ view' = view
      /\ \A c \in Reservations :
            committed[c] = "absent" /\ c # b => c \in cleaned[b] \/ committed'[c] = "absent"
  BY DEF Insert
<1>2. \A c \in cleaned[b] : committed[c] # "absent"
  BY <1>1 DEF LockInv
<1>3. TripInv'
  BY <1>1 DEF SeatInv, TripInv
<1>4. IsFiniteSet(Busy')
  <2>1. Busy' = Busy
    BY <1>1 DEF Busy
  <2>2. QED
    BY <2>1 DEF SeatInv
<1>5. SeenInv'
  BY <1>1 DEF SeatInv, SeenInv, Seen
<1>6. SeenBefore'
  <2> SUFFICES ASSUME NEW c \in Reservations, NEW d \in Reservations, NEW e \in Reservations,
                      Seen(c, d), Seen(d, e), committed'[e] # "absent"
               PROVE  Seen(c, e)
    BY <1>1 DEF SeenBefore, Seen
  <2>1. e # b
    BY <1>1 DEF SeatInv, SeenInv
  <2>2. committed[e] # "absent"
    BY <1>1, <1>2, <2>1
  <2>3. QED
    BY <2>2 DEF SeatInv, SeenBefore
<1>7. FitInv'
  <2> SUFFICES ASSUME NEW c \in Reservations, NEW leg \in Legs, stage'[c] = "done",
                      trip[c][leg] # None
               PROVE  trip[c].seatCount + SeatsOf(Holders(view[c], leg, trip[c][leg]))
                          <= Capacity[trip[c][leg][1]]
    BY <1>1 DEF FitInv, SeatsOf, Holders
  <2>1. CASE c # b
    BY <1>1, <2>1 DEF SeatInv, FitInv
  <2>2. CASE c = b
    <3> DEFINE slot == trip[b][leg]
               H == Holders(view[b], leg, slot)
    <3>1. slot \in Slot /\ trip[b].seatCount \in Nat \ {0}
      BY <1>1, <2>2, SeatAssumptions DEF SeatInv, TripInv, Legs
    <3>2. SeatsOf(H) \in Nat
      BY HoldersAreBusy, SeatsAreCounted DEF SeatInv
    <3>3. trip[b].seatCount <= Left(slot, SeatsOf(H))
      BY <2>2 DEF Insert, Fits, Available
    <3> HIDE DEF slot, H
    <3>4. trip[b].seatCount + SeatsOf(H) <= Capacity[slot[1]]
      BY <3>1, <3>2, <3>3, EnoughLeft
    <3>5. QED
      BY <2>2, <3>4 DEF slot, H
  <2>3. QED
    BY <2>1, <2>2
<1>8. QED
  BY <1>3, <1>4, <1>5, <1>6, <1>7 DEF SeatInv

(* Nobody has seen a request that has not committed. *)
LEMMA AbortKeepsSeats ==
  ASSUME IInv, SeatInv, NEW b \in Reservations, Abort(b)
  PROVE  SeatInv'
<1> USE DEF IInv, SeatTypeOK
<1>1. /\ stage[b] \in {"clean", "insert"}
      /\ stage' = [stage EXCEPT ![b] = "idle"]
      /\ trip' = [trip EXCEPT ![b] = None]
      /\ view' = [view EXCEPT ![b] = NothingSeen]
      /\ committed' = committed
  BY DEF Abort
<1>2. TripInv'
  BY <1>1 DEF SeatInv, TripInv
<1>3. IsFiniteSet(Busy')
  <2>1. Busy' \in SUBSET Busy
    BY <1>1 DEF Busy
  <2>2. QED
    BY <2>1, FS_Subset DEF SeatInv
<1>4. SeenInv'
  BY <1>1 DEF SeatInv, SeenInv, Seen, NothingSeen
<1>5. SeenBefore'
  BY <1>1 DEF SeatInv, SeenInv, SeenBefore, Seen, NothingSeen
<1>6. FitInv'
  <2> SUFFICES ASSUME NEW c \in Reservations, NEW leg \in Legs, (stage[c] = "done")',
                      (trip[c][leg] # None)'
               PROVE  (trip[c].seatCount + SeatsOf(Holders(view[c], leg, trip[c][leg]))
                          <= Capacity[trip[c][leg][1]])'
    BY DEF FitInv
  <2>1. \A d \in Reservations : stage[d] = "done" => trip'[d] = trip[d] /\ view'[d] = view[d]
    BY <1>1
  <2>2. stage[c] = "done" /\ trip[c][leg] # None
    BY <1>1, <2>1
  <2>3. QED
    BY <2>1, <2>2, StillFits
<1>7. QED
  BY <1>2, <1>3, <1>4, <1>5, <1>6 DEF SeatInv

(* No other writer creates a booking. *)
LEMMA OthersKeepSeats ==
  ASSUME IInv, SeatInv, UNCHANGED <<trip, stage, view>>,
         \A c \in Reservations : committed[c] = "absent" => committed'[c] = "absent"
  PROVE  SeatInv'
<1>1. TripInv' /\ IsFiniteSet(Busy') /\ SeenInv' /\ FitInv'
  BY DEF SeatInv, TripInv, Busy, SeenInv, Seen, FitInv, SeatsOf, Holders
<1>2. SeenBefore'
  BY DEF SeatInv, SeenBefore, Seen
<1>3. QED
  BY <1>1, <1>2 DEF SeatInv

LEMMA SeatInvStep == IInv /\ SeatInv /\ [SeatNext]_seatVars => SeatInv'
<1> SUFFICES ASSUME IInv, SeatInv, [SeatNext]_seatVars PROVE SeatInv'
  OBVIOUS
<1>1. ASSUME NEW b \in Reservations, ExpireReservations(b) \/ Settle(b) PROVE SeatInv'
  <2>1. /\ UNCHANGED <<trip, stage, view>>
        /\ committed[b] # "absent"
        /\ \E s \in SeatStatus : committed' = [committed EXCEPT ![b] = s]
    BY <1>1 DEF ExpireReservations, Settle, Booking!Expire, Booking!Pay, Booking!StalePay,
         Booking!OweRefund, Booking!Remove, Booking!StaleRemove, Booking!Move, SeatStatus
  <2>2. QED
    BY <2>1, OthersKeepSeats DEF IInv, SeatTypeOK
<1>2. ASSUME NEW b \in Reservations, Lapse(b) PROVE SeatInv'
  BY <1>2, OthersKeepSeats DEF Lapse
<1>3. CASE UNCHANGED seatVars
  BY <1>3, OthersKeepSeats DEF seatVars
<1>4. QED
  BY <1>1, <1>2, <1>3, BeginKeepsSeats, CleanKeepsSeats, InsertKeepsSeats,
     AbortKeepsSeats DEF SeatNext

LEMMA SeatInvHolds == SeatSpec => [](IInv /\ SeatInv)
<1>1. SeatInit => IInv /\ SeatInv
  BY InvInit, SeatInvInit
<1>2. (IInv /\ SeatInv) /\ [SeatNext]_seatVars => (IInv /\ SeatInv)'
  BY InvStep, SeatInvStep
<1>3. QED
  BY <1>1, <1>2, PTL DEF SeatSpec

-----------------------------------------------------------------------------
(* Of several bookings in turn, one counted all the others: a booking whose
   transaction missed the fewest of them. *)
LEMMA LastInTurn ==
  ASSUME IInv, SeatInv, NEW leg \in Legs, NEW slot \in Slot, InTurn(leg, slot),
         NEW H, H = Holders(committed, leg, slot), H # {}
  PROVE  \E b \in H : \A c \in H \ {b} : Counted(b, c)
<1> DEFINE Missed(b) == {c \in H : ~Seen(b, c)}
           M == {Missed(b) : b \in H}
<1>1. /\ H \in SUBSET Busy /\ IsFiniteSet(H)
      /\ \A c \in H : c \in Reservations /\ committed[c] # "absent"
  <2>1. H \in SUBSET Busy /\ \A c \in H : c \in Reservations /\ committed[c] # "absent"
    BY DEF IInv, CreatedInv, Holders, Holding, Busy
  <2>2. QED
    BY <2>1, FS_Subset DEF SeatInv
<1>2. PICK m \in M : \A n \in M : n \subseteq m => n = m
  <2>1. M \subseteq SUBSET H /\ M # {}
    <3>1. PICK b : b \in H
      OBVIOUS
    <3>2. Missed(b) \in M
      BY <3>1
    <3>3. M \subseteq SUBSET H
      OBVIOUS
    <3>4. QED
      BY <3>2, <3>3
  <2> HIDE DEF M
  <2>2. QED
    BY <1>1, <2>1, SmallestSubset
<1>3. PICK b \in H : m = Missed(b)
  BY <1>2
<1>4. \A c \in H : ~Seen(c, b)
  <2> SUFFICES ASSUME NEW c \in H, Seen(c, b) PROVE FALSE
    OBVIOUS
  <2>1. Missed(c) \subseteq Missed(b)
    BY <1>1 DEF SeatInv, SeenBefore
  <2>2. b \in Missed(b) /\ b \notin Missed(c)
    BY <1>1 DEF SeatInv, SeenInv
  <2>3. Missed(c) \in M
    OBVIOUS
  <2>4. Missed(c) = Missed(b)
    BY <1>2, <1>3, <2>1, <2>3
  <2>5. QED
    BY <2>2, <2>4
<1>5. \A c \in H \ {b} : Counted(b, c)
  BY <1>4 DEF InTurn, Counted, Seen, Holding
<1>6. QED
  BY <1>3, <1>5

LEMMA TurnsFit == IInv /\ SeatInv => CountedSeatsFit
<1> SUFFICES ASSUME IInv, SeatInv, NEW leg \in Legs, NEW slot \in Slot, InTurn(leg, slot)
             PROVE  SeatsOf(Holders(committed, leg, slot)) <= Capacity[slot[1]]
  BY DEF CountedSeatsFit
<1> DEFINE H == Holders(committed, leg, slot)
<1>1. Capacity[slot[1]] \in Nat
  BY SeatAssumptions DEF Slot
<1>2. CASE H = {}
  BY <1>1, <1>2, SumOfNone DEF SeatsOf
<1>3. CASE H # {}
  <2>1. PICK b \in H : \A c \in H \ {b} : Counted(b, c)
    BY <1>3, LastInTurn
  <2>2. H \in SUBSET Busy /\ b \in Reservations /\ stage[b] = "done" /\ trip[b][leg] = slot
    BY DEF IInv, CreatedInv, Holders, Holding, Busy
  <2> DEFINE V == Holders(view[b], leg, slot)
  <2>3. V \in SUBSET Busy
    BY <2>2, HoldersAreBusy DEF SeatInv
  <2>4. H \ {b} \in SUBSET V
    BY <2>1 DEF Holders, Counted
  <2>5. SeatsOf(H) = trip[b].seatCount + SeatsOf(H \ {b})
    BY <2>2, SeatsWithout DEF SeatInv
  <2>6. SeatsOf(H \ {b}) <= SeatsOf(V)
    BY <2>3, <2>4, SeatsOfFewer DEF SeatInv
  <2>7. /\ SeatsOf(H \ {b}) \in Nat /\ SeatsOf(V) \in Nat
        /\ trip[b].seatCount \in Nat
    <3>1. H \ {b} \in SUBSET Busy
      BY <2>2
    <3>2. SeatsOf(H \ {b}) \in Nat /\ SeatsOf(V) \in Nat
      BY <2>3, <3>1, SeatsAreCounted DEF SeatInv
    <3>3. trip[b].seatCount \in Nat
      BY <2>2, SeatCounts DEF SeatInv
    <3>4. QED
      BY <3>2, <3>3
  <2>8. trip[b].seatCount + SeatsOf(V) <= Capacity[slot[1]]
    <3>1. slot # None
      BY SeatAssumptions
    <3>2. QED
      BY <2>2, <3>1 DEF SeatInv, FitInv
  <2> HIDE DEF H, V
  <2>9. SeatsOf(H) <= Capacity[slot[1]]
    BY <1>1, <2>5, <2>6, <2>7, <2>8
  <2>10. QED
    BY <2>9 DEF H
<1>4. QED
  BY <1>2, <1>3

(* However many requests race, and whatever expires, is paid late or deleted in
   between, the holders of a leg have no more seats than the vehicle unless two
   of them were created without either counting the other. *)
THEOREM SeatsInTurnFit == SeatSpec => []CountedSeatsFit
<1>1. IInv /\ SeatInv => CountedSeatsFit
  BY TurnsFit
<1>2. QED
  BY <1>1, SeatInvHolds, PTL

-----------------------------------------------------------------------------
(* What is missing for the seats to fit whatever happens *)

NeverOversold ==
    \A leg \in Legs, slot \in Slot : SeatsOf(Holders(committed, leg, slot)) <= Capacity[slot[1]]

Commits(b) == stage[b] = "insert" /\ stage'[b] = "done"

(* A commit saw every booking there is: of two creations that overlap, the one that
   comes second does not commit. *)
OnlyOneCommits ==
    \A b, c \in Reservations : Commits(b) /\ committed[c] \in Holding => view[b][c] # "absent"

(* Nobody pays for seats that were given back. *)
NoLatePayment ==
    \A b \in Reservations : committed[b] \in {"expired", "refund_pending"} => committed'[b] \notin Holding

InFlight(b) == stage[b] \in {"clean", "insert"}

(* A creation in flight has seen who holds seats, but for the bookings committed since
   it began and those it expires itself. *)
InFlightInv ==
    /\ \A b, c \in Reservations : InFlight(b) /\ stage[c] # "done" => view[b][c] = "absent"
    /\ \A b, c \in Reservations : InFlight(b) /\ committed[c] \in Holding =>
          \/ view[b][c] \in Holding \cup {"absent"}
          \/ stage[b] = "insert" /\ c \in cleaned[b]

(* Of two bookings that hold seats, one was counted when the other was created. *)
TurnInv ==
    \A b, c \in Reservations :
        b # c /\ committed[b] \in Holding /\ committed[c] \in Holding => Counted(b, c) \/ Counted(c, b)

RaceInv == InFlightInv /\ TurnInv

LEMMA RaceCleanStep ==
  ASSUME IInv, RaceInv, NEW d \in Reservations, Clean(d)
  PROVE  RaceInv'
<1> USE DEF IInv, SeatTypeOK, InFlight
<1>1. /\ stage[d] = "clean" /\ stage' = [stage EXCEPT ![d] = "insert"] /\ committed' = committed
      /\ cleaned' = [cleaned EXCEPT ![d] = Reclaimable(d)]
      /\ \A b \in Reservations \ {d} : view'[b] = view[b]
      /\ \A c \in Reservations : view'[d][c] = IF c \in Reclaimable(d) THEN "expired" ELSE view[d][c]
  BY DEF Clean
<1>2. \A c \in Reclaimable(d) : view[d][c] = "reserved"
  BY DEF Reclaimable
<1>3. InFlightInv'
  BY <1>1, <1>2 DEF RaceInv, InFlightInv
<1>4. TurnInv'
  <2> SUFFICES ASSUME NEW b \in Reservations, NEW c \in Reservations, b # c, committed[b] \in Holding,
                      committed[c] \in Holding
               PROVE  (Counted(b, c) \/ Counted(c, b))'
    BY <1>1 DEF TurnInv
  <2>1. b # d /\ c # d
    BY <1>1 DEF CreatedInv, Holding
  <2>2. QED
    BY <1>1, <2>1 DEF RaceInv, TurnInv, Counted
<1>5. QED
  BY <1>3, <1>4 DEF RaceInv

(* The booking that is created has counted all that hold seats beside it. *)
LEMMA RaceInsertStep ==
  ASSUME IInv, RaceInv, OnlyOneCommits, NEW d \in Reservations, Insert(d)
  PROVE  RaceInv'
<1> USE DEF IInv, SeatTypeOK, InFlight
<1>1. /\ stage[d] = "insert" /\ stage' = [stage EXCEPT ![d] = "done"] /\ UNCHANGED <<view, cleaned>>
      /\ \A c \in Reservations : committed'[c] = IF c = d THEN "reserved"
                                         ELSE IF c \in cleaned[d] THEN "expired"
                                         ELSE committed[c]
  BY DEF Insert
<1>2. Commits(d)
  BY <1>1 DEF Commits
<1>3. \A c \in Reservations \ {d} : committed'[c] \in Holding =>
         committed[c] \in Holding /\ c \notin cleaned[d]
  BY <1>1 DEF Holding
<1>4. \A c \in Reservations \ {d} : committed'[c] \in Holding => view[d][c] \in Holding
  BY <1>1, <1>2, <1>3 DEF RaceInv, InFlightInv, OnlyOneCommits
<1>5. InFlightInv'
  BY <1>1, <1>3 DEF RaceInv, InFlightInv
<1>6. TurnInv'
  BY <1>1, <1>3, <1>4 DEF RaceInv, TurnInv, Counted
<1>7. QED
  BY <1>5, <1>6 DEF RaceInv

LEMMA RaceInvStep ==
  ASSUME IInv, RaceInv, OnlyOneCommits, NoLatePayment, [SeatNext]_seatVars
  PROVE  RaceInv'
<1> USE DEF IInv, SeatTypeOK, InFlight
<1>1. ASSUME NEW d \in Reservations, Begin(d) PROVE RaceInv'
  <2>1. /\ stage[d] = "idle" /\ stage' = [stage EXCEPT ![d] = "clean"]
        /\ view' = [view EXCEPT ![d] = committed] /\ UNCHANGED <<committed, cleaned>>
    BY <1>1 DEF Begin
  <2>2. \A c \in Reservations : stage[c] # "done" => committed[c] = "absent"
    BY DEF CreatedInv
  <2>3. InFlightInv'
    BY <2>1, <2>2 DEF RaceInv, InFlightInv
  <2>4. \A b \in Reservations : committed[b] \in Holding => view'[b] = view[b]
    BY <2>1, <2>2 DEF Holding
  <2>5. QED
    BY <2>1, <2>3, <2>4 DEF RaceInv, TurnInv, Counted
<1>2. ASSUME NEW d \in Reservations, Abort(d) PROVE RaceInv'
  <2>1. /\ stage[d] \in {"clean", "insert"} /\ stage' = [stage EXCEPT ![d] = "idle"] /\ committed' = committed
        /\ view' = [view EXCEPT ![d] = NothingSeen] /\ cleaned' = [cleaned EXCEPT ![d] = {}]
    BY <1>2 DEF Abort
  <2>2. \A b \in Reservations : committed[b] \in Holding => view'[b] = view[b]
    BY <2>1 DEF CreatedInv, Holding
  <2>3. QED
    BY <2>1, <2>2 DEF RaceInv, InFlightInv, TurnInv, Counted
<1>3. ASSUME NEW d \in Reservations, ExpireReservations(d) \/ Settle(d) PROVE RaceInv'
  <2>1. /\ UNCHANGED <<stage, view, cleaned>> /\ committed[d] # "absent"
        /\ \E s \in SeatStatus \ {"reserved"} : committed' = [committed EXCEPT ![d] = s]
    BY <1>3 DEF ExpireReservations, Settle, Booking!Expire, Booking!Pay, Booking!StalePay,
         Booking!OweRefund, Booking!Remove, Booking!StaleRemove, Booking!Move, SeatStatus
  <2>2. \A c \in Reservations : committed'[c] \in Holding => committed[c] \in Holding
    BY <2>1 DEF NoLatePayment, Holding, SeatStatus
  <2>3. QED
    BY <2>1, <2>2 DEF RaceInv, InFlightInv, TurnInv, Counted
<1>4. CASE UNCHANGED <<committed, stage, view, cleaned>>
  BY <1>4 DEF RaceInv, InFlightInv, TurnInv, Counted
<1>5. QED
  BY <1>1, <1>2, <1>3, <1>4, RaceCleanStep, RaceInsertStep DEF SeatNext, seatVars, Lapse

(* "If two requests race, only one can commit" (shuttle-services.service.ts:229), were
   it so of all requests and not of those alone that expire a reservation in common,
   no leg would be oversold while nobody pays for an expired reservation: these two
   are what LegFits fails for. *)
THEOREM SeatsWouldFit == SeatSpec /\ [][OnlyOneCommits /\ NoLatePayment]_seatVars => []NeverOversold
<1>1. SeatInit => RaceInv
  BY DEF SeatInit, RaceInv, InFlightInv, TurnInv, InFlight, Holding
<1>2. IInv /\ RaceInv /\ [SeatNext]_seatVars /\ [OnlyOneCommits /\ NoLatePayment]_seatVars => RaceInv'
  <2>1. UNCHANGED seatVars => RaceInv' = RaceInv
    BY DEF seatVars, RaceInv, InFlightInv, TurnInv, InFlight, Counted
  <2>2. QED
    BY <2>1, RaceInvStep
<1>3. IInv /\ SeatInv /\ RaceInv => NeverOversold
  <2>1. RaceInv => \A leg \in Legs, slot \in Slot : InTurn(leg, slot)
    BY DEF RaceInv, TurnInv, InTurn, Holders
  <2>2. QED
    BY <2>1, TurnsFit DEF CountedSeatsFit, NeverOversold
<1>4. QED
  BY <1>1, <1>2, <1>3, SeatInvHolds, PTL DEF SeatSpec
============================================================================
