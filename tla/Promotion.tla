----------------------------- MODULE Promotion ------------------------------
(***************************************************************************)
(* The scheduled promotion of bookings: pending -> in_progress at the      *)
(* start of the meal.  A booking is promoted only by an outbox job, so the *)
(* jobs of module Outbox must follow the start while the host moves it,    *)
(* while workers deliver and crash, and while the two clocks disagree      *)
(* (src/modules/bookings/lifecycle.js, listings/service.js).               *)
(*                                                                         *)
(* All bookings here belong to one listing.  The dedupe key of a job is    *)
(* <<booking, target instant, tag>>: tag 0 is the base key, any other tag  *)
(* the id of the delivery that had to disambiguate it (":r<id>").          *)
(***************************************************************************)
EXTENDS Outbox, Functions

CONSTANTS Bookings,  \* bookings of the listing
          MaxMoves,  \* bound on the host's requests to move the start
          Idle       \* a worker that is in no handler transaction

VARIABLES start,     \* listings.scheduled_start
          active,    \* listings.status = 'active'
          status,    \* bookings.status
          moving,    \* update requests validated and not yet committed
          moves,     \* update requests so far
          handler    \* the handler transaction of each worker

pvars == <<jobs, claim, handled, now, crashes, requeues,
           start, active, status, moving, moves, handler>>

-----------------------------------------------------------------------------
PromotionKeys == Bookings \X (0..MaxTime) \X (0..MaxJobs)

ASSUME PromotionAssumption ==
    /\ PromotionKeys \subseteq Keys
    /\ Bookings \subseteq Payloads
    /\ IsFiniteSet(Bookings)

\* promotionDedupeKey
BaseKey(b, at) == <<b, at, 0>>

\* at: "wait" has read, "locked" holds the booking row; seen: the start read.
HandlerRow == [at : {"wait", "locked"}, seen : Nat, live : BOOLEAN]

PromotionInit ==
    /\ OutboxInit
    /\ start \in 1..MaxTime
    /\ active = TRUE
    /\ status = [b \in Bookings |-> "none"]
    /\ moving = {}
    /\ moves = 0
    /\ handler = [w \in Workers |-> Idle]

\* The booking row is locked by a handler that has read and not yet committed.
RowLocked(b) ==
    \E w \in Workers : /\ handler[w] # Idle
                       /\ handler[w].at = "locked"
                       /\ \E i \in Ids : IsCurrent(w, i) /\ jobs[i].payload = b

-----------------------------------------------------------------------------
(* Requests                                                                *)

\* createBooking: the job is enqueued for the start that decrementSeat
\* returned; the listing row lock orders it before or after any move.
Book(b) ==
    /\ status[b] = "none"
    /\ active
    /\ start > now
    /\ start > DbNow
    /\ Len(jobs) < MaxJobs
    /\ status' = [status EXCEPT ![b] = "pending"]
    /\ jobs' = With(BaseKey(b, start), b, start)
    /\ UNCHANGED <<claim, handled, now, crashes, requeues,
                   start, active, moving, moves, handler>>

\* The request schema of updateListing accepts a start in Node's future ...
RequestMove(s) ==
    /\ moves < MaxMoves
    /\ s > now
    /\ moving' = moving \cup {s}
    /\ moves' = moves + 1
    /\ UNCHANGED <<jobs, claim, handled, now, crashes, requeues,
                   start, active, status, handler>>

\* The rows of the pending bookings b for which enqueuePromotion adds one.
MissingAt(s) == {b \in Bookings : status[b] = "pending" /\ ~HasKey(BaseKey(b, s))}

\* ... and its transaction runs later, when it gets the row lock: every
\* pending booking gets a job for the new start, unless its key exists.
CommitMove(s) ==
    /\ s \in moving
    /\ moving' = moving \ {s}
    /\ \/ /\ active
          /\ s # start
          /\ Len(jobs) + Cardinality(MissingAt(s)) <= MaxJobs
          /\ start' = s
          /\ \E new \in Bijection(1..Cardinality(MissingAt(s)), MissingAt(s)) :
                jobs' = jobs \o [i \in 1..Cardinality(MissingAt(s)) |->
                                    NewJob(BaseKey(new[i], s), new[i], s)]
       \/ /\ ~active \/ s = start
          /\ UNCHANGED <<start, jobs>>
    /\ UNCHANGED <<claim, handled, now, crashes, requeues,
                   active, status, moves, handler>>

\* cancelBooking, before the start by the database clock.
CancelBooking(b) ==
    /\ status[b] = "pending"
    /\ start > DbNow
    /\ ~RowLocked(b)
    /\ status' = [status EXCEPT ![b] = "cancelled"]
    /\ UNCHANGED <<jobs, claim, handled, now, crashes, requeues,
                   start, active, moving, moves, handler>>

\* cancelListing with its cascade.
CancelListing ==
    /\ active
    /\ \A b \in Bookings : ~RowLocked(b)
    /\ active' = FALSE
    /\ status' = [b \in Bookings |-> IF status[b] \in {"pending", "in_progress"}
                                     THEN "cancelled" ELSE status[b]]
    /\ UNCHANGED <<jobs, claim, handled, now, crashes, requeues,
                   start, moving, moves, handler>>

-----------------------------------------------------------------------------
(* promoteDueBooking for the current job i of worker w                     *)

\* The job ends without error and without further effect.
Noop(w, i) ==
    /\ Ran(w, i, TRUE)
    /\ handler' = [handler EXCEPT ![w] = Idle]
    /\ UNCHANGED <<jobs, start, active, status, moving, moves>>

\* selectBookingWithListing: the statement's snapshot of the listing row.
HandlerRead(w, i) ==
    /\ IsCurrent(w, i)
    /\ handler[w] = Idle
    /\ handler' = [handler EXCEPT ![w] = [at |-> "wait", seen |-> start, live |-> active]]
    /\ UNCHANGED <<jobs, claim, handled, now, crashes, requeues,
                   start, active, status, moving, moves>>

\* FOR UPDATE OF b has the booking row: its newest status decides.
HandlerLock(w, i) ==
    LET b == jobs[i].payload
        goOn == status[b] = "pending" /\ handler[w].live
    IN
    /\ IsCurrent(w, i)
    /\ handler[w] # Idle
    /\ handler[w].at = "wait"
    /\ ~RowLocked(b)
    /\ \/ /\ goOn
          /\ handler' = [handler EXCEPT ![w].at = "locked"]
          /\ UNCHANGED <<jobs, claim, handled, now, crashes, requeues,
                         start, active, status, moving, moves>>
       \/ ~goOn /\ Noop(w, i)

\* isLivePendingJob: pending, and not locked by any poll (FOR UPDATE SKIP
\* LOCKED), the poll of this very delivery included.
IsLivePendingJob(i) == jobs[i].status = "pending" /\ \A w \in Workers : i \notin Held(w)

\* A key that can be used to secure the schedule: no row has it yet, or a
\* live row other than the one being delivered has it.
Secures(key, delivering) ==
    \/ ~HasKey(key)
    \/ \E j \in Ids : jobs[j].key = key /\ j # delivering /\ IsLivePendingJob(j)

\* Mutant: the delivered row is pushed back instead of securing another one.
SecureByDelay(i, s) == jobs' = [jobs EXCEPT ![i].at = s + 1]

\* Mutant: any row with the base key counts as the surviving schedule.
SecureNaive(i, s) == jobs' = With(BaseKey(jobs[i].payload, s), jobs[i].payload, s)

\* securePromotionSchedule: the base key first, then the key tagged with the
\* id of the delivered row; otherwise the delivery must fail.
SecurePromotionSchedule(i, s) ==
    LET b == jobs[i].payload
        base == BaseKey(b, s)
        tagged == <<b, s, i>>
    IN
    \/ Secures(base, i) /\ jobs' = With(base, b, s)
    \/ ~Secures(base, i) /\ Secures(tagged, i) /\ jobs' = With(tagged, b, s)

CanSecure(i, s) ==
    Secures(BaseKey(jobs[i].payload, s), i) \/ Secures(<<jobs[i].payload, s, i>>, i)

\* Date.now() decides on the start that was read: promote, or reschedule, or
\* throw because no row could be secured.
HandlerWrite(w, i) ==
    LET b == jobs[i].payload
        early == handler[w].seen > now
    IN
    /\ IsCurrent(w, i)
    /\ handler[w] # Idle
    /\ handler[w].at = "locked"
    /\ handler' = [handler EXCEPT ![w] = Idle]
    /\ \/ /\ ~early
          /\ Ran(w, i, TRUE)
          /\ status' = [status EXCEPT ![b] = "in_progress"]
          /\ UNCHANGED jobs
       \/ /\ early
          /\ Ran(w, i, TRUE)
          /\ SecurePromotionSchedule(i, handler[w].seen)
          /\ Len(jobs') <= MaxJobs
          /\ UNCHANGED status
       \/ /\ early
          /\ ~CanSecure(i, handler[w].seen)
          /\ Ran(w, i, FALSE)
          /\ UNCHANGED <<jobs, status>>
    /\ UNCHANGED <<start, active, moving, moves>>

\* A database error anywhere in the handler: its transaction is rolled back.
HandlerFails(w, i) ==
    /\ Ran(w, i, FALSE)
    /\ handler' = [handler EXCEPT ![w] = Idle]
    /\ UNCHANGED <<jobs, start, active, status, moving, moves>>

WorkerCrash(w) ==
    /\ Crash(w)
    /\ handler' = [handler EXCEPT ![w] = Idle]
    /\ UNCHANGED <<start, active, status, moving, moves>>

-----------------------------------------------------------------------------
domain == <<start, active, status, moving, moves, handler>>

Handler(w) ==
    \E i \in Ids : HandlerRead(w, i) \/ HandlerLock(w, i) \/ HandlerWrite(w, i)

Work(w) ==
    \/ \E rows \in SUBSET Due : ClaimBatch(w, rows) /\ UNCHANGED domain
    \/ Handler(w)
    \/ CommitPoll(w) /\ UNCHANGED domain

PromotionTick == Tick /\ UNCHANGED domain

PromotionNext ==
    \/ \E b \in Bookings : Book(b) \/ CancelBooking(b)
    \/ \E s \in 1..MaxTime : RequestMove(s) \/ CommitMove(s)
    \/ CancelListing
    \/ \E w \in Workers : Work(w) \/ WorkerCrash(w) \/ \E i \in Ids : HandlerFails(w, i)
    \/ \E i \in Ids : Requeue(i) /\ UNCHANGED domain
    \/ PromotionTick

PromotionSpec == PromotionInit /\ [][PromotionNext]_pvars

(* The polling loop never dies, PostgreSQL grants row locks and time       *)
(* passes; requests, failures, crashes and requeues need not happen.       *)
PromotionFairSpec ==
    /\ PromotionSpec
    /\ WF_pvars(PromotionTick)
    /\ \A w \in Workers : WF_pvars(Work(w))

-----------------------------------------------------------------------------
(* Properties                                                              *)

Waiting(b) == status[b] = "pending" /\ active

Own(b) == {i \in Ids : jobs[i].payload = b}

\* IT3-F1: a pending booking never loses its last promotion job: one is still
\* pending, or dead-lettered where an operator sees it.
NeverLost ==
    \A b \in Bookings :
        Waiting(b) => \E i \in Own(b) : jobs[i].status \in {"pending", "dead"}

\* FR-04, NFR-09: every pending booking of an active listing leaves that
\* state in the end, or has a dead letter waiting for an operator.
PromotedEventually ==
    \A b \in Bookings :
        Waiting(b) ~> (~Waiting(b) \/ \E i \in Own(b) : jobs[i].status = "dead")

\* What this module does to the outbox is what the outbox allows.
OutboxView == OutboxSpec
=============================================================================
