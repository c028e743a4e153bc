-------------------------- MODULE PromotionProofs ---------------------------
(***************************************************************************)
(* Proofs about modules Outbox and Promotion, for any number of workers,   *)
(* jobs, keys, bookings, crashes and requeues.  First the outbox alone:    *)
(* the claims are exclusive, keys are unique, delivered means handled, the *)
(* retry budget is exact and the table is a ledger of jobs.  Then the      *)
(* bookings: whatever is delivered, moved, retried, requeued or crashed, a *)
(* pending booking of an active listing keeps a job that will promote it,  *)
(* and all this happens by steps of the outbox.                            *)
(***************************************************************************)
EXTENDS Promotion, FiniteSetTheorems, TLAPS

-----------------------------------------------------------------------------
(* What the helpers return.                                                *)

\* computeBackoffDelay returns a number for every attempt.
LEMMA BackoffType ==
    ASSUME NEW attempt \in Nat \ {0}
    PROVE  Backoff(attempt) \in Nat
  <1>1. IsFiniteSet(1..(attempt - 1)) /\ Cardinality(1..(attempt - 1)) = attempt - 1
    BY FS_Interval
  <1>2. 2 ^ (attempt - 1) = Cardinality(SUBSET (1..(attempt - 1)))
    BY <1>1, FS_SUBSET
  <1>3. 2 ^ (attempt - 1) \in Nat
    BY <1>1, <1>2, FS_SUBSET, FS_CardinalityType
  <1>. QED
    BY <1>3, OutboxAssumption DEF Backoff

\* The outcome of an attempt is a row with the same key; what fails is dead
\* exactly when the budget is used up.
LEMMA OutcomeType ==
    ASSUME NEW job \in JobRow, NEW began \in Nat
    PROVE  /\ Delivered(job) \in JobRow
           /\ Delivered(job).key = job.key
           /\ Delivered(job).payload = job.payload
           /\ Delivered(job).status = "delivered"
           /\ Delivered(job).attempts = job.attempts + 1
           /\ Failed(job, began) \in JobRow
           /\ Failed(job, began).key = job.key
           /\ Failed(job, began).payload = job.payload
           /\ Failed(job, began).attempts = job.attempts + 1
           /\ Failed(job, began).status
                = IF job.attempts + 1 >= MaxAttempts THEN "dead" ELSE job.status
  <1>1. Backoff(job.attempts + 1) \in Nat
    BY BackoffType DEF JobRow
  <1>2. PICK later \in Nat : later = Clip(began + Backoff(job.attempts + 1))
    BY <1>1, OutboxAssumption DEF Clip
  <1>3. Failed(job, began) = IF job.attempts + 1 >= MaxAttempts
                             THEN [job EXCEPT !.status = "dead", !.attempts = @ + 1]
                             ELSE [job EXCEPT !.attempts = @ + 1, !.at = later]
    BY <1>2 DEF Failed
  <1>0. /\ job = [key |-> job.key, payload |-> job.payload, at |-> job.at,
                  status |-> job.status, attempts |-> job.attempts]
        /\ job.key \in Keys \cup {NoKey}
        /\ job.payload \in Payloads
        /\ job.at \in Nat
        /\ job.status \in {"pending", "delivered", "dead"}
        /\ job.attempts \in Nat
        /\ job.attempts + 1 \in Nat
    BY DEF JobRow
  <1>4. /\ Delivered(job) \in JobRow
        /\ Delivered(job).key = job.key
        /\ Delivered(job).payload = job.payload
        /\ Delivered(job).status = "delivered"
        /\ Delivered(job).attempts = job.attempts + 1
    BY <1>0 DEF Delivered, JobRow
  <1>5. CASE job.attempts + 1 >= MaxAttempts
    BY <1>0, <1>3, <1>4, <1>5 DEF JobRow
  <1>6. CASE ~(job.attempts + 1 >= MaxAttempts)
    BY <1>0, <1>3, <1>4, <1>6 DEF JobRow
  <1>. QED BY <1>5, <1>6

\* A requeued row is pending again with its whole budget and its old key.
LEMMA RevivedType ==
    ASSUME NEW job \in JobRow, DbNow \in Nat
    PROVE  /\ Revived(job) \in JobRow
           /\ Revived(job).status = "pending"
           /\ Revived(job).attempts = 0
           /\ Revived(job).key = job.key
           /\ Revived(job).payload = job.payload
  BY DEF Revived, NewJob, JobRow

-----------------------------------------------------------------------------
(* The parts of a step: the table grows, a handler has run.                *)

\* Enqueueing keeps what is known of the rows.
LEMMA GrowthKeeps ==
    ASSUME OInv, Adds
    PROVE  /\ jobs' \in Seq(JobRow)
           /\ \A i \in Ids : i \in Ids' /\ jobs'[i] = jobs[i]
           /\ \A i \in Ids' \ Ids : jobs'[i].status = "pending"
           /\ OneRowPerKey'
           /\ BudgetExact'
  <1>1. /\ jobs \in Seq(JobRow) /\ jobs' \in Seq(JobRow)
        /\ Ids = 1..Len(jobs) /\ Ids' = 1..Len(jobs')
        /\ Len(jobs) \in Nat /\ Len(jobs') \in Nat
        /\ Len(jobs) <= Len(jobs')
    BY DEF OInv, OutboxTypeOK, Adds, Ids
  <1>2. \A i \in Ids : i \in Ids' /\ jobs'[i] = jobs[i]
    BY <1>1 DEF Adds
  <1>3. ASSUME NEW i \in Ids', i \notin Ids
        PROVE  /\ jobs'[i].status = "pending"
               /\ jobs'[i].attempts = 0
               /\ jobs'[i].key # NoKey => \A j \in 1..(i - 1) : jobs'[j].key # jobs'[i].key
    BY <1>3 DEF Adds, NewRows, NewJob
  <1>4. OneRowPerKey'
    <2>. SUFFICES ASSUME NEW i \in Ids', NEW j \in Ids', i < j,
                         jobs'[i].key = jobs'[j].key, jobs'[i].key # NoKey
                  PROVE  FALSE
      BY <1>1 DEF OneRowPerKey
    <2>1. CASE j \in Ids
      BY <2>1, <1>1, <1>2 DEF OInv, OneRowPerKey
    <2>2. CASE j \notin Ids
      BY <2>2, <1>1, <1>3
    <2>. QED BY <2>1, <2>2
  <1>5. BudgetExact'
    <2>. SUFFICES ASSUME NEW i \in Ids'
                  PROVE  /\ jobs'[i].status = "dead" => jobs'[i].attempts = MaxAttempts
                         /\ jobs'[i].status = "pending" => jobs'[i].attempts < MaxAttempts
      BY DEF BudgetExact
    <2>1. CASE i \in Ids
      BY <2>1, <1>2 DEF OInv, BudgetExact
    <2>2. CASE i \notin Ids
      BY <2>2, <1>3, OutboxAssumption
    <2>. QED BY <2>1, <2>2
  <1>. QED BY <1>1, <1>2, <1>3, <1>4, <1>5

\* A handler that has run moves its row from one part of the poll to another.
LEMMA RanKeeps ==
    ASSUME OInv, NEW w \in Workers, NEW i \in Ids, NEW ok \in BOOLEAN, Ran(w, i, ok)
    PROVE  /\ claim' \in [Workers -> PollRow]
           /\ \A v \in Workers : Held(v)' = Held(v)
           /\ handled \subseteq handled'
           /\ handled' \in SUBSET Nat
           /\ \A v \in Workers : claim'[v].ok \subseteq handled'
           /\ now' \in Nat /\ crashes' \in Nat /\ requeues' \in Nat
  <1>1. /\ claim \in [Workers -> PollRow]
        /\ handled \in SUBSET Nat
        /\ jobs \in Seq(JobRow)
        /\ now \in Nat /\ crashes \in Nat /\ requeues \in Nat
    BY DEF OInv, OutboxTypeOK
  <1>2. i \in Nat
    BY <1>1 DEF Ids
  <1>3. \A v \in Workers : claim[v].ok \subseteq handled
    BY DEF OInv, DeliveredWasHandled
  <1>4. i \in claim[w].todo
    BY DEF Ran, IsCurrent
  <1>5. CASE ok = TRUE
    <2>1. /\ claim' = [claim EXCEPT ![w] = [todo |-> claim[w].todo \ {i},
                                            ok |-> claim[w].ok \cup {i},
                                            bad |-> claim[w].bad,
                                            began |-> claim[w].began]]
          /\ handled' = handled \cup {i}
      BY <1>1, <1>5 DEF Ran, PollRow
    <2>2. claim' \in [Workers -> PollRow]
      BY <2>1, <1>1, <1>2 DEF PollRow
    <2>3. \A v \in Workers : Held(v)' = Held(v)
      BY <2>1, <1>1, <1>4 DEF Held
    <2>4. \A v \in Workers : claim'[v].ok \subseteq handled'
      BY <2>1, <1>1, <1>3
    <2>. QED BY <2>1, <2>2, <2>3, <2>4, <1>1, <1>2 DEF Ran
  <1>6. CASE ok = FALSE
    <2>1. /\ claim' = [claim EXCEPT ![w] = [todo |-> claim[w].todo \ {i},
                                            ok |-> claim[w].ok,
                                            bad |-> claim[w].bad \cup {i},
                                            began |-> claim[w].began]]
          /\ handled' = handled
      BY <1>1, <1>6 DEF Ran, PollRow
    <2>2. claim' \in [Workers -> PollRow]
      BY <2>1, <1>1, <1>2 DEF PollRow
    <2>3. \A v \in Workers : Held(v)' = Held(v)
      BY <2>1, <1>1, <1>4 DEF Held
    <2>4. \A v \in Workers : claim'[v].ok \subseteq handled'
      BY <2>1, <1>1, <1>3
    <2>. QED BY <2>1, <2>2, <2>3, <2>4, <1>1, <1>2 DEF Ran
  <1>. QED BY <1>5, <1>6

-----------------------------------------------------------------------------
(* One lemma per action.                                                   *)

LEMMA EnqueueKeeps ==
    ASSUME OInv, Enqueue
    PROVE  OInv'
  <1>1. /\ Adds
        /\ claim' = claim /\ handled' = handled
        /\ now' = now /\ crashes' = crashes /\ requeues' = requeues
    BY DEF Enqueue
  <1>2. /\ jobs' \in Seq(JobRow)
        /\ \A i \in Ids : i \in Ids' /\ jobs'[i] = jobs[i]
        /\ \A i \in Ids' \ Ids : jobs'[i].status = "pending"
        /\ OneRowPerKey'
        /\ BudgetExact'
    BY <1>1, GrowthKeeps
  <1>3. OutboxTypeOK'
    BY <1>1, <1>2 DEF OInv, OutboxTypeOK
  <1>4. ExclusiveClaims'
    BY <1>1, <1>2 DEF OInv, ExclusiveClaims, Held
  <1>5. DeliveredWasHandled'
    BY <1>1, <1>2 DEF OInv, DeliveredWasHandled
  <1>. QED BY <1>2, <1>3, <1>4, <1>5 DEF OInv

LEMMA RunHandlerKeeps ==
    ASSUME OInv, NEW w \in Workers, NEW i \in Ids, NEW ok \in BOOLEAN, RunHandler(w, i, ok)
    PROVE  OInv'
  <1>1. Ran(w, i, ok) /\ jobs' = jobs /\ Ids' = Ids
    BY DEF RunHandler, Ids
  <1>2. /\ claim' \in [Workers -> PollRow]
        /\ \A v \in Workers : Held(v)' = Held(v)
        /\ handled \subseteq handled'
        /\ handled' \in SUBSET Nat
        /\ \A v \in Workers : claim'[v].ok \subseteq handled'
        /\ now' \in Nat /\ crashes' \in Nat /\ requeues' \in Nat
    BY <1>1, RanKeeps
  <1>3. OutboxTypeOK'
    BY <1>1, <1>2 DEF OInv, OutboxTypeOK
  <1>4. ExclusiveClaims'
    BY <1>1, <1>2 DEF OInv, ExclusiveClaims
  <1>5. DeliveredWasHandled'
    BY <1>1, <1>2 DEF OInv, DeliveredWasHandled
  <1>6. OneRowPerKey' /\ BudgetExact'
    BY <1>1 DEF OInv, OneRowPerKey, BudgetExact
  <1>. QED BY <1>3, <1>4, <1>5, <1>6 DEF OInv

LEMMA RunProducerKeeps ==
    ASSUME OInv, NEW w \in Workers, NEW i \in Ids, RunProducer(w, i)
    PROVE  OInv'
  <1>1. Ran(w, i, TRUE) /\ Adds
    BY DEF RunProducer
  <1>2. /\ claim' \in [Workers -> PollRow]
        /\ \A v \in Workers : Held(v)' = Held(v)
        /\ handled \subseteq handled'
        /\ handled' \in SUBSET Nat
        /\ \A v \in Workers : claim'[v].ok \subseteq handled'
        /\ now' \in Nat /\ crashes' \in Nat /\ requeues' \in Nat
    BY <1>1, RanKeeps
  <1>3. /\ jobs' \in Seq(JobRow)
        /\ \A j \in Ids : j \in Ids' /\ jobs'[j] = jobs[j]
        /\ \A j \in Ids' \ Ids : jobs'[j].status = "pending"
        /\ OneRowPerKey'
        /\ BudgetExact'
    BY <1>1, GrowthKeeps
  <1>4. OutboxTypeOK'
    BY <1>2, <1>3 DEF OutboxTypeOK
  <1>5. ExclusiveClaims'
    BY <1>2, <1>3 DEF OInv, ExclusiveClaims
  <1>6. DeliveredWasHandled'
    BY <1>2, <1>3 DEF OInv, DeliveredWasHandled
  <1>. QED BY <1>3, <1>4, <1>5, <1>6 DEF OInv

LEMMA ClaimBatchKeeps ==
    ASSUME OInv, NEW w \in Workers, NEW rows \in SUBSET Due, ClaimBatch(w, rows)
    PROVE  OInv'
  <1>1. /\ claim' = [claim EXCEPT ![w] = [todo |-> rows, ok |-> {}, bad |-> {},
                                          began |-> DbNow]]
        /\ jobs' = jobs /\ Ids' = Ids /\ handled' = handled
        /\ now' = now /\ crashes' = crashes /\ requeues' = requeues
    BY DEF ClaimBatch, Ids
  <1>2. /\ claim \in [Workers -> PollRow]
        /\ jobs \in Seq(JobRow)
        /\ DbNow \in Nat
    BY OutboxAssumption DEF OInv, OutboxTypeOK, DbNow
  <1>3. rows \subseteq Nat
    BY <1>2 DEF Due, Ids
  <1>4. OutboxTypeOK'
    BY <1>1, <1>2, <1>3 DEF OInv, OutboxTypeOK, PollRow
  <1>5. Held(w)' = rows /\ \A v \in Workers \ {w} : Held(v)' = Held(v)
    BY <1>1, <1>2 DEF Held
  <1>6. \A i \in rows : /\ i \in Ids
                        /\ jobs[i].status = "pending"
                        /\ \A v \in Workers : i \notin Held(v)
    BY DEF Due
  <1>7. ExclusiveClaims'
    BY <1>1, <1>5, <1>6 DEF OInv, ExclusiveClaims
  <1>8. DeliveredWasHandled'
    BY <1>1, <1>2 DEF OInv, DeliveredWasHandled
  <1>9. OneRowPerKey' /\ BudgetExact'
    BY <1>1 DEF OInv, OneRowPerKey, BudgetExact
  <1>. QED BY <1>4, <1>7, <1>8, <1>9 DEF OInv

LEMMA CommitPollKeeps ==
    ASSUME OInv, NEW w \in Workers, CommitPoll(w)
    PROVE  OInv'
  <1>1. /\ claim' = [claim EXCEPT ![w] = NoPoll]
        /\ handled' = handled
        /\ now' = now /\ crashes' = crashes /\ requeues' = requeues
    BY DEF CommitPoll
  <1>2. /\ claim \in [Workers -> PollRow]
        /\ jobs \in Seq(JobRow)
        /\ claim[w].began \in Nat
    BY DEF OInv, OutboxTypeOK, PollRow
  <1>3. /\ Held(w)' = {}
        /\ \A v \in Workers \ {w} : Held(v)' = Held(v)
    BY <1>1, <1>2 DEF Held, NoPoll
  <1>4. \A i \in Ids : jobs[i] \in JobRow
    BY <1>2 DEF Ids
  <1>5. jobs' = [i \in Ids |-> IF i \in claim[w].ok THEN Delivered(jobs[i])
                               ELSE IF i \in claim[w].bad
                                    THEN Failed(jobs[i], claim[w].began)
                               ELSE jobs[i]]
    BY DEF CommitPoll
  <1>6. Ids' = Ids
    BY <1>5 DEF Ids
  <1>7. \A i \in Ids : jobs'[i] \in JobRow /\ jobs'[i].key = jobs[i].key
    BY <1>2, <1>4, <1>5, OutcomeType
  <1>8. jobs' \in Seq(JobRow)
    <2>1. Ids = 1..Len(jobs) /\ Len(jobs) \in Nat
      BY <1>2 DEF Ids
    <2>2. jobs' = [i \in 1..Len(jobs) |-> jobs'[i]]
      BY <1>5, <2>1
    <2>. QED BY <1>7, <2>1, <2>2
  <1>9. OutboxTypeOK'
    BY <1>1, <1>2, <1>8 DEF OInv, OutboxTypeOK, NoPoll, PollRow
  <1>10. \A v \in Workers \ {w} : \A i \in Held(v) : i \in Ids /\ jobs'[i] = jobs[i]
    BY <1>5 DEF OInv, ExclusiveClaims, Held
  <1>11. ExclusiveClaims'
    BY <1>3, <1>6, <1>10 DEF OInv, ExclusiveClaims
  <1>12. OneRowPerKey'
    BY <1>6, <1>7 DEF OInv, OneRowPerKey
  <1>13. DeliveredWasHandled'
    <2>1. \A v \in Workers : claim'[v].ok \subseteq handled'
      BY <1>1, <1>2 DEF OInv, DeliveredWasHandled, NoPoll
    <2>2. ASSUME NEW i \in Ids, jobs'[i].status = "delivered"
          PROVE  i \in handled
      <3>1. CASE i \in claim[w].ok
        BY <3>1 DEF OInv, DeliveredWasHandled
      <3>2. CASE i \notin claim[w].ok /\ i \in claim[w].bad
        BY <3>2, <2>2, <1>2, <1>4, <1>5, OutcomeType DEF OInv, DeliveredWasHandled
      <3>3. CASE i \notin claim[w].ok /\ i \notin claim[w].bad
        BY <3>3, <2>2, <1>5 DEF OInv, DeliveredWasHandled
      <3>. QED BY <3>1, <3>2, <3>3
    <2>. QED BY <2>1, <2>2, <1>1, <1>6 DEF DeliveredWasHandled
  <1>14. BudgetExact'
    <2>. SUFFICES ASSUME NEW i \in Ids
                  PROVE  /\ jobs'[i].status = "dead" => jobs'[i].attempts = MaxAttempts
                         /\ jobs'[i].status = "pending" => jobs'[i].attempts < MaxAttempts
      BY <1>6 DEF BudgetExact
    <2>1. CASE i \in claim[w].ok
      BY <2>1, <1>2, <1>4, <1>5, OutcomeType
    <2>2. CASE i \notin claim[w].ok /\ i \in claim[w].bad
      <3>1. jobs[i].status = "pending" /\ jobs[i].attempts < MaxAttempts
        BY <2>2 DEF OInv, ExclusiveClaims, Held, BudgetExact
      <3>2. jobs'[i] = Failed(jobs[i], claim[w].began)
        BY <2>2, <1>5
      <3>3. jobs[i].attempts \in Nat
        BY <1>4 DEF JobRow
      <3>4. /\ jobs'[i].attempts = jobs[i].attempts + 1
            /\ jobs'[i].status = IF jobs[i].attempts + 1 >= MaxAttempts
                                 THEN "dead" ELSE jobs[i].status
        <4>1. jobs[i] \in JobRow /\ claim[w].began \in Nat
          BY <1>2, <1>4
        <4>2. /\ Failed(jobs[i], claim[w].began).attempts = jobs[i].attempts + 1
              /\ Failed(jobs[i], claim[w].began).status
                   = IF jobs[i].attempts + 1 >= MaxAttempts THEN "dead" ELSE jobs[i].status
          BY <4>1, OutcomeType, Zenon
        <4>. QED BY <3>2, <4>2, Zenon
      <3>. QED BY <3>1, <3>3, <3>4, OutboxAssumption
    <2>3. CASE i \notin claim[w].ok /\ i \notin claim[w].bad
      BY <2>3, <1>5 DEF OInv, BudgetExact
    <2>. QED BY <2>1, <2>2, <2>3
  <1>. QED BY <1>9, <1>11, <1>12, <1>13, <1>14 DEF OInv

LEMMA CrashKeeps ==
    ASSUME OInv, NEW w \in Workers, Crash(w)
    PROVE  OInv'
  <1>1. /\ claim' = [claim EXCEPT ![w] = NoPoll]
        /\ jobs' = jobs /\ Ids' = Ids /\ handled' = handled
        /\ now' = now /\ crashes' = crashes + 1 /\ requeues' = requeues
    BY DEF Crash, Ids
  <1>2. claim \in [Workers -> PollRow]
    BY DEF OInv, OutboxTypeOK
  <1>3. /\ Held(w)' = {}
        /\ \A v \in Workers \ {w} : Held(v)' = Held(v)
    BY <1>1, <1>2 DEF Held, NoPoll
  <1>4. OutboxTypeOK'
    BY <1>1, <1>2 DEF OInv, OutboxTypeOK, NoPoll, PollRow
  <1>5. ExclusiveClaims'
    BY <1>1, <1>3 DEF OInv, ExclusiveClaims
  <1>6. DeliveredWasHandled'
    BY <1>1, <1>2 DEF OInv, DeliveredWasHandled, NoPoll
  <1>7. OneRowPerKey' /\ BudgetExact'
    BY <1>1 DEF OInv, OneRowPerKey, BudgetExact
  <1>. QED BY <1>4, <1>5, <1>6, <1>7 DEF OInv

LEMMA RequeueKeeps ==
    ASSUME OInv, NEW i \in Ids, Requeue(i)
    PROVE  OInv'
  <1>1. /\ claim' = claim /\ handled' = handled
        /\ now' = now /\ crashes' = crashes /\ requeues' = requeues + 1
        /\ jobs[i].status = "dead"
    BY DEF Requeue
  <1>2. jobs \in Seq(JobRow) /\ jobs[i] \in JobRow /\ DbNow \in Nat
    BY OutboxAssumption DEF OInv, OutboxTypeOK, DbNow, Ids
  <1>3. PICK job \in JobRow : /\ jobs' = [jobs EXCEPT ![i] = job]
                              /\ job.status = "pending"
                              /\ job.attempts = 0
                              /\ job.key = jobs[i].key
    <2>1. jobs' = [jobs EXCEPT ![i] = Revived(jobs[i])]
      BY DEF Requeue
    <2>. QED BY <1>2, <2>1, RevivedType
  <1>4. /\ jobs' \in Seq(JobRow)
        /\ Ids' = Ids
        /\ jobs'[i] = job
        /\ \A j \in Ids \ {i} : jobs'[j] = jobs[j]
    BY <1>2, <1>3 DEF Ids
  <1>5. OutboxTypeOK'
    BY <1>1, <1>4 DEF OInv, OutboxTypeOK
  <1>6. ExclusiveClaims'
    BY <1>1, <1>4 DEF OInv, ExclusiveClaims, Held
  <1>7. OneRowPerKey'
    BY <1>3, <1>4 DEF OInv, OneRowPerKey
  <1>8. DeliveredWasHandled'
    BY <1>1, <1>3, <1>4 DEF OInv, DeliveredWasHandled
  <1>9. BudgetExact'
    BY <1>3, <1>4, OutboxAssumption DEF OInv, BudgetExact
  <1>. QED BY <1>5, <1>6, <1>7, <1>8, <1>9 DEF OInv

-----------------------------------------------------------------------------
(* The invariant and the theorems.                                         *)

\* Every step of the outbox, and every step that leaves it alone, keeps the
\* invariant.
LEMMA OutboxStepKeeps ==
    ASSUME OInv, [OutboxNext]_obvars
    PROVE  OInv'
  <1>1. ASSUME NEW w \in Workers, Poll(w) PROVE OInv'
    <2>1. ASSUME NEW rows \in SUBSET Due, ClaimBatch(w, rows) PROVE OInv'
      BY <2>1, ClaimBatchKeeps
    <2>2. ASSUME NEW i \in Ids, NEW ok \in BOOLEAN, RunHandler(w, i, ok) PROVE OInv'
      BY <2>2, RunHandlerKeeps
    <2>3. CASE CommitPoll(w)
      BY <2>3, CommitPollKeeps
    <2>. QED BY <1>1, <2>1, <2>2, <2>3 DEF Poll
  <1>2. CASE Produce
    BY <1>2, EnqueueKeeps, RunProducerKeeps DEF Produce
  <1>3. ASSUME NEW w \in Workers, Crash(w) PROVE OInv'
    BY <1>3, CrashKeeps
  <1>4. ASSUME NEW i \in Ids, Requeue(i) PROVE OInv'
    BY <1>4, RequeueKeeps
  <1>5. CASE Tick
    <2>1. /\ jobs' = jobs /\ claim' = claim /\ handled' = handled
          /\ crashes' = crashes /\ requeues' = requeues /\ now' = now + 1
      BY <1>5 DEF Tick
    <2>. QED BY <2>1 DEF OInv, OutboxTypeOK, ExclusiveClaims, OneRowPerKey,
                         DeliveredWasHandled, BudgetExact, Ids, Held
  <1>6. CASE UNCHANGED obvars
    BY <1>6 DEF obvars, OInv, OutboxTypeOK, ExclusiveClaims, OneRowPerKey,
                DeliveredWasHandled, BudgetExact, Ids, Held
  <1>. QED BY <1>1, <1>2, <1>3, <1>4, <1>5, <1>6 DEF OutboxNext

\* The outbox starts empty and every step keeps the invariant.
THEOREM OutboxInvariance == OutboxSpec => []OInv
  <1>1. OutboxInit => OInv
    BY DEF OutboxInit, OInv, OutboxTypeOK, ExclusiveClaims, OneRowPerKey,
           DeliveredWasHandled, BudgetExact, Ids, Held, NoPoll, PollRow
  <1>. QED BY <1>1, OutboxStepKeeps, PTL DEF OutboxSpec

\* RT-02: claims made with FOR UPDATE SKIP LOCKED are exclusive: no job is
\* ever in the hands of two workers, and none is changed behind the back of
\* the worker that runs it.
THEOREM ClaimsAreExclusive == OutboxSpec => []ExclusiveClaims
  <1>1. OInv => ExclusiveClaims
    BY DEF OInv
  <1>. QED BY <1>1, OutboxInvariance, PTL

\* RT-02: enqueue never makes a second row for a dedupe key.
THEOREM KeysAreUnique == OutboxSpec => []OneRowPerKey
  <1>1. OInv => OneRowPerKey
    BY DEF OInv
  <1>. QED BY <1>1, OutboxInvariance, PTL

\* FR-13: only a job whose handler has returned is ever marked delivered.
THEOREM NothingSkipped == OutboxSpec => []DeliveredWasHandled
  <1>1. OInv => DeliveredWasHandled
    BY DEF OInv
  <1>. QED BY <1>1, OutboxInvariance, PTL

\* NFR-09: a job is dead exactly when its attempts are used up.
THEOREM BudgetIsExact == OutboxSpec => []BudgetExact
  <1>1. OInv => BudgetExact
    BY DEF OInv
  <1>. QED BY <1>1, OutboxInvariance, PTL

-----------------------------------------------------------------------------
(* The ledger of jobs.                                                     *)

\* Row i, which was there before the step, changes as a ledger of jobs allows.
Settles(i) ==
    \/ jobs'[i].status = jobs[i].status /\ jobs'[i].attempts = jobs[i].attempts
    \/ /\ jobs[i].status = "pending"
       /\ jobs'[i].attempts = jobs[i].attempts + 1
       /\ \/ jobs'[i].status = "delivered"
          \/ jobs'[i].status = IF jobs[i].attempts + 1 < MaxAttempts THEN "pending" ELSE "dead"
    \/ jobs[i].status = "dead" /\ jobs'[i].status = "pending" /\ jobs'[i].attempts = 0

\* A row that the step adds is pending and untried.
Fresh(i) == jobs'[i].status = "pending" /\ jobs'[i].attempts = 0

\* No row goes, each one is settled or kept, and each new one is fresh.
SettlesRows ==
    /\ Ids \subseteq Ids'
    /\ \A i \in Ids : Settles(i)
    /\ \A i \in Ids' \ Ids : Fresh(i)

LEMMA AddsSettles ==
    ASSUME Adds
    PROVE  SettlesRows
  <1>1. Ids \subseteq Ids'
    <2>1. Len(jobs) \in Nat /\ Len(jobs') \in Nat /\ Ids' = 1..Len(jobs')
      BY DEF Adds, Ids
    <2>. QED BY <2>1 DEF Adds, Ids
  <1>2. \A i \in Ids : Settles(i)
    BY DEF Adds, Settles
  <1>3. ASSUME NEW i \in Ids' \ Ids PROVE Fresh(i)
    <2>1. jobs'[i] \in NewRows
      BY DEF Adds
    <2>2. PICK key \in Keys \cup {NoKey}, payload \in Payloads, at \in 0..MaxTime :
            jobs'[i] = NewJob(key, payload, at)
      BY <2>1 DEF NewRows
    <2>. QED BY <2>2 DEF Fresh, NewJob
  <1>. QED BY <1>1, <1>2, <1>3 DEF SettlesRows

\* The COMMIT of a poll gives every row it holds one outcome: all are still pending.
LEMMA CommitSettles ==
    ASSUME OInv, NEW w \in Workers, CommitPoll(w)
    PROVE  SettlesRows
  <1>1. /\ \A i \in Ids : jobs[i] \in JobRow /\ jobs[i].attempts \in Nat
        /\ claim[w].began \in Nat /\ MaxAttempts \in Nat
    <2>1. \A i \in Ids : jobs[i] \in JobRow
      BY DEF OInv, OutboxTypeOK, Ids
    <2>2. claim[w] \in PollRow
      BY DEF OInv, OutboxTypeOK
    <2>. QED BY <2>1, <2>2, OutboxAssumption DEF JobRow, PollRow
  <1>2. Ids' = Ids
    BY DEF CommitPoll, Ids
  <1>3. ASSUME NEW i \in Ids PROVE Settles(i)
    <2>1. PICK q \in JobRow : q = jobs[i] /\ q.attempts \in Nat
      BY <1>1
    <2>2. CASE i \in claim[w].ok
      <3>1. jobs'[i] = Delivered(q) /\ q.status = "pending"
        BY <2>1, <2>2 DEF CommitPoll, OInv, ExclusiveClaims, Held
      <3>. QED BY <1>1, <2>1, <3>1, OutcomeType DEF Settles
    <2>3. CASE i \in claim[w].bad \ claim[w].ok
      <3>1. jobs'[i] = Failed(q, claim[w].began) /\ q.status = "pending"
        BY <2>1, <2>3 DEF CommitPoll, OInv, ExclusiveClaims, Held
      <3>2. /\ jobs'[i].attempts = q.attempts + 1
            /\ jobs'[i].status = IF q.attempts + 1 < MaxAttempts THEN "pending" ELSE "dead"
        BY <1>1, <2>1, <3>1, OutcomeType
      <3>. QED BY <2>1, <3>1, <3>2 DEF Settles
    <2>4. CASE i \notin claim[w].ok \cup claim[w].bad
      BY <2>4 DEF CommitPoll, Settles
    <2>. QED BY <2>2, <2>3, <2>4
  <1>. QED BY <1>2, <1>3 DEF SettlesRows

LEMMA RequeueSettles ==
    ASSUME OInv, NEW i \in Ids, Requeue(i)
    PROVE  SettlesRows
  <1>1. DbNow \in Nat /\ jobs[i] \in JobRow /\ jobs[i].status = "dead"
    BY OutboxAssumption DEF OInv, OutboxTypeOK, DbNow, Requeue, Ids
  <1>2. /\ Ids' = Ids /\ jobs'[i] = Revived(jobs[i])
        /\ \A j \in Ids \ {i} : jobs'[j] = jobs[j]
    BY DEF Requeue, Ids
  <1>3. Revived(jobs[i]).status = "pending" /\ Revived(jobs[i]).attempts = 0
    BY <1>1, RevivedType
  <1>. QED BY <1>1, <1>2, <1>3 DEF SettlesRows, Settles

\* Only these three touch the rows.
LEMMA StepSettles ==
    ASSUME OInv, [OutboxNext]_obvars
    PROVE  UNCHANGED jobs \/ SettlesRows
  <1>1. ASSUME NEW w \in Workers, Poll(w) PROVE UNCHANGED jobs \/ SettlesRows
    BY <1>1, CommitSettles DEF Poll, ClaimBatch, RunHandler
  <1>2. CASE Produce
    BY <1>2, AddsSettles DEF Produce, Enqueue, RunProducer
  <1>3. ASSUME NEW w \in Workers, Crash(w) PROVE UNCHANGED jobs
    BY <1>3 DEF Crash
  <1>4. ASSUME NEW i \in Ids, Requeue(i) PROVE SettlesRows
    BY <1>4, RequeueSettles
  <1>5. CASE Tick \/ UNCHANGED obvars
    BY <1>5 DEF Tick, obvars
  <1>. QED BY <1>1, <1>2, <1>3, <1>4, <1>5 DEF OutboxNext

\* What SettlesRows says is what the ledger allows.
LEMMA SettlesInLedger ==
    ASSUME OInv, OInv', SettlesRows
    PROVE  Ledger!LedgerNext
  <1>. DEFINE Fate(i) == IF i \in Ids THEN jobs[i].status ELSE "absent"
              Tries(i) == IF i \in Ids THEN jobs[i].attempts ELSE 0
  <1>1. /\ \A i \in Ids : jobs[i] \in JobRow
        /\ \A i \in Ids' : jobs'[i] \in JobRow
    BY DEF OInv, OutboxTypeOK, Ids
  <1>2. \A i \in 1..MaxJobs : /\ Fate(i)' \in Ledger!Fates
                              /\ Tries(i)' \in Nat
    BY <1>1 DEF Ledger!Fates, JobRow
  <1>3. ASSUME NEW i \in 1..MaxJobs
        PROVE  \/ Ledger!Enter(i) \/ Ledger!Succeed(i) \/ Ledger!Fail(i)
               \/ Ledger!Revive(i) \/ Ledger!Keep(i)
    <2>1. CASE i \in Ids
      <3>1. i \in Ids' /\ Settles(i)
        BY <2>1 DEF SettlesRows
      <3>2. CASE jobs'[i].status = jobs[i].status /\ jobs'[i].attempts = jobs[i].attempts
        BY <2>1, <3>1, <3>2 DEF Ledger!Keep
      <3>3. CASE /\ jobs[i].status = "pending" /\ jobs'[i].attempts = jobs[i].attempts + 1
                 /\ jobs'[i].status = "delivered"
        BY <2>1, <3>1, <3>3 DEF Ledger!Succeed
      <3>4. CASE /\ jobs[i].status = "pending" /\ jobs'[i].attempts = jobs[i].attempts + 1
                 /\ jobs'[i].status = IF jobs[i].attempts + 1 < MaxAttempts THEN "pending"
                                      ELSE "dead"
        BY <2>1, <3>1, <3>4 DEF Ledger!Fail
      <3>5. CASE jobs[i].status = "dead" /\ jobs'[i].status = "pending" /\ jobs'[i].attempts = 0
        BY <2>1, <3>1, <3>5 DEF Ledger!Revive
      <3>. QED BY <3>1, <3>2, <3>3, <3>4, <3>5 DEF Settles
    <2>2. CASE i \in Ids' \ Ids
      BY <2>2 DEF SettlesRows, Fresh, Ledger!Enter
    <2>3. CASE i \notin Ids \cup Ids'
      BY <2>3 DEF Ledger!Keep
    <2>. QED BY <2>1, <2>2, <2>3
  <1>. QED BY <1>2, <1>3 DEF Ledger!LedgerNext

\* RT-02, NFR-09: workers that poll the same table, run handlers and crash look, to
\* everybody who reads the table, like a ledger in which each delivery has one outcome.
THEOREM JobsAreLedgered == OutboxSpec => FollowsJobLedger
  <1>1. OutboxInit => Ledger!LedgerInit
    BY DEF OutboxInit, Ids, Ledger!LedgerInit
  <1>2. OInv /\ OInv' /\ [OutboxNext]_obvars => [Ledger!LedgerNext]_(Ledger!ledger)
    <2>. SUFFICES ASSUME OInv, OInv', [OutboxNext]_obvars
                  PROVE  [Ledger!LedgerNext]_(Ledger!ledger)
      OBVIOUS
    <2>1. CASE UNCHANGED jobs
      BY <2>1 DEF Ledger!ledger, Ids
    <2>. QED BY <2>1, StepSettles, SettlesInLedger
  <1>. QED BY <1>1, <1>2, OutboxInvariance, PTL DEF OutboxSpec, FollowsJobLedger, Ledger!LedgerSpec

-----------------------------------------------------------------------------
(* The inductive invariant.                                                *)

\* The domain's tables and the handlers' locals have their types.
PTypes ==
    /\ Len(jobs) <= MaxJobs
    /\ start \in 1..MaxTime
    /\ active \in BOOLEAN
    /\ status \in [Bookings -> {"none", "pending", "in_progress", "cancelled"}]
    /\ moving \subseteq 1..MaxTime
    /\ handler \in [Workers -> [at : {"wait", "locked"}, seen : 1..MaxTime,
                                live : BOOLEAN] \cup {Idle}]

\* The key names the booking the job is for.
KeyNamesBooking(job) ==
    /\ job.payload \in Bookings
    /\ \E s \in 0..MaxTime, tag \in 0..MaxJobs : job.key = <<job.payload, s, tag>>

\* A job belongs to a booking that was made.
JobsOfBookings ==
    \A i \in Ids : KeyNamesBooking(jobs[i]) /\ status[jobs[i].payload] # "none"

\* A handler that read a cancelled listing is right about it: there is no way
\* back, so that it may drop the job.
GoneForGood == \A w \in Workers : handler[w] # Idle /\ ~handler[w].live => ~active

\* Row i is still to be delivered: pending or dead, and no poll is about to
\* commit it as delivered.
Scheduled(i) ==
    /\ jobs[i].status \in {"pending", "dead"}
    /\ \A w \in Workers : i \notin claim[w].ok

\* Every booking that waits for its start has such a row.
StillScheduled == \A b \in Bookings : Waiting(b) => \E i \in Own(b) : Scheduled(i)

\* The inductive invariant.
PInv == OInv /\ PTypes /\ JobsOfBookings /\ GoneForGood /\ StillScheduled

-----------------------------------------------------------------------------
(* What the outbox does to the rows and to the polls.                      *)

\* No step of the outbox changes the key or the payload of a row.
LEMMA RowsStay ==
    ASSUME OInv, [OutboxNext]_obvars, NEW i \in Ids
    PROVE  i \in Ids' /\ jobs'[i].key = jobs[i].key /\ jobs'[i].payload = jobs[i].payload
  <1>1. /\ jobs \in Seq(JobRow) /\ jobs[i] \in JobRow
        /\ claim \in [Workers -> PollRow]
        /\ DbNow \in Nat
    BY OutboxAssumption DEF OInv, OutboxTypeOK, DbNow, Ids
  <1>2. CASE UNCHANGED jobs
    BY <1>2 DEF Ids
  <1>3. CASE Adds
    BY <1>1, <1>3 DEF Adds, Ids
  <1>4. ASSUME NEW w \in Workers, CommitPoll(w)
        PROVE  i \in Ids' /\ jobs'[i].key = jobs[i].key /\ jobs'[i].payload = jobs[i].payload
    <2>1. claim[w].began \in Nat
      BY <1>1 DEF PollRow
    <2>2. jobs' = [j \in Ids |-> IF j \in claim[w].ok THEN Delivered(jobs[j])
                                 ELSE IF j \in claim[w].bad
                                      THEN Failed(jobs[j], claim[w].began)
                                 ELSE jobs[j]]
      BY <1>4 DEF CommitPoll
    <2>. QED BY <1>1, <2>1, <2>2, OutcomeType DEF Ids
  <1>5. ASSUME NEW j \in Ids, Requeue(j)
        PROVE  i \in Ids' /\ jobs'[i].key = jobs[i].key /\ jobs'[i].payload = jobs[i].payload
    <2>1. jobs' = [jobs EXCEPT ![j] = Revived(jobs[j])] /\ jobs[j] \in JobRow
      BY <1>1, <1>5 DEF Requeue, Ids
    <2>. QED BY <1>1, <2>1, RevivedType DEF Ids
  <1>. QED
    BY <1>2, <1>3, <1>4, <1>5 DEF OutboxNext, Poll, Produce, ClaimBatch, RunHandler,
       RunProducer, Enqueue, Crash, Tick, obvars

\* A row stays scheduled unless a handler returns for it.
LEMMA ScheduledStays ==
    ASSUME OInv, [OutboxNext]_obvars, NEW i \in Ids, Scheduled(i),
           \A w \in Workers : i \in claim'[w].ok => i \in claim[w].ok
    PROVE  i \in Ids' /\ Scheduled(i)'
  <1>1. /\ jobs \in Seq(JobRow) /\ jobs[i] \in JobRow
        /\ claim \in [Workers -> PollRow]
        /\ DbNow \in Nat
    BY OutboxAssumption DEF OInv, OutboxTypeOK, DbNow, Ids
  <1>2. i \in Ids' /\ \A w \in Workers : i \notin claim'[w].ok
    BY RowsStay DEF Scheduled
  <1>3. CASE UNCHANGED jobs
    BY <1>2, <1>3 DEF Scheduled
  <1>4. CASE Adds
    BY <1>2, <1>4 DEF Adds, Scheduled
  <1>5. ASSUME NEW w \in Workers, CommitPoll(w) PROVE Scheduled(i)'
    <2>1. claim[w].began \in Nat
      BY <1>1 DEF PollRow
    <2>2. jobs'[i] = jobs[i] \/ jobs'[i] = Failed(jobs[i], claim[w].began)
      BY <1>5 DEF CommitPoll, Scheduled
    <2>3. Failed(jobs[i], claim[w].began).status \in {"dead", jobs[i].status}
      BY <1>1, <2>1, OutcomeType
    <2>. QED BY <1>2, <2>2, <2>3 DEF Scheduled
  <1>6. ASSUME NEW j \in Ids, Requeue(j) PROVE Scheduled(i)'
    <2>1. jobs' = [jobs EXCEPT ![j] = Revived(jobs[j])] /\ jobs[j] \in JobRow
      BY <1>1, <1>6 DEF Requeue, Ids
    <2>. QED BY <1>1, <1>2, <2>1, RevivedType DEF Scheduled
  <1>. QED
    BY <1>2, <1>3, <1>4, <1>5, <1>6 DEF OutboxNext, Poll, Produce, ClaimBatch, RunHandler,
       RunProducer, Enqueue, Crash, Tick, obvars

\* enqueue is a step that adds rows: none, when a row has the key, or one.
LEMMA WithAdds ==
    ASSUME OInv, Len(jobs') <= MaxJobs,
           NEW key \in Keys, NEW payload \in Payloads, NEW at \in 0..MaxTime,
           jobs' = With(key, payload, at)
    PROVE  /\ Adds
           /\ ~HasKey(key) => /\ Len(jobs) + 1 \in Ids'
                              /\ Len(jobs) + 1 \notin Ids
           /\ \A i \in Ids' \ Ids : jobs'[i] = NewJob(key, payload, at) /\ ~HasKey(key)
  <1>1. jobs \in Seq(JobRow) /\ key # NoKey
    BY OutboxAssumption DEF OInv, OutboxTypeOK
  <1>2. NewJob(key, payload, at) \in NewRows /\ NewJob(key, payload, at) \in JobRow
    BY OutboxAssumption DEF NewRows, NewJob, JobRow
  <1>3. CASE HasKey(key)
    BY <1>1, <1>3 DEF With, Adds, Ids
  <1>4. CASE ~HasKey(key)
    <2>. DEFINE new == NewJob(key, payload, at)
    <2>1. jobs' = Append(jobs, new) /\ new \in JobRow /\ new \in NewRows /\ new.key = key
      BY <1>2, <1>4 DEF With, NewJob
    <2>. HIDE DEF new
    <2>2. /\ jobs' \in Seq(JobRow) /\ Len(jobs') = Len(jobs) + 1 /\ Len(jobs) \in Nat
          /\ \A i \in 1..Len(jobs) : jobs'[i] = jobs[i]
          /\ jobs'[Len(jobs) + 1] = new
      BY <1>1, <2>1
    <2>3. Ids = 1..Len(jobs) /\ Ids' = 1..(Len(jobs) + 1)
      BY <1>1, <2>2 DEF Ids
    <2>4. \A j \in Ids : jobs'[j].key # key
      BY <1>1, <1>4, <2>2, <2>3 DEF HasKey
    <2>5. Adds
      BY <2>1, <2>2, <2>3, <2>4 DEF Adds
    <2>. QED BY <1>4, <2>2, <2>3, <2>5 DEF new
  <1>. QED BY <1>3, <1>4

-----------------------------------------------------------------------------
(* What a step of the domain does.                                         *)

\* A job for booking b has a key and a payload of the outbox.
LEMMA JobsAreTyped ==
    ASSUME NEW b \in Bookings, NEW s \in 0..MaxTime, NEW tag \in 0..MaxJobs
    PROVE  /\ <<b, s, tag>> \in Keys /\ b \in Payloads
           /\ KeyNamesBooking(NewJob(<<b, s, tag>>, b, s))
           /\ NewJob(<<b, s, tag>>, b, s).payload = b
           /\ NewJob(<<b, s, tag>>, b, s).status = "pending"
  BY PromotionAssumption DEF PromotionKeys, KeyNamesBooking, NewJob

\* Where the elements of two sequences are in their concatenation.
LEMMA ConcatenationOf ==
    ASSUME NEW S, NEW s \in Seq(S), NEW r \in Seq(S)
    PROVE  /\ s \o r \in Seq(S)
           /\ Len(s \o r) = Len(s) + Len(r)
           /\ \A i \in 1..Len(s) : (s \o r)[i] = s[i]
           /\ \A i \in (Len(s) + 1)..(Len(s) + Len(r)) : (s \o r)[i] = r[i - Len(s)]
  OBVIOUS

\* Rows with keys that are new and all different can be added at once.
LEMMA RowsAdd ==
    ASSUME OInv, NEW rows \in Seq(JobRow),
           Len(jobs) + Len(rows) <= MaxJobs,
           \A k \in 1..Len(rows) : /\ rows[k] \in NewRows
                                   /\ rows[k].key \in Keys
                                   /\ ~HasKey(rows[k].key),
           \A k, l \in 1..Len(rows) : k < l => rows[k].key # rows[l].key,
           jobs' = jobs \o rows
    PROVE  /\ Adds
           /\ Len(jobs') <= MaxJobs
           /\ \A i \in Ids' \ Ids : \E k \in 1..Len(rows) : jobs'[i] = rows[k]
  <1>1. jobs \in Seq(JobRow) /\ Len(jobs) \in Nat /\ Len(rows) \in Nat
    BY DEF OInv, OutboxTypeOK
  <1>2. /\ jobs' \in Seq(JobRow) /\ Len(jobs') = Len(jobs) + Len(rows)
        /\ \A i \in 1..Len(jobs) : jobs'[i] = jobs[i]
        /\ \A i \in (Len(jobs) + 1)..(Len(jobs) + Len(rows)) : jobs'[i] = rows[i - Len(jobs)]
    BY <1>1, ConcatenationOf
  <1>3. Ids = 1..Len(jobs) /\ Ids' = 1..(Len(jobs) + Len(rows))
    BY <1>1, <1>2 DEF Ids
  <1>4. ASSUME NEW i \in Ids', i \notin Ids
        PROVE  i - Len(jobs) \in 1..Len(rows) /\ jobs'[i] = rows[i - Len(jobs)]
    BY <1>1, <1>2, <1>3, <1>4
  <1>5. ASSUME NEW i \in Ids', i \notin Ids, NEW j \in 1..(i - 1)
        PROVE  jobs'[j].key # jobs'[i].key
    <2>1. CASE j \in Ids
      <3>1. jobs'[i].key # NoKey /\ ~HasKey(jobs'[i].key)
        BY ZenonT(60), <1>4, <1>5, OutboxAssumption
      <3>. QED BY <3>1, <2>1, <1>2, <1>3 DEF HasKey
    <2>2. CASE j \notin Ids
      <3>1. j \in Ids' /\ j - Len(jobs) < i - Len(jobs)
        BY <1>1, <1>3
      <3>. QED BY <3>1, <2>2, <1>4, <1>5
    <2>. QED BY <2>1, <2>2
  <1>6. Adds
    BY <1>1, <1>2, <1>3, <1>4, <1>5 DEF Adds
  <1>. QED BY <1>1, <1>2, <1>4, <1>6

\* Moving the start adds one row for each pending booking that has none.
LEMMA MoveAdds ==
    ASSUME OInv, NEW s \in 1..MaxTime,
           Len(jobs) + Cardinality(MissingAt(s)) <= MaxJobs,
           NEW new \in Bijection(1..Cardinality(MissingAt(s)), MissingAt(s)),
           jobs' = jobs \o [i \in 1..Cardinality(MissingAt(s)) |->
                              NewJob(BaseKey(new[i], s), new[i], s)]
    PROVE  /\ Adds
           /\ Len(jobs') <= MaxJobs
           /\ \A i \in Ids' \ Ids : \E b \in MissingAt(s) : jobs'[i] = NewJob(BaseKey(b, s), b, s)
  <1>1. PICK n \in Nat : n = Cardinality(MissingAt(s))
    <2>1. MissingAt(s) \subseteq Bookings
      BY DEF MissingAt
    <2>. QED BY <2>1, PromotionAssumption, FS_Subset, FS_CardinalityType
  <1>2. /\ \A i \in 1..n : new[i] \in MissingAt(s)
        /\ \A i, j \in 1..n : new[i] = new[j] => i = j
    BY <1>1 DEF Bijection, Injection, IsInjective
  <1>. DEFINE rows == [i \in 1..n |-> NewJob(BaseKey(new[i], s), new[i], s)]
  <1>3. ASSUME NEW i \in 1..n
        PROVE  /\ rows[i] \in JobRow /\ rows[i] \in NewRows
               /\ rows[i].key = BaseKey(new[i], s)
               /\ rows[i] = NewJob(BaseKey(new[i], s), new[i], s)
               /\ ~HasKey(rows[i].key)
               /\ rows[i].key \in Keys
    <2>1. new[i] \in Bookings /\ ~HasKey(BaseKey(new[i], s))
      BY <1>2 DEF MissingAt
    <2>2. s \in 0..MaxTime /\ s \in Nat /\ 0 \in 0..MaxJobs
      BY OutboxAssumption
    <2>3. BaseKey(new[i], s) \in Keys /\ new[i] \in Payloads
      BY <2>1, <2>2, JobsAreTyped DEF BaseKey
    <2>. QED BY <2>1, <2>2, <2>3 DEF NewRows, JobRow, NewJob
  <1>4. \A i, j \in 1..n : i < j => rows[i].key # rows[j].key
    BY <1>2, <1>3 DEF BaseKey
  <1>5. rows \in Seq(JobRow) /\ Len(rows) = n /\ jobs' = jobs \o rows
    BY <1>1, <1>3
  <1>6. \A i \in 1..n : \E b \in MissingAt(s) : rows[i] = NewJob(BaseKey(b, s), b, s)
    BY <1>2
  <1>7. \A k \in 1..n : rows[k] \in NewRows /\ rows[k].key \in Keys /\ ~HasKey(rows[k].key)
    BY <1>3
  <1>8. Len(jobs) + n <= MaxJobs
    BY <1>1
  <1>. HIDE DEF rows
  <1>9. /\ Adds
        /\ Len(jobs') <= MaxJobs
        /\ \A i \in Ids' \ Ids : \E k \in 1..n : jobs'[i] = rows[k]
    BY <1>4, <1>5, <1>7, <1>8, RowsAdd
  <1>. QED BY <1>6, <1>9

-----------------------------------------------------------------------------
(* The parts of a handler's transaction.                                   *)

\* Securing the schedule leaves booking b = payload of i with another row that
\* is still to be delivered: the one it adds or the one it found.
LEMMA SecuresJob ==
    ASSUME OInv, JobsOfBookings, Len(jobs) <= MaxJobs, Len(jobs') <= MaxJobs,
           NEW w \in Workers, NEW i \in Ids, NEW s \in 1..MaxTime,
           Ran(w, i, TRUE), SecurePromotionSchedule(i, s)
    PROVE  /\ Adds
           /\ \A j \in Ids' \ Ids : /\ KeyNamesBooking(jobs'[j])
                                    /\ jobs'[j].payload = jobs[i].payload
           /\ \E j \in Ids' : jobs'[j].payload = jobs[i].payload /\ Scheduled(j)'
  <1>1. PICK b \in Bookings, tag \in 0..MaxJobs :
            /\ b = jobs[i].payload
            /\ Secures(<<b, s, tag>>, i)
            /\ jobs' = With(<<b, s, tag>>, b, s)
    <2>1. jobs[i].payload \in Bookings
      BY DEF JobsOfBookings, KeyNamesBooking
    <2>2. 0 \in 0..MaxJobs /\ i \in 0..MaxJobs
      BY OutboxAssumption DEF OInv, OutboxTypeOK, Ids
    <2>. QED BY <2>1, <2>2 DEF SecurePromotionSchedule, BaseKey
  <1>2. s \in 0..MaxTime /\ s \in Nat
    BY OutboxAssumption
  <1>. DEFINE key == <<b, s, tag>>
  <1>3. /\ key \in Keys /\ b \in Payloads
        /\ KeyNamesBooking(NewJob(key, b, s))
        /\ NewJob(key, b, s).payload = b
        /\ NewJob(key, b, s).status = "pending"
    BY <1>2, JobsAreTyped
  <1>4. Secures(key, i) /\ jobs' = With(key, b, s) /\ key[1] = b
    BY <1>1
  <1>. HIDE DEF key
  <1>5. /\ Adds
        /\ ~HasKey(key) => Len(jobs) + 1 \in Ids' /\ Len(jobs) + 1 \notin Ids
        /\ \A j \in Ids' \ Ids : jobs'[j] = NewJob(key, b, s) /\ ~HasKey(key)
    BY <1>2, <1>3, <1>4, WithAdds
  <1>6. claim \in [Workers -> PollRow]
    BY DEF OInv, OutboxTypeOK
  <1>7. /\ \A v \in Workers \ {w} : claim'[v].ok = claim[v].ok
        /\ claim'[w].ok \subseteq claim[w].ok \cup {i}
    BY <1>6 DEF Ran
  <1>8. \A v \in Workers : claim[v].ok \subseteq Held(v) /\ Held(v) \subseteq Ids
    BY DEF Held, OInv, ExclusiveClaims
  <1>9. \E j \in Ids' : jobs'[j].payload = b /\ Scheduled(j)'
    <2>1. CASE ~HasKey(key)
      <3>1. PICK j \in Ids' : j \notin Ids /\ jobs'[j] = NewJob(key, b, s)
        BY <2>1, <1>5
      <3>2. \A v \in Workers : j \notin claim'[v].ok
        BY <3>1, <1>7, <1>8
      <3>. QED BY <3>1, <3>2, <1>3 DEF Scheduled
    <2>2. CASE HasKey(key)
      <3>1. PICK j \in Ids : jobs[j].key = key /\ j # i /\ IsLivePendingJob(j)
        BY <2>2, <1>4 DEF Secures
      <3>2. j \in Ids' /\ jobs'[j] = jobs[j]
        BY <3>1, <1>5 DEF Adds, Ids, OInv, OutboxTypeOK
      <3>3. jobs[j].payload = b
        BY <3>1, <1>4 DEF JobsOfBookings, KeyNamesBooking
      <3>4. \A v \in Workers : j \notin claim'[v].ok
        BY <3>1, <1>7, <1>8 DEF IsLivePendingJob
      <3>. QED BY <3>1, <3>2, <3>3, <3>4 DEF Scheduled, IsLivePendingJob
    <2>. QED BY <2>1, <2>2
  <1>. QED BY <1>1, <1>3, <1>5, <1>9

-----------------------------------------------------------------------------
(* Every step of the domain is a step of the outbox or leaves it alone.    *)

LEMMA HandlerWriteRefines ==
    ASSUME PInv, NEW w \in Workers, NEW i \in Ids, HandlerWrite(w, i)
    PROVE  OutboxNext
  <1>1. handler[w].seen \in 1..MaxTime
    BY DEF HandlerWrite, PInv, PTypes
  <1>2. CASE UNCHANGED jobs
    BY <1>2 DEF HandlerWrite, RunHandler, Poll, OutboxNext
  <1>3. CASE Ran(w, i, TRUE) /\ SecurePromotionSchedule(i, handler[w].seen)
             /\ Len(jobs') <= MaxJobs
    <2>1. Adds
      BY <1>1, <1>3, SecuresJob DEF PInv, PTypes
    <2>. QED BY <2>1, <1>3 DEF RunProducer, Produce, OutboxNext
  <1>. QED BY <1>2, <1>3 DEF HandlerWrite

LEMMA StepRefines ==
    ASSUME PInv, [PromotionNext]_pvars
    PROVE  [OutboxNext]_obvars
  <1>1. ASSUME NEW b \in Bookings, Book(b) PROVE OutboxNext
    <2>1. jobs' = With(BaseKey(b, start), b, start) /\ Len(jobs) < MaxJobs
      BY <1>1 DEF Book
    <2>2. start \in 0..MaxTime /\ 0 \in 0..MaxJobs
      BY OutboxAssumption DEF PInv, PTypes
    <2>3. Len(jobs') <= MaxJobs
      BY <2>1, OutboxAssumption DEF With, PInv, OInv, OutboxTypeOK
    <2>4. Adds
      BY <2>1, <2>2, <2>3, JobsAreTyped, WithAdds DEF BaseKey, PInv
    <2>. QED BY <2>4, <1>1 DEF Book, Enqueue, Produce, OutboxNext
  <1>2. ASSUME NEW s \in 1..MaxTime, CommitMove(s) PROVE OutboxNext \/ UNCHANGED obvars
    <2>1. CASE UNCHANGED jobs
      BY <2>1, <1>2 DEF CommitMove, obvars
    <2>2. CASE ~UNCHANGED jobs
      <3>1. Adds
        BY <2>2, <1>2, MoveAdds DEF CommitMove, PInv
      <3>. QED BY <3>1, <1>2 DEF CommitMove, Enqueue, Produce, OutboxNext
    <2>. QED BY <2>1, <2>2
  <1>3. ASSUME NEW w \in Workers, Work(w) PROVE OutboxNext \/ UNCHANGED obvars
    <2>1. ASSUME NEW i \in Ids, HandlerLock(w, i) PROVE OutboxNext \/ UNCHANGED obvars
      BY <2>1 DEF HandlerLock, Noop, RunHandler, Poll, OutboxNext, obvars
    <2>2. ASSUME NEW i \in Ids, HandlerRead(w, i) PROVE UNCHANGED obvars
      BY <2>2 DEF HandlerRead, obvars
    <2>. QED BY <2>1, <2>2, <1>3, HandlerWriteRefines DEF Work, Handler, Poll, OutboxNext
  <1>4. ASSUME NEW w \in Workers, NEW i \in Ids, HandlerFails(w, i) PROVE OutboxNext
    BY <1>4 DEF HandlerFails, RunHandler, Poll, OutboxNext
  <1>5. ASSUME NEW w \in Workers, WorkerCrash(w) PROVE OutboxNext
    BY <1>5 DEF WorkerCrash, OutboxNext
  <1>6. ASSUME NEW i \in Ids, Requeue(i) PROVE OutboxNext
    BY <1>6 DEF OutboxNext
  <1>7. ASSUME PromotionTick PROVE OutboxNext
    BY <1>7 DEF PromotionTick, OutboxNext
  <1>8. ASSUME CancelListing \/ (\E b \in Bookings : CancelBooking(b))
               \/ (\E s \in 1..MaxTime : RequestMove(s)) \/ UNCHANGED pvars
        PROVE  UNCHANGED obvars
    BY <1>8 DEF CancelListing, CancelBooking, RequestMove, pvars, obvars
  <1>. QED BY <1>1, <1>2, <1>3, <1>4, <1>5, <1>6, <1>7, <1>8 DEF PromotionNext

-----------------------------------------------------------------------------
(* What every step does to the domain, one lemma per kind of action.       *)

\* A row is added only for a booking that was made.
NewJobsOwned ==
    \A i \in Ids' \ Ids : KeyNamesBooking(jobs'[i]) /\ status'[jobs'[i].payload] # "none"

\* A booking that waits after the step waited before and no handler returned
\* for a job of its own, or a job of its own is scheduled after the step.
KeepsSchedule ==
    \A b \in Bookings : Waiting(b)' =>
        \/ /\ Waiting(b)
           /\ \A w \in Workers : \A i \in Own(b) : i \in claim'[w].ok => i \in claim[w].ok
        \/ \E i \in Own(b)' : Scheduled(i)'

Effect ==
    /\ PTypes'
    /\ GoneForGood'
    /\ \A b \in Bookings : status'[b] = "none" => status[b] = "none"
    /\ NewJobsOwned
    /\ KeepsSchedule

\* The steps that touch neither the rows nor the outcomes of a poll.
LEMMA QuietEffect ==
    ASSUME PInv, PTypes', GoneForGood', Len(jobs') = Len(jobs), Ids' = Ids,
           \A b \in Bookings : status'[b] = "none" => status[b] = "none",
           \A b \in Bookings : Waiting(b)' => Waiting(b),
           \A w \in Workers : claim'[w].ok \subseteq claim[w].ok
    PROVE  Effect
  BY DEF Effect, NewJobsOwned, KeepsSchedule

LEMMA BookEffect ==
    ASSUME PInv, NEW b \in Bookings, Book(b)
    PROVE  Effect
  <1>1. /\ jobs' = With(BaseKey(b, start), b, start) /\ Len(jobs) < MaxJobs
        /\ status[b] = "none" /\ status' = [status EXCEPT ![b] = "pending"]
        /\ claim' = claim /\ start' = start /\ active' = active
        /\ moving' = moving /\ handler' = handler
    BY DEF Book
  <1>2. /\ start \in 1..MaxTime /\ start \in 0..MaxTime /\ start \in Nat /\ 0 \in 0..MaxJobs
        /\ status \in [Bookings -> {"none", "pending", "in_progress", "cancelled"}]
    BY OutboxAssumption DEF PInv, PTypes
  <1>3. Len(jobs') <= MaxJobs
    BY <1>1, OutboxAssumption DEF With, PInv, OInv, OutboxTypeOK
  <1>. DEFINE key == BaseKey(b, start)
              new == NewJob(key, b, start)
  <1>4. /\ key \in Keys /\ b \in Payloads
        /\ KeyNamesBooking(new)
        /\ new.payload = b
        /\ new.status = "pending"
    BY <1>2, JobsAreTyped DEF BaseKey
  <1>5. /\ ~HasKey(key) => Len(jobs) + 1 \in Ids' /\ Len(jobs) + 1 \notin Ids
        /\ \A j \in Ids' \ Ids : jobs'[j] = new
    BY <1>1, <1>2, <1>3, <1>4, WithAdds DEF PInv
  <1>6. ~HasKey(key)
    <2>1. ASSUME NEW j \in Ids, jobs[j].key = key PROVE FALSE
      <3>1. jobs[j].payload = b
        BY <2>1 DEF PInv, JobsOfBookings, KeyNamesBooking, BaseKey
      <3>. QED BY <3>1, <1>1 DEF PInv, JobsOfBookings
    <2>. QED BY <2>1 DEF HasKey
  <1>. HIDE DEF key, new
  <1>7. PTypes' /\ GoneForGood'
    BY <1>1, <1>2, <1>3 DEF PInv, PTypes, GoneForGood
  <1>8. NewJobsOwned
    BY <1>1, <1>2, <1>4, <1>5 DEF NewJobsOwned
  <1>9. \E i \in Own(b)' : Scheduled(i)'
    <2>1. PICK i \in Ids' : i \notin Ids /\ jobs'[i] = new
      BY <1>5, <1>6
    <2>2. \A w \in Workers : i \notin claim'[w].ok
      BY <1>1, <2>1 DEF PInv, OInv, ExclusiveClaims, Held
    <2>. QED BY <2>1, <2>2, <1>4 DEF Own, Scheduled
  <1>10. KeepsSchedule
    BY <1>1, <1>2, <1>9 DEF KeepsSchedule, Waiting
  <1>. QED BY <1>1, <1>2, <1>7, <1>8, <1>10 DEF Effect

LEMMA RequestMoveEffect ==
    ASSUME PInv, NEW s \in 1..MaxTime, RequestMove(s)
    PROVE  Effect
  <1>1. /\ jobs' = jobs /\ claim' = claim /\ start' = start /\ active' = active
        /\ status' = status /\ handler' = handler /\ moving' = moving \cup {s}
    BY DEF RequestMove
  <1>2. PTypes' /\ GoneForGood'
    BY <1>1 DEF PInv, PTypes, GoneForGood
  <1>. QED BY <1>1, <1>2, QuietEffect DEF Ids, Waiting

LEMMA CommitMoveEffect ==
    ASSUME PInv, NEW s \in 1..MaxTime, CommitMove(s)
    PROVE  Effect
  <1>1. /\ claim' = claim /\ active' = active /\ start' \in {start, s}
        /\ status' = status /\ handler' = handler /\ moving' = moving \ {s}
    BY DEF CommitMove
  <1>2. GoneForGood' /\ KeepsSchedule
    BY <1>1 DEF PInv, GoneForGood, KeepsSchedule, Waiting
  <1>3. CASE UNCHANGED jobs
    <2>1. PTypes'
      BY <1>1, <1>3 DEF PInv, PTypes
    <2>. QED BY <1>1, <1>2, <1>3, <2>1 DEF Effect, NewJobsOwned, Ids
  <1>4. CASE ~UNCHANGED jobs
    <2>1. /\ Len(jobs') <= MaxJobs
          /\ \A i \in Ids' \ Ids : \E b \in MissingAt(s) : jobs'[i] = NewJob(BaseKey(b, s), b, s)
      BY <1>4, MoveAdds DEF CommitMove, PInv
    <2>2. PTypes'
      BY <1>1, <2>1 DEF PInv, PTypes
    <2>3. s \in 0..MaxTime /\ 0 \in 0..MaxJobs
      BY OutboxAssumption
    <2>4. NewJobsOwned
      <3>1. ASSUME NEW b \in MissingAt(s)
            PROVE  /\ KeyNamesBooking(NewJob(BaseKey(b, s), b, s))
                   /\ NewJob(BaseKey(b, s), b, s).payload = b
                   /\ status[b] = "pending"
        BY <3>1, <2>3, JobsAreTyped DEF MissingAt, BaseKey
      <3>. QED BY <1>1, <2>1, <3>1 DEF NewJobsOwned
    <2>. QED BY <1>1, <1>2, <2>2, <2>4 DEF Effect
  <1>. QED BY <1>3, <1>4

LEMMA CancelBookingEffect ==
    ASSUME PInv, NEW b \in Bookings, CancelBooking(b)
    PROVE  Effect
  <1>1. /\ jobs' = jobs /\ claim' = claim /\ start' = start /\ active' = active
        /\ status' = [status EXCEPT ![b] = "cancelled"]
        /\ handler' = handler /\ moving' = moving
    BY DEF CancelBooking
  <1>2. PTypes' /\ GoneForGood'
    BY <1>1 DEF PInv, PTypes, GoneForGood
  <1>3. status \in [Bookings -> {"none", "pending", "in_progress", "cancelled"}]
    BY DEF PInv, PTypes
  <1>. QED BY <1>1, <1>2, <1>3, QuietEffect DEF Ids, Waiting

LEMMA CancelListingEffect ==
    ASSUME PInv, CancelListing
    PROVE  Effect
  <1>1. /\ jobs' = jobs /\ claim' = claim /\ start' = start /\ active' = FALSE
        /\ status' = [b \in Bookings |-> IF status[b] \in {"pending", "in_progress"}
                                         THEN "cancelled" ELSE status[b]]
        /\ handler' = handler /\ moving' = moving
    BY DEF CancelListing
  <1>2. PTypes' /\ GoneForGood'
    BY <1>1 DEF PInv, PTypes, GoneForGood
  <1>. QED BY <1>1, <1>2, QuietEffect DEF Ids, Waiting

LEMMA HandlerReadEffect ==
    ASSUME PInv, NEW w \in Workers, NEW i \in Ids, HandlerRead(w, i)
    PROVE  Effect
  <1>1. /\ jobs' = jobs /\ claim' = claim /\ start' = start /\ active' = active
        /\ status' = status /\ moving' = moving
        /\ handler' = [handler EXCEPT ![w] = [at |-> "wait", seen |-> start, live |-> active]]
    BY DEF HandlerRead
  <1>2. PTypes' /\ GoneForGood'
    BY <1>1 DEF PInv, PTypes, GoneForGood
  <1>. QED BY <1>1, <1>2, QuietEffect DEF Ids, Waiting

\* The only row a returning handler can add to the delivered ones is its own.
LEMMA RanOutcome ==
    ASSUME OInv, NEW w \in Workers, NEW i \in Ids, NEW ok \in BOOLEAN, Ran(w, i, ok)
    PROVE  /\ \A v \in Workers : claim'[v].ok \subseteq claim[v].ok \cup {i}
           /\ ~ok => \A v \in Workers : claim'[v].ok = claim[v].ok
  <1>1. claim \in [Workers -> PollRow]
    BY DEF OInv, OutboxTypeOK
  <1>. QED BY <1>1 DEF Ran

\* A job is dropped only when its booking or its listing is out of the way.
LEMMA HandlerLockEffect ==
    ASSUME PInv, NEW w \in Workers, NEW i \in Ids, HandlerLock(w, i)
    PROVE  Effect
  <1>1. /\ jobs' = jobs /\ Ids' = Ids /\ start' = start /\ active' = active
        /\ status' = status /\ moving' = moving
        /\ handler[w] # Idle
    BY DEF HandlerLock, Noop, Ids
  <1>2. /\ handler \in [Workers -> [at : {"wait", "locked"}, seen : 1..MaxTime,
                                    live : BOOLEAN] \cup {Idle}]
    BY DEF PInv, PTypes
  <1>3. CASE claim' = claim /\ handler' = [handler EXCEPT ![w].at = "locked"]
    <2>1. handler' = [handler EXCEPT ![w] = [at |-> "locked", seen |-> handler[w].seen,
                                             live |-> handler[w].live]]
      <3>1. PICK h \in [at : {"wait", "locked"}, seen : 1..MaxTime, live : BOOLEAN] :
                h = handler[w]
        BY <1>1, <1>2
      <3>2. [h EXCEPT !.at = "locked"] = [at |-> "locked", seen |-> h.seen, live |-> h.live]
        OBVIOUS
      <3>. QED BY <1>3, <3>1, <3>2
    <2>2. handler[w].seen \in 1..MaxTime /\ handler[w].live \in BOOLEAN
      BY <1>1, <1>2
    <2>3. PTypes' /\ GoneForGood'
      BY <1>1, <1>2, <2>1, <2>2 DEF PInv, PTypes, GoneForGood
    <2>. QED BY <1>1, <1>3, <2>3, QuietEffect DEF Waiting
  <1>4. CASE ~(status[jobs[i].payload] = "pending" /\ handler[w].live) /\ Noop(w, i)
    <2>1. handler' = [handler EXCEPT ![w] = Idle] /\ Ran(w, i, TRUE)
      BY <1>4 DEF Noop
    <2>2. PTypes' /\ GoneForGood'
      BY <1>1, <1>2, <2>1 DEF PInv, PTypes, GoneForGood
    <2>3. ~Waiting(jobs[i].payload)
      BY <1>1, <1>4 DEF PInv, GoneForGood, Waiting
    <2>4. \A v \in Workers : claim'[v].ok \subseteq claim[v].ok \cup {i}
      BY <2>1, RanOutcome DEF PInv
    <2>5. KeepsSchedule
      BY <1>1, <2>3, <2>4 DEF KeepsSchedule, Waiting, Own
    <2>. QED BY <1>1, <2>2, <2>5 DEF Effect, NewJobsOwned
  <1>. QED BY <1>3, <1>4 DEF HandlerLock

\* The handler promotes its booking, or leaves it with another job, or throws.
LEMMA HandlerWriteEffect ==
    ASSUME PInv, NEW w \in Workers, NEW i \in Ids, HandlerWrite(w, i)
    PROVE  Effect
  <1>1. /\ start' = start /\ active' = active /\ moving' = moving
        /\ handler' = [handler EXCEPT ![w] = Idle]
    BY DEF HandlerWrite
  <1>2. /\ handler \in [Workers -> [at : {"wait", "locked"}, seen : 1..MaxTime,
                                    live : BOOLEAN] \cup {Idle}]
        /\ handler[w].seen \in 1..MaxTime
        /\ status \in [Bookings -> {"none", "pending", "in_progress", "cancelled"}]
        /\ Len(jobs) <= MaxJobs
    BY DEF PInv, PTypes, HandlerWrite
  <1>. DEFINE b == jobs[i].payload
  <1>3. b \in Bookings /\ status[b] # "none"
    BY DEF PInv, JobsOfBookings, KeyNamesBooking
  <1>4. GoneForGood'
    BY <1>1, <1>2 DEF PInv, GoneForGood
  <1>5. CASE Ran(w, i, TRUE) /\ status' = [status EXCEPT ![b] = "in_progress"] /\ jobs' = jobs
    <2>1. PTypes'
      BY <1>1, <1>2, <1>5 DEF PInv, PTypes
    <2>2. \A v \in Workers : claim'[v].ok \subseteq claim[v].ok \cup {i}
      BY <1>5, RanOutcome DEF PInv
    <2>3. \A c \in Bookings : Waiting(c)' => Waiting(c) /\ c # b
      BY <1>1, <1>2, <1>5 DEF Waiting
    <2>4. KeepsSchedule
      BY <2>2, <2>3 DEF KeepsSchedule, Own
    <2>. QED BY <1>2, <1>4, <1>5, <2>1, <2>4 DEF Effect, NewJobsOwned, Ids
  <1>6. CASE /\ Ran(w, i, TRUE) /\ SecurePromotionSchedule(i, handler[w].seen)
             /\ Len(jobs') <= MaxJobs /\ status' = status
    <2>1. PTypes'
      BY <1>1, <1>2, <1>6 DEF PInv, PTypes
    <2>2. /\ \A j \in Ids' \ Ids : KeyNamesBooking(jobs'[j]) /\ jobs'[j].payload = b
          /\ \E j \in Ids' : jobs'[j].payload = b /\ Scheduled(j)'
      BY <1>2, <1>6, SecuresJob DEF PInv
    <2>3. \A v \in Workers : claim'[v].ok \subseteq claim[v].ok \cup {i}
      BY <1>6, RanOutcome DEF PInv
    <2>4. NewJobsOwned
      BY <1>3, <1>6, <2>2 DEF NewJobsOwned
    <2>5. KeepsSchedule
      <3>1. SUFFICES ASSUME NEW c \in Bookings, Waiting(c)'
                     PROVE  \/ /\ Waiting(c)
                               /\ \A v \in Workers : \A j \in Own(c) :
                                     j \in claim'[v].ok => j \in claim[v].ok
                            \/ \E j \in Own(c)' : Scheduled(j)'
        BY DEF KeepsSchedule
      <3>2. CASE c = b
        BY <3>2, <2>2 DEF Own
      <3>3. CASE c # b
        BY <3>1, <3>3, <1>1, <1>6, <2>3 DEF Own, Waiting
      <3>. QED BY <3>2, <3>3
    <2>. QED BY <1>4, <1>6, <2>1, <2>4, <2>5 DEF Effect
  <1>7. CASE Ran(w, i, FALSE) /\ UNCHANGED <<jobs, status>>
    <2>1. PTypes'
      BY <1>1, <1>2, <1>7 DEF PInv, PTypes
    <2>2. \A v \in Workers : claim'[v].ok = claim[v].ok
      BY <1>7, RanOutcome DEF PInv
    <2>. QED BY <1>1, <1>4, <1>7, <2>1, <2>2, QuietEffect DEF Ids, Waiting
  <1>. QED BY <1>5, <1>6, <1>7 DEF HandlerWrite

LEMMA HandlerFailsEffect ==
    ASSUME PInv, NEW w \in Workers, NEW i \in Ids, HandlerFails(w, i)
    PROVE  Effect
  <1>1. /\ jobs' = jobs /\ start' = start /\ active' = active
        /\ status' = status /\ moving' = moving
        /\ handler' = [handler EXCEPT ![w] = Idle] /\ Ran(w, i, FALSE)
    BY DEF HandlerFails
  <1>2. PTypes' /\ GoneForGood'
    BY <1>1 DEF PInv, PTypes, GoneForGood
  <1>3. \A v \in Workers : claim'[v].ok = claim[v].ok
    BY <1>1, RanOutcome DEF PInv
  <1>. QED BY <1>1, <1>2, <1>3, QuietEffect DEF Ids, Waiting

\* A poll that starts, ends or is rolled back has no delivered rows any more.
LEMMA PollEffect ==
    ASSUME PInv, NEW w \in Workers,
           \/ WorkerCrash(w)
           \/ \E rows \in SUBSET Due : ClaimBatch(w, rows) /\ UNCHANGED domain
           \/ CommitPoll(w) /\ UNCHANGED domain
    PROVE  Effect
  <1>1. claim \in [Workers -> PollRow] /\ jobs \in Seq(JobRow)
    BY DEF PInv, OInv, OutboxTypeOK
  <1>2. /\ start' = start /\ active' = active /\ status' = status /\ moving' = moving
        /\ handler' = handler \/ handler' = [handler EXCEPT ![w] = Idle]
    BY DEF WorkerCrash, domain
  <1>3. Ids' = Ids /\ Len(jobs') = Len(jobs)
    <2>1. CASE jobs' = jobs
      BY <2>1 DEF Ids
    <2>2. CASE CommitPoll(w)
      <3>1. DOMAIN jobs' = DOMAIN jobs /\ DOMAIN jobs = 1..Len(jobs) /\ Len(jobs) \in Nat
        BY <1>1, <2>2 DEF CommitPoll, Ids
      <3>. QED BY <3>1 DEF Ids
    <2>. QED BY <2>1, <2>2 DEF WorkerCrash, Crash, ClaimBatch
  <1>4. \A v \in Workers : claim'[v].ok \subseteq claim[v].ok
    BY <1>1 DEF WorkerCrash, Crash, ClaimBatch, CommitPoll, NoPoll
  <1>5. PTypes' /\ GoneForGood'
    BY <1>2, <1>3 DEF PInv, PTypes, GoneForGood
  <1>. QED BY <1>2, <1>3, <1>4, <1>5, QuietEffect DEF Waiting

LEMMA RequeueTickEffect ==
    ASSUME PInv, \/ \E i \in Ids : Requeue(i) /\ UNCHANGED domain
                 \/ PromotionTick
                 \/ UNCHANGED pvars
    PROVE  Effect
  <1>1. jobs \in Seq(JobRow)
    BY DEF PInv, OInv, OutboxTypeOK
  <1>2. /\ start' = start /\ active' = active /\ status' = status /\ moving' = moving
        /\ handler' = handler /\ claim' = claim
    BY DEF domain, pvars, PromotionTick, Tick, Requeue
  <1>3. Ids' = Ids /\ Len(jobs') = Len(jobs)
    BY <1>1 DEF Ids, Requeue, PromotionTick, Tick, pvars
  <1>4. PTypes' /\ GoneForGood'
    BY <1>2, <1>3 DEF PInv, PTypes, GoneForGood
  <1>. QED BY <1>2, <1>3, <1>4, QuietEffect DEF Waiting

-----------------------------------------------------------------------------
(* The theorems.                                                           *)

\* Every step keeps the invariant.
LEMMA PInvStep ==
    ASSUME PInv, [PromotionNext]_pvars
    PROVE  PInv'
  <1>1. OInv /\ [OutboxNext]_obvars
    BY StepRefines DEF PInv
  <1>2. OInv'
    BY <1>1, OutboxStepKeeps
  <1>3. Effect
    BY BookEffect, RequestMoveEffect, CommitMoveEffect, CancelBookingEffect,
       CancelListingEffect, HandlerReadEffect, HandlerLockEffect, HandlerWriteEffect,
       HandlerFailsEffect, PollEffect, RequeueTickEffect
       DEF PromotionNext, Work, Handler
  <1>4. JobsOfBookings'
    <2>. SUFFICES ASSUME NEW i \in Ids'
                  PROVE  KeyNamesBooking(jobs'[i]) /\ status'[jobs'[i].payload] # "none"
      BY DEF JobsOfBookings, KeyNamesBooking
    <2>1. CASE i \in Ids
      <3>1. jobs'[i].key = jobs[i].key /\ jobs'[i].payload = jobs[i].payload
        BY <2>1, <1>1, RowsStay
      <3>. QED BY <2>1, <3>1, <1>3 DEF Effect, PInv, JobsOfBookings, KeyNamesBooking
    <2>2. CASE i \notin Ids
      BY <2>2, <1>3 DEF Effect, NewJobsOwned
    <2>. QED BY <2>1, <2>2
  <1>5. StillScheduled'
    <2>. SUFFICES ASSUME NEW b \in Bookings, Waiting(b)'
                  PROVE  \E i \in Own(b)' : Scheduled(i)'
      BY DEF StillScheduled
    <2>1. CASE /\ Waiting(b)
               /\ \A w \in Workers : \A i \in Own(b) : i \in claim'[w].ok => i \in claim[w].ok
      <3>1. PICK i \in Own(b) : Scheduled(i)
        BY <2>1 DEF PInv, StillScheduled
      <3>2. i \in Ids /\ jobs[i].payload = b
        BY DEF Own
      <3>3. i \in Ids' /\ Scheduled(i)' /\ jobs'[i].payload = b
        BY <2>1, <3>1, <3>2, <1>1, ScheduledStays, RowsStay
      <3>. QED BY <3>3 DEF Own
    <2>. QED BY <2>1, <1>3 DEF Effect, KeepsSchedule
  <1>. QED BY <1>2, <1>3, <1>4, <1>5 DEF Effect, PInv

\* The listing starts without bookings, and every step keeps the invariant.
THEOREM PromotionInvariance == PromotionSpec => []PInv
  <1>1. PromotionInit => PInv
    <2>. SUFFICES ASSUME PromotionInit PROVE PInv
      OBVIOUS
    <2>1. OInv
      BY DEF PromotionInit, OutboxInit, OInv, OutboxTypeOK, ExclusiveClaims, OneRowPerKey,
             DeliveredWasHandled, BudgetExact, Ids, Held, NoPoll, PollRow
    <2>2. PTypes /\ JobsOfBookings /\ GoneForGood /\ StillScheduled
      BY OutboxAssumption DEF PromotionInit, OutboxInit, PTypes, JobsOfBookings,
         GoneForGood, StillScheduled, Ids, Waiting
    <2>. QED BY <2>1, <2>2 DEF PInv
  <1>. QED BY <1>1, PInvStep, PTL DEF PromotionSpec

\* IT3-F1: whatever is moved, delivered early, retried, dead-lettered,
\* requeued or crashed, a pending booking of an active listing has a job that
\* is pending, or dead where an operator sees it.
THEOREM ScheduleNeverLost == PromotionSpec => []NeverLost
  <1>1. PInv => NeverLost
    BY DEF PInv, StillScheduled, Scheduled, NeverLost
  <1>. QED BY <1>1, PromotionInvariance, PTL

\* Promotion only does what the outbox allows: every step adds rows, runs a
\* handler, commits a poll, or leaves the outbox alone.
THEOREM PromotionUsesOutbox == PromotionSpec => OutboxView
  <1>1. PromotionInit => OutboxInit
    BY DEF PromotionInit
  <1>. QED BY <1>1, StepRefines, PromotionInvariance, PTL DEF PromotionSpec, OutboxView, OutboxSpec

\* The outbox keeps its promises under this use: no row in two polls, one row
\* per key, nothing delivered unhandled, the budget exact.
THEOREM OutboxUnderPromotion == PromotionSpec => []OInv
  <1>. QED BY PromotionUsesOutbox, OutboxInvariance, PTL DEF OutboxView

\* The jobs that promote bookings, pushed ahead, replaced and revived as they are, are the
\* jobs of a ledger.
THEOREM PromotionJobsAreLedgered == PromotionSpec => FollowsJobLedger
  <1>. QED BY PromotionUsesOutbox, JobsAreLedgered, PTL DEF OutboxView
=============================================================================
