------------------------------- MODULE Outbox -------------------------------
(***************************************************************************)
(* The transactional outbox: the outbox_jobs table and the polling workers *)
(* of src/outbox.                                                          *)
(*                                                                         *)
(* A poll is one transaction.  It claims a batch of due rows (FOR UPDATE   *)
(* SKIP LOCKED), runs the handlers one after the other, each in a          *)
(* transaction of its own, and publishes every outcome at its COMMIT.      *)
(* What a poll has learnt so far is therefore in claim, not in jobs, and a *)
(* crash forgets it, while the effects of the handlers stay.  What a       *)
(* handler does is left open here; module Promotion fills it in.           *)
(***************************************************************************)
EXTENDS Naturals, Sequences, FiniteSets

CONSTANTS Workers,      \* worker processes
          Keys,         \* dedupe keys
          NoKey,        \* a job enqueued without dedupe key (SQL NULL)
          Payloads,     \* payloads: ids only
          Batch,        \* config.outbox.batchSize
          MaxAttempts,  \* config.outbox.maxAttempts
          BackoffBase,  \* config.outbox.backoffBaseMs
          BackoffMax,   \* config.outbox.backoffMaxMs
          Skew,         \* how far the database clock runs ahead of Node's
          MaxJobs,      \* bound on the rows
          MaxTime,      \* bound on the clock; later instants count as MaxTime
          MaxCrashes,   \* bound on the crashes of workers
          MaxRequeues   \* bound on the operator's requeues

ASSUME OutboxAssumption ==
    /\ NoKey \notin Keys
    /\ Batch \in Nat \ {0}
    /\ MaxAttempts \in Nat \ {0}
    /\ BackoffBase \in Nat
    /\ BackoffMax \in Nat
    /\ Skew \in Nat
    /\ MaxJobs \in Nat
    /\ MaxTime \in Nat
    /\ MaxCrashes \in Nat
    /\ MaxRequeues \in Nat

VARIABLES jobs,      \* outbox_jobs: rows are never deleted, the index is the id
          claim,     \* the poll each worker is in
          handled,   \* ids whose handler has returned (its effects are committed)
          now,       \* Node's clock
          crashes,   \* crashes so far
          requeues   \* requeues so far

obvars == <<jobs, claim, handled, now, crashes, requeues>>

-----------------------------------------------------------------------------
JobRow == [key : Keys \cup {NoKey}, payload : Payloads, at : Nat,
           status : {"pending", "delivered", "dead"}, attempts : Nat]

Ids == DOMAIN jobs

\* todo: claimed, not run; ok, bad: run in this poll, outcome not committed.
PollRow == [todo : SUBSET Nat, ok : SUBSET Nat, bad : SUBSET Nat, began : Nat]

NoPoll == [todo |-> {}, ok |-> {}, bad |-> {}, began |-> 0]

\* The rows a poll holds locks on until it ends.
Held(w) == claim[w].todo \cup claim[w].ok \cup claim[w].bad

\* The clock PostgreSQL evaluates now() with.
DbNow == now + Skew

\* Bound: instants after MaxTime are not told apart.
Clip(t) == IF t < MaxTime THEN t ELSE MaxTime

OutboxInit ==
    /\ jobs = <<>>
    /\ claim = [w \in Workers |-> NoPoll]
    /\ handled = {}
    /\ now = 0
    /\ crashes = 0
    /\ requeues = 0

-----------------------------------------------------------------------------
(* enqueue                                                                 *)

NewJob(key, payload, at) ==
    [key |-> key, payload |-> payload, at |-> at, status |-> "pending", attempts |-> 0]

HasKey(key) == key # NoKey /\ \E i \in Ids : jobs[i].key = key

\* INSERT ... ON CONFLICT (dedupe_key) DO NOTHING: an existing row with the
\* key is left as it is, whatever its status.
With(key, payload, at) ==
    IF HasKey(key) THEN jobs ELSE Append(jobs, NewJob(key, payload, at))

NewRows == {NewJob(key, payload, at) :
              key \in Keys \cup {NoKey}, payload \in Payloads, at \in 0..MaxTime}

\* The enqueues of one transaction, any number of them: new rows after the
\* old ones, each with a key that no row before it has.
Adds ==
    /\ jobs' \in Seq(JobRow)
    /\ Len(jobs) <= Len(jobs')
    /\ Len(jobs') <= MaxJobs
    /\ \A i \in Ids : jobs'[i] = jobs[i]
    /\ \A i \in Ids' \ Ids :
          /\ jobs'[i] \in NewRows
          /\ jobs'[i].key # NoKey => \A j \in 1..(i - 1) : jobs'[j].key # jobs'[i].key

Enqueue == Adds /\ UNCHANGED <<claim, handled, now, crashes, requeues>>

-----------------------------------------------------------------------------
(* pollOnce                                                                *)

\* Mutant: FOR UPDATE is missing, claimed rows are claimed again.
DueUnlocked == {i \in Ids : jobs[i].status = "pending" /\ jobs[i].at <= DbNow}

\* CLAIM_SQL: due, pending and not locked by another poll.
Due == {i \in Ids : /\ jobs[i].status = "pending"
                    /\ jobs[i].at <= DbNow
                    /\ \A w \in Workers : i \notin Held(w)}

\* ORDER BY available_at, id
Before(i, j) == jobs[i].at < jobs[j].at \/ (jobs[i].at = jobs[j].at /\ i <= j)

\* claimBatch: the first rows in that order, at most Batch of them.
ClaimBatch(w, rows) ==
    /\ Held(w) = {}
    /\ rows \subseteq Due
    /\ rows # {}
    /\ Cardinality(rows) <= Batch
    /\ rows # Due => Cardinality(rows) = Batch
    /\ \A i \in rows, j \in Due \ rows : Before(i, j)
    /\ claim' = [claim EXCEPT ![w] = [todo |-> rows, ok |-> {}, bad |-> {}, began |-> DbNow]]
    /\ UNCHANGED <<jobs, handled, now, crashes, requeues>>

\* The claimed row whose turn it is.
IsCurrent(w, i) == i \in claim[w].todo /\ \A j \in claim[w].todo : Before(i, j)

\* The handler of row i has returned (ok) or thrown.
Ran(w, i, ok) ==
    /\ IsCurrent(w, i)
    /\ claim' = [claim EXCEPT ![w] = [todo |-> @.todo \ {i},
                                      ok |-> IF ok THEN @.ok \cup {i} ELSE @.ok,
                                      bad |-> IF ok THEN @.bad ELSE @.bad \cup {i},
                                      began |-> @.began]]
    /\ handled' = IF ok THEN handled \cup {i} ELSE handled
    /\ UNCHANGED <<now, crashes, requeues>>

\* processClaimedJob with any handler; a handler may enqueue jobs itself.
RunHandler(w, i, ok) == Ran(w, i, ok) /\ UNCHANGED jobs

RunProducer(w, i) == Ran(w, i, TRUE) /\ Adds

\* computeBackoffDelay: doubles with every attempt, up to the cap.
Backoff(attempt) ==
    LET delay == BackoffBase * 2 ^ (attempt - 1)
    IN  IF delay < BackoffMax THEN delay ELSE BackoffMax

Delivered(job) == [job EXCEPT !.status = "delivered", !.attempts = @ + 1]

\* The last attempt dead-letters; an earlier one is retried after the
\* backoff, counted from the now() of the poll's transaction.
Failed(job, began) ==
    IF job.attempts + 1 >= MaxAttempts
    THEN [job EXCEPT !.status = "dead", !.attempts = @ + 1]
    ELSE [job EXCEPT !.attempts = @ + 1, !.at = Clip(began + Backoff(job.attempts + 1))]

\* COMMIT of the poll: all its outcomes at once.
CommitPoll(w) ==
    /\ Held(w) # {}
    /\ claim[w].todo = {}
    /\ jobs' = [i \in Ids |-> IF i \in claim[w].ok THEN Delivered(jobs[i])
                              ELSE IF i \in claim[w].bad
                                   THEN Failed(jobs[i], claim[w].began)
                              ELSE jobs[i]]
    /\ claim' = [claim EXCEPT ![w] = NoPoll]
    /\ UNCHANGED <<handled, now, crashes, requeues>>

\* The worker or its connection dies: the poll's transaction is rolled back,
\* the rows are unlocked and no attempt is counted.
Crash(w) ==
    /\ Held(w) # {}
    /\ crashes < MaxCrashes
    /\ crashes' = crashes + 1
    /\ claim' = [claim EXCEPT ![w] = NoPoll]
    /\ UNCHANGED <<jobs, handled, now, requeues>>

\* As good as new: pending, due now, with the whole budget.
Revived(job) == NewJob(job.key, job.payload, DbNow)

\* Mutant: the UPDATE does not ask for status = 'dead'.
RequeueAny(i) ==
    /\ requeues < MaxRequeues
    /\ jobs' = [jobs EXCEPT ![i] = Revived(jobs[i])]
    /\ requeues' = requeues + 1
    /\ UNCHANGED <<claim, handled, now, crashes>>

\* requeueDeadLetter, by an operator.
Requeue(i) ==
    /\ requeues < MaxRequeues
    /\ jobs[i].status = "dead"
    /\ jobs' = [jobs EXCEPT ![i] = Revived(jobs[i])]
    /\ requeues' = requeues + 1
    /\ UNCHANGED <<claim, handled, now, crashes>>

Tick ==
    /\ now < MaxTime
    /\ now' = now + 1
    /\ UNCHANGED <<jobs, claim, handled, crashes, requeues>>

-----------------------------------------------------------------------------
Poll(w) ==
    \/ \E rows \in SUBSET Due : ClaimBatch(w, rows)
    \/ \E i \in Ids, ok \in BOOLEAN : RunHandler(w, i, ok)
    \/ CommitPoll(w)

Produce == Enqueue \/ \E w \in Workers, i \in Ids : RunProducer(w, i)

OutboxNext ==
    \/ Tick
    \/ \E i \in Ids : Requeue(i)
    \/ \E w \in Workers : Crash(w)
    \/ \E w \in Workers : Poll(w)
    \/ Produce

OutboxSpec == OutboxInit /\ [][OutboxNext]_obvars

-----------------------------------------------------------------------------
(* Properties                                                              *)

\* The table, the polls and the counters have their types.
OutboxTypeOK ==
    /\ jobs \in Seq(JobRow)
    /\ claim \in [Workers -> PollRow]
    /\ handled \in SUBSET Nat
    /\ now \in Nat
    /\ crashes \in Nat
    /\ requeues \in Nat

\* RT-02: a row is in at most one poll, and while it is, nobody else changes
\* it: it is still pending and its outcome is still to be committed.
ExclusiveClaims ==
    \A w \in Workers : \A i \in Held(w) :
        /\ i \in Ids
        /\ jobs[i].status = "pending"
        /\ \A v \in Workers \ {w} : i \notin Held(v)

\* RT-02: at most one row ever exists per dedupe key.
OneRowPerKey ==
    \A i, j \in Ids : jobs[i].key = jobs[j].key /\ jobs[i].key # NoKey => i = j

\* FR-13, NFR-09: no row is marked delivered, in the table or by a poll that
\* is about to commit, although its handler never returned: neither a crash
\* in the middle of a batch nor a neighbour in the batch does that.
DeliveredWasHandled ==
    /\ \A i \in Ids : jobs[i].status = "delivered" => i \in handled
    /\ \A w \in Workers : claim[w].ok \subseteq handled

\* NFR-09: a row is dead-lettered exactly when its budget is used up, so a
\* pending row always has an attempt left.
BudgetExact ==
    \A i \in Ids :
        /\ jobs[i].status = "dead" => jobs[i].attempts = MaxAttempts
        /\ jobs[i].status = "pending" => jobs[i].attempts < MaxAttempts

\* The inductive invariant, whose parts need each other: rows and polls have
\* their types, claims are exclusive, keys unique, delivered means handled and
\* the budget is exact, whatever crashes, is redelivered or requeued.
OInv ==
    /\ OutboxTypeOK
    /\ ExclusiveClaims
    /\ OneRowPerKey
    /\ DeliveredWasHandled
    /\ BudgetExact

\* The committed table as a ledger of jobs.
Ledger == INSTANCE JobLedger WITH
    Jobs  <- 1..MaxJobs,
    fate  <- [i \in 1..MaxJobs |-> IF i \in Ids THEN jobs[i].status ELSE "absent"],
    tries <- [i \in 1..MaxJobs |-> IF i \in Ids THEN jobs[i].attempts ELSE 0]

\* RT-02, NFR-09: to everybody who reads the table a delivery has one outcome:
\* polls that run side by side, crash and are repeated look like one worker that
\* settles each job once, within its budget.
FollowsJobLedger == Ledger!LedgerSpec
=============================================================================
