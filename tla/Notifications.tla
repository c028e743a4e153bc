---------------------------- MODULE Notifications ----------------------------
(***************************************************************************)
(* The notification transport (modules/notifications) under the retry loop *)
(* of lib/resilience, and the two one-message outbox handlers that call    *)
(* it: bookingNotifications and emailVerification.                         *)
(*                                                                         *)
(* One outbox job is followed from its enqueue to its end.  The job is     *)
(* claimed by one poll at a time, but a worker whose poll connection is    *)
(* lost goes on running its handler while the job, unlocked, is claimed    *)
(* again: two handlers may then work on the same notification_attempts     *)
(* row.  A try that exceeds its time is abandoned, not stopped: its row    *)
(* write and its request to the provider may still land.                   *)
(***************************************************************************)
EXTENDS Naturals, FiniteSets

CONSTANTS Workers,      \* worker processes
          Own,          \* idempotency key of a one-message job
          Moderators,   \* idempotency keys of an alert's notices to moderators
          Contact,      \* idempotency key of an alert's emergency message
          RetryMax,     \* config.adapters.retryMax: retries after the first try
          MaxAttempts,  \* config.outbox.maxAttempts
          Adapter,      \* resolveAdapter('email'): "sendgrid" or "mock"
          MaxEdits,     \* bound on what users and moderators change meanwhile
          MaxFaults     \* bound on the crashes of workers, the failures of the
                        \* database and the poll connections lost while a
                        \* handler runs, together

ASSUME NotificationsAssumption ==
    /\ Own \notin Moderators
    /\ Contact \notin Moderators \cup {Own}
    /\ Adapter \in {"sendgrid", "mock"}
    /\ RetryMax \in Nat
    /\ MaxAttempts \in Nat \ {0}
    /\ MaxEdits \in Nat
    /\ MaxFaults \in Nat

VARIABLES kind,       \* the job's type
          job,        \* the outbox row
          owner,      \* the worker whose poll holds the row
          run,        \* the handler each worker is in
          row,        \* notification_attempts, by idempotency key
          reachable,  \* the recipient's account exists and has an address
          accepted,   \* keys of which the provider accepted a message
          edits,      \* changes by users and moderators so far
          faults,     \* crashes and failures of the database so far
          lost,       \* poll connections lost so far
          denied      \* what a failed statement kept the last delivery from:
                      \* "nothing", a "statement" of its way, or the "record"
                      \* of its failure

nvars == <<kind, job, owner, run, row, reachable, accepted,
           edits, faults, lost, denied>>

-----------------------------------------------------------------------------
Kinds == {"booking", "verify", "alert"}
Legs == {Own, Contact} \cup Moderators
Nobody == "nobody"

ASSUME NobodyAssumption == Nobody \notin Workers

\* Of attempt_count, only whether it is zero is told apart.
NoRow == [status |-> "absent", tried |-> FALSE]
Terminal == {"sent", "failed", "no_channel"}

Steps == {"idle", "load", "file", "mods", "pick", "begin", "resolve", "try", "flight",
          "settle", "returned", "nochannel", "deliver", "refuse", "end"}

Idle == [step |-> "idle", leg |-> Own, todo |-> {}, bad |-> FALSE, try |-> 0, late |-> 0,
         attempt |-> 0, contact |-> "none", raiser |-> FALSE,
         link |-> FALSE, ok |-> FALSE]

NotificationsInit ==
    /\ kind \in Kinds
    /\ job = [status |-> "absent", attempts |-> 0]
    /\ owner = Nobody
    /\ run = [w \in Workers |-> Idle]
    /\ row = [l \in Legs |-> NoRow]
    /\ reachable = TRUE
    /\ accepted = {}
    /\ edits = 0
    /\ faults = 0
    /\ lost = 0
    /\ denied = "nothing"

-----------------------------------------------------------------------------
(* The worker's side of a handler run                                      *)

\* register, resendVerificationEmail or a booking operation commits the job.
EnqueueMessage ==
    /\ kind # "alert"
    /\ job.status = "absent"
    /\ job' = [status |-> "pending", attempts |-> 0]
    /\ UNCHANGED <<kind, owner, run, row, reachable, accepted, edits, faults, lost, denied>>

\* The step a handler begins with: a safety alert is loaded first.
FirstStep == IF kind = "alert" THEN "load" ELSE "begin"

Claim(w) ==
    /\ job.status = "pending"
    /\ owner = Nobody
    /\ run[w].step = "idle"
    /\ owner' = w
    /\ run' = [run EXCEPT ![w] = [Idle EXCEPT !.step = FirstStep,
                                              !.attempt = job.attempts + 1]]
    /\ denied' = "nothing"
    /\ UNCHANGED <<kind, job, row, reachable, accepted, edits, faults, lost>>

\* processClaimedJob: delivered, retried or dead-lettered.  The worker that
\* lost its poll has nothing to commit.
Outcome(ok) ==
    [status |-> IF ok THEN "delivered"
                ELSE IF job.attempts + 1 >= MaxAttempts THEN "dead" ELSE "pending",
     attempts |-> job.attempts + 1]

Publish(w) ==
    /\ run[w].step = "end"
    /\ job' = IF owner = w THEN Outcome(run[w].ok) ELSE job
    /\ owner' = IF owner = w THEN Nobody ELSE owner
    /\ run' = [run EXCEPT ![w] = Idle]
    /\ UNCHANGED <<kind, row, reachable, accepted, edits, faults, lost, denied>>

\* The process dies; what its last statements wrote is settled before the
\* job is claimed again.
Crash(w) ==
    /\ run[w].step # "idle"
    /\ faults + lost < MaxFaults
    /\ faults' = faults + 1
    /\ owner' = IF owner = w THEN Nobody ELSE owner
    /\ run' = [run EXCEPT ![w] = Idle]
    /\ UNCHANGED <<kind, job, row, reachable, accepted, edits, lost, denied>>

\* The poll's connection is lost: the row is unlocked, the handler runs on.
LosePoll(w) ==
    /\ owner = w
    /\ faults + lost < MaxFaults
    /\ lost' = lost + 1
    /\ owner' = Nobody
    /\ UNCHANGED <<kind, job, run, row, reachable, accepted, edits, faults, denied>>

-----------------------------------------------------------------------------
(* transport.send                                                          *)

\* The address of an emergency contact is supplied by the handler.
Supplied(l) == l = Contact

Go(w, step) == run' = [run EXCEPT ![w].step = step]
GoWith(w, step, ok) == run' = [run EXCEPT ![w].step = step, ![w].ok = ok]

Created(l) == IF row[l] = NoRow THEN [status |-> "pending", tried |-> FALSE] ELSE row[l]

\* Mutant: an existing row is always sent again.
CreateAttemptNoDedupe(w) ==
    LET l == run[w].leg
    IN  /\ run[w].step = "begin"
        /\ row' = [row EXCEPT ![l] = Created(l)]
        /\ Go(w, "resolve")
        /\ UNCHANGED <<kind, job, owner, reachable, accepted, edits, faults, lost, denied>>

\* createAttempt, and the return for a key that was already sent.
CreateAttempt(w) ==
    LET l == run[w].leg
    IN  /\ run[w].step = "begin"
        /\ row' = [row EXCEPT ![l] = Created(l)]
        /\ IF row[l].status = "sent" THEN GoWith(w, "returned", TRUE) ELSE Go(w, "resolve")
        /\ UNCHANGED <<kind, job, owner, reachable, accepted, edits, faults, lost, denied>>

\* The address, looked up at send time for the adapter that needs one, and
\* the verification link.
ResolveRecipient(w) ==
    LET l == run[w].leg
        found == Adapter = "mock" \/ Supplied(l) \/ reachable
    IN  /\ run[w].step = "resolve"
        /\ run' = [run EXCEPT ![w].step = IF found THEN "try" ELSE "settle",
                              ![w].try = 0, ![w].ok = FALSE,
                              ![w].link = found /\ Adapter = "sendgrid" /\ kind = "verify"]
        /\ UNCHANGED <<kind, job, owner, row, reachable, accepted,
                       edits, faults, lost, denied>>

\* recordTry
Tried(r) == [status |-> IF r.tried THEN "retrying" ELSE r.status, tried |-> TRUE]

\* withResilience after a failed try: the next one, or the end of the loop.
AfterFailure(r, retryable) ==
    IF retryable /\ r.try < RetryMax + 1 THEN [r EXCEPT !.step = "try"]
    ELSE [r EXCEPT !.step = "settle", !.ok = FALSE]

\* A try writes the row first.  The write lands and the provider is called,
\* or the time is up while the write is on its way, or the write fails: then
\* the loop goes on as after a provider's failure.
StartTry(w) ==
    LET l == run[w].leg
        r == [run[w] EXCEPT !.try = @ + 1]
    IN  /\ run[w].step = "try"
        /\ \/ /\ row' = [row EXCEPT ![l] = Tried(@)]
              /\ run' = [run EXCEPT ![w] = [r EXCEPT !.step = "flight"]]
           \/ /\ run' = [run EXCEPT ![w] = AfterFailure([r EXCEPT !.late = @ + 1], TRUE)]
              /\ UNCHANGED row
           \/ /\ row' \in {row, [row EXCEPT ![l] = Tried(@)]}
              /\ run' = [run EXCEPT ![w] = AfterFailure(r, TRUE)]
        /\ UNCHANGED <<kind, job, owner, reachable, accepted, edits, faults, lost, denied>>

\* An abandoned call may have been, or may yet be, accepted.
MaybeAccepted(l) == accepted' \in {accepted, accepted \cup {l}}

\* The late write lands, and the abandoned try calls the provider after all;
\* or the write fails.
LateWrite(w) ==
    LET l == run[w].leg
    IN  /\ run[w].late > 0
        /\ \/ row' = [row EXCEPT ![l] = Tried(@)] /\ MaybeAccepted(l)
           \/ UNCHANGED <<row, accepted>>
        /\ run' = [run EXCEPT ![w].late = @ - 1]
        /\ UNCHANGED <<kind, job, owner, reachable, edits, faults, lost, denied>>

\* A verification message without its link is refused before the call.
NoLink(r) == Adapter = "sendgrid" /\ kind = "verify" /\ ~r.link

Accepted(w) ==
    LET l == run[w].leg
    IN  /\ run[w].step = "flight"
        /\ ~NoLink(run[w])
        /\ accepted' = accepted \cup {l}
        /\ GoWith(w, "settle", TRUE)
        /\ UNCHANGED <<kind, job, owner, row, reachable, edits, faults, lost, denied>>

\* A network error, a 5xx, 429 or 408 is retried, any other 4xx is not; the
\* mock transport knows no permanent refusal.
Refused(w, retryable) ==
    /\ run[w].step = "flight"
    /\ Adapter = "mock" => retryable
    /\ NoLink(run[w]) => ~retryable
    /\ run' = [run EXCEPT ![w] = AfterFailure(@, retryable)]
    /\ UNCHANGED <<kind, job, owner, row, reachable, accepted, edits, faults, lost, denied>>

\* TimeoutError: the try is given up while the provider may still accept it.
TimedOut(w) ==
    LET l == run[w].leg
    IN  /\ run[w].step = "flight"
        /\ MaybeAccepted(l)
        /\ run' = [run EXCEPT ![w] = AfterFailure(@, TRUE)]
        /\ UNCHANGED <<kind, job, owner, row, reachable, edits, faults, lost, denied>>

\* Mutant: markFailed does not wait for the writes of the tries.
MarkFailedAtOnce(w) ==
    LET l == run[w].leg
    IN  /\ run[w].step = "settle"
        /\ run[w].ok => run[w].late = 0
        /\ row' = [row EXCEPT ![l].status = IF run[w].ok THEN "sent" ELSE "failed"]
        /\ Go(w, "returned")
        /\ UNCHANGED <<kind, job, owner, reachable, accepted, edits, faults, lost, denied>>

\* Mutant: the row is marked sent whatever the loop ended with.
MarkResultSent(w) ==
    LET l == run[w].leg
    IN  /\ run[w].step = "settle"
        /\ run[w].late = 0
        /\ row' = [row EXCEPT ![l].status = "sent"]
        /\ Go(w, "returned")
        /\ UNCHANGED <<kind, job, owner, reachable, accepted, edits, faults, lost, denied>>

\* What markSent or markFailed makes of a row.
Closed(l, ok) == [row EXCEPT ![l].status = IF ok THEN "sent" ELSE "failed"]

\* settleTryWrites, then markSent or markFailed.
MarkResult(w) ==
    /\ run[w].step = "settle"
    /\ run[w].late = 0
    /\ row' = Closed(run[w].leg, run[w].ok)
    /\ Go(w, "returned")
    /\ UNCHANGED <<kind, job, owner, reachable, accepted, edits, faults, lost, denied>>

\* A failure of the database; that of two statements in a row, one that
\* counts once.
Denied(what) ==
    /\ denied = "nothing" => faults + lost < MaxFaults
    /\ faults' = IF denied = "nothing" THEN faults + 1 ELSE faults
    /\ denied' = what

\* A statement of send fails, its effect done or not: send throws, and so
\* does the handler.  Only that of an alert has something to write first.
SendThrows(w) ==
    LET l == run[w].leg
    IN  /\ \/ run[w].step = "begin" /\ row' \in {row, [row EXCEPT ![l] = Created(l)]}
           \/ /\ run[w].step = "resolve"
              /\ Adapter = "sendgrid" /\ ~Supplied(l)
              /\ UNCHANGED row
           \/ /\ run[w].step = "settle"
              /\ run[w].late = 0
              /\ row' \in {row, Closed(l, run[w].ok)}
        /\ GoWith(w, IF kind = "alert" THEN "refuse" ELSE "end", FALSE)
        /\ Denied("statement")
        /\ UNCHANGED <<kind, job, owner, reachable, accepted, edits, lost>>

Send(w) ==
    \/ CreateAttempt(w)
    \/ ResolveRecipient(w)
    \/ StartTry(w)
    \/ Accepted(w)
    \/ \E retryable \in BOOLEAN : Refused(w, retryable)
    \/ TimedOut(w)
    \/ MarkResult(w)

-----------------------------------------------------------------------------
(* The one-message handlers: anything but 'sent' is thrown to the worker   *)

BookingNotification(w) ==
    /\ kind = "booking"
    /\ run[w].step = "returned"
    /\ Go(w, "end")
    /\ UNCHANGED <<kind, job, owner, row, reachable, accepted, edits, faults, lost, denied>>

EmailVerification(w) ==
    /\ kind = "verify"
    /\ run[w].step = "returned"
    /\ Go(w, "end")
    /\ UNCHANGED <<kind, job, owner, row, reachable, accepted, edits, faults, lost, denied>>

Edit == edits < MaxEdits /\ edits' = edits + 1

\* The recipient's account is erased.
RecipientErased ==
    /\ reachable
    /\ Edit
    /\ reachable' = FALSE
    /\ UNCHANGED <<kind, job, owner, run, row, accepted, faults, lost, denied>>

-----------------------------------------------------------------------------
WorkerStep(w) ==
    \/ Claim(w)
    \/ Publish(w)
    \/ Send(w)
    \/ LateWrite(w)
    \/ BookingNotification(w)
    \/ EmailVerification(w)

Environment ==
    \/ \E w \in Workers : Crash(w) \/ LosePoll(w) \/ SendThrows(w)
    \/ RecipientErased
    \/ EnqueueMessage

-----------------------------------------------------------------------------
\* The one job as a ledger.
Ledger == INSTANCE JobLedger WITH
    Jobs <- {1}, fate <- [j \in {1} |-> job.status], tries <- [j \in {1} |-> job.attempts]

\* RT-02, NFR-09: the job of a message or an alert is one of the outbox: also when a
\* handler outlives its poll and another runs, a delivery has one outcome.
FollowsJobLedger == Ledger!LedgerSpec
=============================================================================
