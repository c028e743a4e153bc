----------------------------- MODULE JobLedger -----------------------------
(***************************************************************************)
(* What the outbox promises about a job, with no worker, poll, lock or     *)
(* crash in sight: a ledger of the outcomes of its deliveries.  A delivery *)
(* has one outcome, a job that is over stays over but for a requeue, and   *)
(* the budget of tries is neither exceeded nor given up early.             *)
(***************************************************************************)
EXTENDS Naturals

CONSTANTS Jobs, MaxAttempts

VARIABLES fate,   \* job -> what has become of it
          tries   \* job -> outcomes since it was enqueued or requeued

ledger == <<fate, tries>>

Fates == {"absent", "pending", "delivered", "dead"}

LedgerInit ==
    /\ fate \in [Jobs -> {"absent", "pending"}]
    /\ tries = [j \in Jobs |-> 0]

\* The job is enqueued.
Enter(j) ==
    /\ fate[j] = "absent" /\ fate'[j] = "pending"
    /\ tries'[j] = 0

\* A delivery of the job succeeds.
Succeed(j) ==
    /\ fate[j] = "pending" /\ fate'[j] = "delivered"
    /\ tries'[j] = tries[j] + 1

\* A delivery fails: there is another one while the budget lasts.
Fail(j) ==
    /\ fate[j] = "pending"
    /\ fate'[j] = IF tries[j] + 1 < MaxAttempts THEN "pending" ELSE "dead"
    /\ tries'[j] = tries[j] + 1

\* An operator requeues a dead letter.
Revive(j) ==
    /\ fate[j] = "dead" /\ fate'[j] = "pending"
    /\ tries'[j] = 0

Keep(j) == fate'[j] = fate[j] /\ tries'[j] = tries[j]

\* One transaction may settle several jobs, each in its own way.
LedgerNext ==
    /\ fate' \in [Jobs -> Fates]
    /\ tries' \in [Jobs -> Nat]
    /\ \A j \in Jobs : Enter(j) \/ Succeed(j) \/ Fail(j) \/ Revive(j) \/ Keep(j)

LedgerSpec == LedgerInit /\ [][LedgerNext]_ledger
=============================================================================
