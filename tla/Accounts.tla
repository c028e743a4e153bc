------------------------------ MODULE Accounts ------------------------------
(***************************************************************************)
(* One account: registration, the verification of its address, the login   *)
(* limiter and the sessions (modules/auth), the profile and its persisted  *)
(* eligibility flags (modules/users, modules/eligibility), and the request *)
(* that deletes it (modules/privacy).                                      *)
(*                                                                         *)
(* A request is a process of several steps: a Redis command, or a          *)
(* statement of a READ COMMITTED transaction.  Of a transaction, only its  *)
(* own reads see what it wrote before it commits.                          *)
(***************************************************************************)
EXTENDS Naturals, FiniteSets

CONSTANTS Procs,        \* requests served at the same time
          Tokens,       \* verification links that may be minted
          LoginMax,     \* config.auth.loginMaxAttempts
          IpMultiplier, \* IP_ATTEMPT_MULTIPLIER
          ResendMax,    \* RESEND_MAX_ATTEMPTS
          MaxRequests,  \* bound on the logins, profile updates and deletions
          MaxExpired,   \* bound on the links that expire unused
          MaxDead       \* bound on the verification jobs that are dead-lettered

ASSUME AccountsAssumption ==
    /\ LoginMax \in Nat \ {0}
    /\ IpMultiplier \in Nat \ {0}
    /\ ResendMax \in Nat \ {0}
    /\ MaxRequests \in Nat
    /\ MaxExpired \in Nat
    /\ MaxDead \in Nat

VARIABLES account,   \* the users row and its host_profiles row
          flags,     \* can_reserve_seat, can_publish_listing
          req,       \* the request each process serves
          rowLock,   \* who has the users row locked
          hostLock,  \* who has the host_profiles row locked
          fails,     \* ratelimit:login:acct
          ipFails,   \* ratelimit:login:ip
          guesses,   \* passwords compared since that counter was last cleared
          resends,   \* ratelimit:verify-resend:acct
          sessions,  \* live session records
          jobs,      \* pending and dead 'email.verification' jobs
          token,     \* state of every verification link
          overtaken, \* a commit came between a recomputation and its write
          swept,     \* a sweep of the sessions has come to its end
          racing,    \* logins that had found the account alive when it was
                     \* marked deleted, and had made no session yet
          started,   \* requests so far
          expired    \* links expired so far

row == <<account, flags, overtaken>>
locks == <<rowLock, hostLock>>
limiter == <<fails, ipFails, guesses>>
mail == <<resends, jobs, token, expired>>
sess == <<sessions, swept, racing>>
vars == <<row, locks, limiter, mail, req, sess, started>>

-----------------------------------------------------------------------------
NoOne == "no one"

ASSUME ProcsAssumption == IsFiniteSet(Procs) /\ NoOne \notin Procs

\* basic: full name and phone are there; host: bio and host agreement are.
NoAccount == [registered |-> FALSE, deleted |-> FALSE, verified |-> FALSE,
              basic |-> FALSE, host |-> FALSE]

Attributes == {"verified", "basic", "host"}

\* What a profile update changes: columns of users, the host profile or both.
Patches == {"set", "clear", "host", "both"}
HasColumns(patch) == patch \in {"set", "clear", "both"}
HasHost(patch) == patch \in {"host", "both"}

NoRequest == [op |-> "none", step |-> "idle", patch |-> "none", writes |-> <<>>,
              reserve |-> FALSE, publish |-> FALSE]

Init ==
    /\ account = NoAccount
    /\ flags = [reserve |-> FALSE, publish |-> FALSE]
    /\ req = [p \in Procs |-> NoRequest]
    /\ rowLock = NoOne
    /\ hostLock = NoOne
    /\ fails = 0
    /\ ipFails = 0
    /\ guesses = 0
    /\ resends = 0
    /\ sessions = 0
    /\ jobs = [pending |-> 0, dead |-> 0]
    /\ token = [t \in Tokens |-> "unborn"]
    /\ overtaken = FALSE
    /\ swept = FALSE
    /\ racing = 0
    /\ started = 0
    /\ expired = 0

-----------------------------------------------------------------------------
(* The eligibility policy                                                  *)

\* getEligibilityAttributes: nothing for an account that is gone.
Snapshot(a) == IF a.registered /\ ~a.deleted THEN {x \in Attributes : a[x]} ELSE {}

\* reasonsFor: what is missing for an action.
Reasons(a, action) ==
    (IF action = "publish" THEN Attributes ELSE {"verified", "basic"}) \ Snapshot(a)

CanReserveSeat(a) == Reasons(a, "reserve") = {}
CanPublishListing(a) == Reasons(a, "publish") = {}

-----------------------------------------------------------------------------
(* Registration and verification                                           *)

\* register: the account, a token and the job, in one transaction; the raw
\* form of that token is never mailed.  A second account for the address is
\* refused by the unique constraint.
Register ==
    /\ ~account.registered
    /\ account' = [NoAccount EXCEPT !.registered = TRUE]
    /\ flags' = [reserve |-> FALSE, publish |-> FALSE]
    /\ jobs' = [jobs EXCEPT !.pending = @ + 1]
    /\ UNCHANGED <<locks, limiter, req, resends, sess, token, overtaken, started,
                   expired>>

\* findByEmail, and the checks of its row that every request makes.
LiveAccount == account.registered /\ ~account.deleted

\* rateLimit.checkResend
ResendLimited == resends >= ResendMax

\* Mutant: the job's dedupe key names the account, so a dead job of it keeps
\* the new one out.
ResendSuppressed ==
    /\ ~ResendLimited
    /\ resends' = resends + 1
    /\ jobs' = IF LiveAccount /\ ~account.verified /\ jobs.dead = 0
               THEN [jobs EXCEPT !.pending = 1] ELSE jobs
    /\ UNCHANGED <<row, locks, limiter, req, sess, token, started, expired>>

\* resendVerificationEmail: counted whether or not there is an account; the
\* new job has a key of its own.  The check and the count are taken as one
\* step (the race between them is that of login).  Bound: one pending job
\* stands for several.
Resend ==
    /\ ~ResendLimited
    /\ resends' = resends + 1
    /\ jobs' = IF LiveAccount /\ ~account.verified
               THEN [jobs EXCEPT !.pending = 1] ELSE jobs
    /\ UNCHANGED <<row, locks, limiter, req, sess, token, started, expired>>

\* The window of the resend counter ends.
ResendWindowEnds ==
    /\ resends > 0
    /\ resends' = 0
    /\ UNCHANGED <<row, locks, limiter, req, sess, jobs, token, started, expired>>

\* The worker mails a link it mints for the occasion (createVerificationLink).
DeliverLink(t) ==
    /\ jobs.pending > 0
    /\ token[t] = "unborn"
    /\ jobs' = [jobs EXCEPT !.pending = @ - 1]
    /\ token' = [token EXCEPT ![t] = "live"]
    /\ UNCHANGED <<row, locks, limiter, req, resends, sess, started, expired>>

\* The provider is down for longer than the job's budget.
DeadLetter ==
    /\ jobs.pending > 0
    /\ jobs.dead < MaxDead
    /\ jobs' = [pending |-> jobs.pending - 1, dead |-> jobs.dead + 1]
    /\ UNCHANGED <<row, locks, limiter, req, resends, sess, token, started, expired>>

Expire(t) ==
    /\ token[t] = "live"
    /\ expired < MaxExpired
    /\ expired' = expired + 1
    /\ token' = [token EXCEPT ![t] = "expired"]
    /\ UNCHANGED <<row, locks, limiter, req, resends, sess, jobs, started>>

-----------------------------------------------------------------------------
(* Transactions on the users row                                           *)

\* What p reads: the committed row under its own writes.
Seen(p) == [a \in DOMAIN account |->
              IF a \in DOMAIN req[p].writes THEN req[p].writes[a] ELSE account[a]]

Write(p, a, v) ==
    [x \in DOMAIN req[p].writes \cup {a} |-> IF x = a THEN v ELSE req[p].writes[x]]

Free(lock, p) == lock \in {NoOne, p}

\* A link is followed: GET or POST verify-email.  The UPDATE that consumes
\* the token locks it, so a second request for it waits or finds it used.
ConsumeToken(p, t) ==
    /\ req[p].step = "idle"
    /\ token[t] = "live"
    /\ token' = [token EXCEPT ![t] = "used"]
    /\ req' = [req EXCEPT ![p] = [NoRequest EXCEPT !.op = "verify", !.step = "mark"]]
    /\ UNCHANGED <<row, locks, limiter, resends, sess, jobs, started, expired>>

\* Mutant: nothing is recomputed after the address is verified.
MarkVerifiedOnly(p) ==
    /\ req[p].step = "mark"
    /\ Free(rowLock, p)
    /\ account' = [account EXCEPT !.verified = TRUE]
    /\ req' = [req EXCEPT ![p] = NoRequest]
    /\ UNCHANGED <<locks, limiter, mail, flags, sess, overtaken, started>>

MarkEmailVerified(p) ==
    /\ req[p].step = "mark"
    /\ Free(rowLock, p)
    /\ rowLock' = p
    /\ req' = [req EXCEPT ![p].step = "evaluate", ![p].writes = Write(p, "verified", TRUE)]
    /\ UNCHANGED <<row, limiter, mail, hostLock, sess, started>>

\* PATCH /api/users/me
BeginUpdate(p, patch) ==
    /\ req[p].step = "idle"
    /\ started < MaxRequests
    /\ LiveAccount
    /\ started' = started + 1
    /\ req' = [req EXCEPT ![p] = [NoRequest EXCEPT !.op = "update", !.patch = patch,
                                    !.step = IF HasColumns(patch) THEN "columns" ELSE "host"]]
    /\ UNCHANGED <<row, locks, limiter, mail, sess>>

UpdateColumns(p) ==
    /\ req[p].step = "columns"
    /\ Free(rowLock, p)
    /\ rowLock' = p
    /\ req' = [req EXCEPT ![p].writes = Write(p, "basic", req[p].patch # "clear"),
                          ![p].step = IF HasHost(req[p].patch) THEN "host" ELSE "evaluate"]
    /\ UNCHANGED <<row, limiter, mail, hostLock, sess, started>>

UpsertHostProfile(p) ==
    /\ req[p].step = "host"
    /\ Free(hostLock, p)
    /\ hostLock' = p
    /\ req' = [req EXCEPT ![p].writes = Write(p, "host", TRUE), ![p].step = "evaluate"]
    /\ UNCHANGED <<row, limiter, mail, rowLock, sess, started>>

\* recomputeEligibility, its reads ...
Evaluate(p) ==
    /\ req[p].step = "evaluate"
    /\ req' = [req EXCEPT ![p].reserve = CanReserveSeat(Seen(p)),
                          ![p].publish = CanPublishListing(Seen(p)),
                          ![p].step = "persist"]
    /\ UNCHANGED <<row, locks, limiter, mail, sess, started>>

\* Another transaction has recomputed already, without holding the row.
Overtakes(p) == \E q \in Procs \ {p} : req[q].step = "persist" /\ rowLock # q

\* ... its write, which needs the row, and the COMMIT.
PersistFlags(p) ==
    /\ req[p].step = "persist"
    /\ Free(rowLock, p)
    /\ account' = Seen(p)
    /\ flags' = [reserve |-> req[p].reserve, publish |-> req[p].publish]
    /\ overtaken' = (overtaken \/ Overtakes(p))
    /\ rowLock' = NoOne
    /\ hostLock' = IF hostLock = p THEN NoOne ELSE hostLock
    /\ req' = [req EXCEPT ![p] = NoRequest]
    /\ UNCHANGED <<limiter, mail, sess, started>>

\* PostgreSQL aborts one of two transactions that wait for each other.
DeadlockAbort(p, q) ==
    /\ p # q
    /\ rowLock = p /\ req[p].step = "host" /\ hostLock = q
    /\ req[q].step = "persist"
    /\ \E victim \in {p, q} :
          /\ rowLock' = IF victim = p THEN NoOne ELSE rowLock
          /\ hostLock' = IF victim = q THEN NoOne ELSE hostLock
          /\ req' = [req EXCEPT ![victim] = NoRequest]
    /\ UNCHANGED <<row, limiter, mail, sess, started>>

-----------------------------------------------------------------------------
(* Login, logout, deletion                                                 *)

\* Mutant: one more attempt than configured is let through.
LimitedLate == fails > LoginMax \/ ipFails > LoginMax * IpMultiplier

\* rateLimit.check
Limited == fails >= LoginMax \/ ipFails >= LoginMax * IpMultiplier

\* A login that is not limited goes on to the password.
BeginLogin(p) ==
    /\ req[p].step = "idle"
    /\ started < MaxRequests
    /\ ~Limited
    /\ started' = started + 1
    /\ req' = [req EXCEPT ![p] = [NoRequest EXCEPT !.op = "login", !.step = "password"]]
    /\ UNCHANGED <<row, locks, limiter, mail, sess>>

\* The account is read and the password compared; without an account, or
\* with a deleted one, against a dummy.
VerifyPassword(p, right) ==
    /\ req[p].step = "password"
    /\ right => LiveAccount
    /\ guesses' = guesses + 1
    /\ req' = [req EXCEPT ![p].step = IF right THEN "reset" ELSE "record"]
    /\ UNCHANGED <<row, locks, mail, fails, ipFails, sess, started>>

\* recordFailure, for unknown accounts too.
RecordFailure(p) ==
    /\ req[p].step = "record"
    /\ fails' = fails + 1
    /\ ipFails' = ipFails + 1
    /\ req' = [req EXCEPT ![p] = NoRequest]
    /\ UNCHANGED <<row, locks, mail, guesses, sess, started>>

\* resetAccount: the counter of the address, not that of the source.
ResetAccount(p) ==
    /\ req[p].step = "reset"
    /\ fails' = 0
    /\ guesses' = 0
    /\ req' = [req EXCEPT ![p].step = "session"]
    /\ UNCHANGED <<row, locks, mail, ipFails, sess, started>>

\* createSession, then touchLastActive and the cookie.
CreateSession(p) ==
    /\ req[p].step = "session"
    /\ sessions' = sessions + 1
    /\ req' = [req EXCEPT ![p] = NoRequest]
    /\ UNCHANGED <<row, locks, limiter, mail, swept, racing, started>>

\* The keys of the limiter expire, each with the window of its first failure.
LoginWindowEnds ==
    \/ /\ fails > 0
       /\ fails' = 0
       /\ guesses' = 0
       /\ UNCHANGED <<row, locks, mail, req, ipFails, sess, started>>
    \/ /\ ipFails > 0
       /\ ipFails' = 0
       /\ UNCHANGED <<row, locks, mail, req, fails, guesses, sess, started>>

\* Logout deletes the record; so does its TTL.
EndSession ==
    /\ sessions > 0
    /\ sessions' = sessions - 1
    /\ UNCHANGED <<row, locks, limiter, mail, req, swept, racing, started>>

\* A login that has found the account alive will make a session.
Entering == {p \in Procs : req[p].step \in {"reset", "session"}}

\* DELETE /api/users/me: the mark is committed ...
MarkDeleted(p) ==
    /\ req[p].step = "idle"
    /\ started < MaxRequests
    /\ sessions > 0
    /\ account.registered
    /\ rowLock = NoOne
    /\ started' = started + 1
    /\ account' = [account EXCEPT !.deleted = TRUE]
    /\ req' = [req EXCEPT ![p] = [NoRequest EXCEPT !.op = "delete", !.step = "sweep"]]
    /\ racing' = IF account.deleted THEN racing ELSE Cardinality(Entering)
    /\ UNCHANGED <<locks, limiter, mail, flags, sessions, swept, overtaken>>

\* Mutant: the sessions are left to expire.
DestroyNoSession(p) ==
    /\ req[p].step = "sweep"
    /\ swept' = TRUE
    /\ req' = [req EXCEPT ![p] = NoRequest]
    /\ UNCHANGED <<row, locks, limiter, mail, sessions, racing, started>>

\* ... and the sessions of the account are destroyed.
DestroySessions(p) ==
    /\ req[p].step = "sweep"
    /\ sessions' = 0
    /\ swept' = TRUE
    /\ req' = [req EXCEPT ![p] = NoRequest]
    /\ UNCHANGED <<row, locks, limiter, mail, racing, started>>

\* Redis fails on the way: the deletion stays committed, and what the sweep
\* has not come to lives on, until its TTL or until the user asks again.
SweepFails(p) ==
    /\ req[p].step = "sweep"
    /\ sessions' \in 0..sessions
    /\ req' = [req EXCEPT ![p] = NoRequest]
    /\ UNCHANGED <<row, locks, limiter, mail, swept, racing, started>>

-----------------------------------------------------------------------------
Serve(p) ==
    \/ MarkEmailVerified(p)
    \/ UpdateColumns(p)
    \/ UpsertHostProfile(p)
    \/ Evaluate(p)
    \/ PersistFlags(p)
    \/ \E right \in BOOLEAN : VerifyPassword(p, right)
    \/ RecordFailure(p)
    \/ ResetAccount(p)
    \/ CreateSession(p)
    \/ DestroySessions(p)
    \/ SweepFails(p)

Arrive(p) ==
    \/ \E patch \in Patches : BeginUpdate(p, patch)
    \/ BeginLogin(p)
    \/ MarkDeleted(p)

Next ==
    \/ Register
    \/ Resend
    \/ ResendWindowEnds
    \/ \E t \in Tokens : DeliverLink(t) \/ Expire(t)
    \/ DeadLetter
    \/ LoginWindowEnds
    \/ EndSession
    \/ \E p \in Procs : Arrive(p) \/ Serve(p) \/ \E t \in Tokens : ConsumeToken(p, t)
    \/ \E p, q \in Procs : DeadlockAbort(p, q)

Spec == Init /\ [][Next]_vars

(* A request that was taken up is served, PostgreSQL breaks deadlocks and  *)
(* windows end.  The verification mail gets through if it is tried often   *)
(* enough, and its addressee asks again and follows a link in the end.     *)
FairSpec ==
    /\ Spec
    /\ \A p \in Procs : WF_vars(Serve(p))
    /\ \A p, q \in Procs : WF_vars(DeadlockAbort(p, q))
    /\ WF_vars(ResendWindowEnds)
    /\ WF_vars(Resend)
    /\ SF_vars(\E t \in Tokens : DeliverLink(t))
    /\ SF_vars(\E p \in Procs, t \in Tokens : ConsumeToken(p, t))

-----------------------------------------------------------------------------
(* Properties                                                              *)

\* The account, the requests and the counters have their types.
TypeOK ==
    /\ account \in [{"registered", "deleted", "verified", "basic", "host"} -> BOOLEAN]
    /\ flags \in [reserve : BOOLEAN, publish : BOOLEAN]
    /\ rowLock \in Procs \cup {NoOne}
    /\ hostLock \in Procs \cup {NoOne}
    /\ \A p \in Procs : DOMAIN req[p].writes \subseteq Attributes
    /\ {fails, ipFails, guesses, sessions, jobs.pending, jobs.dead} \subseteq Nat
    /\ resends \in 0..ResendMax
    /\ token \in [Tokens -> {"unborn", "live", "used", "expired"}]

\* NFR-05: the check and the count of a failed login are two commands, so
\* logins that run together slip past the limit, but no more than those.
GuessesBounded == guesses <= LoginMax + Cardinality(Procs) - 1

\* NFR-06: at any time the persisted flags say what the policy says of the
\* persisted attributes, unless a recomputation that did not hold the row (a
\* patch of the host profile alone) was overtaken by a commit.
FlagsMatchPolicy ==
    account.registered /\ ~account.deleted /\ ~overtaken =>
        /\ flags.reserve = CanReserveSeat(account)
        /\ flags.publish = CanPublishListing(account)

\* AB-05: once a sweep has come to its end, no session of the deleted account
\* is alive but those of the logins that had found it alive before it was
\* marked deleted: none at all if there was no such login.  (One that fails
\* half way leaves what it had not come to, privacy/service.js:137.)
NoSessionSurvives ==
    account.deleted /\ swept => sessions <= racing

\* FR-10, TCBV2-03: a registered account is verified in the end, although
\* mails are dead-lettered and links expire, unless it is deleted first.
NeverStranded == account.registered ~> (account.verified \/ account.deleted)
=============================================================================
