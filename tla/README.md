# Homeplate: TLA+ models, checks and proofs

Homeplate lets home cooks offer seats at meals and guests book them. The server
is a Node/Express monolith (`src/src`) on PostgreSQL (READ COMMITTED), with Redis
for sessions, counters and caches, and a *transactional outbox*: work that leaves
the database (e-mail, moderation, geocoding, promotion at the start of a meal,
erasure) is a row written in the same transaction as its cause and delivered
later, at least once, by polling workers. A React client (`src/client`) talks to
it over HTTP with a session cookie it cannot read.

This directory models the parts in which several transactions, workers, clocks,
requests or people interleave, checks them with TLC on small instances and proves
the central safety properties with TLAPS for instances of any size.

## 1. Inventory

| Component | State | Operations | Hard behaviour | What makes it correct |
|---|---|---|---|---|
| Bookings (`modules/bookings`) | `bookings`, `listings.seats_remaining` | create, cancel, confirm completion, promote | row and advisory locks, now() at BEGIN, rollbacks, deadlocks | never oversold, no leaked seat, pending cap |
| Listings (`modules/listings`) | `listings` | create, update, cancel | cascade to bookings, recomputed seats, rescheduled promotions | a cancelled listing has no live booking; each booking told once |
| MEHKO caps (`listings/mehko.js`, client `mealTime.js`) | none: sums over `listings` | check before insert and update; wall clock to instant | check-then-act over several rows, nights the clocks change | one listing per day, meals per day and per week; a meal starts when its form says |
| Outbox (`src/outbox`) | `outbox_jobs` | enqueue, claim, handle, commit, requeue | SKIP LOCKED, crashes, backoff, dead letters | unique keys, exclusive claims, exact retry budget |
| Promotion (`bookings/lifecycle.js`, `bookingPromote.js`) | `booking.promote` rows | schedule, reschedule, secure, promote | two clocks, dedupe onto a row being delivered | a pending booking always has a job for its start |
| Moderation (`modules/moderation`), reviews, messages | `moderation_status`, records, queue | submit, scan, escalate, decide, edit, post | text and booking read before an await and used after it | nothing unreviewed is public, nothing is forgotten |
| Geocoding (`listingGeocode.js`) | `listings` location columns | job handler | address read before Maps is awaited | location belongs to the address |
| Notifications (`modules/notifications`) | `notification_attempts` | create the attempt, resolve, try, mark | abandoned tries, redelivery, handlers that outlive their poll | the row says what happened; sent once is not tried again |
| Safety alerts (`modules/safety`) | `safety_alerts`, queue entry | raise, escalate, deliver | independent legs, retries, terminal failure | filed first, settles, never reads delivered unaccepted |
| Privacy (`modules/privacy`, `modules/media`) | `privacy_requests`, all user data, stored objects | delete, export, inactivity sweep, notice, erase | two-phase erasure across jobs, tables and storage | requests settle; erased data is gone |
| Auth, users, eligibility (`modules/auth`, `users`, `eligibility`) | Redis sessions and counters, `users`, tokens, flags | register, verify, resend, login, logout, patch, delete | counters read and written apart, recomputed flags, row locks | limits, flags that follow the policy, nobody stranded |
| Search (`modules/search`, `lib/cache.js`, Maps cache) | page and area caches in Redis | search | cached answers after a change, provider and Redis outages | staleness bounded, outages flagged |
| Web client (`client/src`) | session store, page state, requests in flight | page effects, buttons, polls | answers in any order, lost or late; StrictMode | a page shows the answer to what it asks |
| Database access, resilience, adapters | connections, retry loops | I/O | timeouts, pool of ten | failures are those of the callers' modules |
| HTTP edge, schemas, logging, configuration | none that others rely on | validation, formatting | - | - |

Components call each other inside one database transaction (bookings, listings,
moderation, `enqueue`) or through outbox rows (everything asynchronous). Redis is
shared by login, sessions and search. There is no other channel: no in-process
queue and no shared memory between requests.

## 2. Modules

    SeatLedger <--implements-- Bookings <--EXTENDS-- BookingsProofs
    JobLedger <--implements-- Outbox, Notifications, Privacy, Geocode
    Outbox <--EXTENDS, implements-- Promotion <--EXTENDS-- PromotionProofs
    Notifications <--EXTENDS-- SafetyAlert <--EXTENDS-- SafetyAlertProofs
    Moderation <--EXTENDS-- ModerationProofs
    Accounts <--EXTENDS-- AccountsProofs
    Privacy <--EXTENDS-- PrivacyProofs
    Mehko, Geocode <--EXTENDS-- ListingProofs
    Discovery, Client <--EXTENDS-- DiscoveryProofs

Each of Bookings, Promotion, SafetyAlert, Moderation, Accounts, Privacy, Mehko,
Geocode, Discovery and Client has an `MC` module that names its instance and a
`.cfg`. The proof modules hold the inductive invariants. Two of them prove about two
modules each, whose definitions have different names for this (`GeocodeSpec`,
`TabSpec`).

**Bookings** is the core. Each service call is a transaction on a connection
(`txn[t]`), cut into one action per statement that can block, fail or observe
another transaction: `Create*` is `createBooking` (advisory lock of the guest,
the checks, the conditional decrement that locks the listing row, insert and
outbox rows at COMMIT); `Cancel*` is `cancelBooking` (booking row, then listing
row); `Confirm*` is `confirmCompletion`; `Promote*` is `promoteDueBooking`;
`Drop*` is `cancelListing` with its cascade; `Edit*` is `updateListing`
(capacity, start, back to moderation). `SetModerationStatus` and `ScrubListings`
are what moderation and erasure do to the listing row. `owner` is the lock
table; `WaitsFor` and `DeadlockAbort` are PostgreSQL's deadlock detector;
`Rollback` is an error in any statement or a lost connection. A version of a row
that is written but not committed lives in `txn[t].row`. `told` records the
committed booking notifications. A transaction's now() is the instant it began;
`Date.now()` is the clock of the moment.

**SeatLedger** is the abstract promise: capacity, free seats and seated bookings
per listing, changed by atomic Reserve, GiveBack, Finish, Resize and Close.
Bookings implements it with the mapping at the end of `Bookings.tla`.

**Outbox** is the table, the workers and their polls. `ClaimBatch` is
`SELECT ... FOR UPDATE SKIP LOCKED LIMIT n` ordered by due time; `RunHandler` and
`RunProducer` run one handler (outside the poll's transaction, so its effects
survive a crash); `CommitPoll` publishes all outcomes of the batch at once
(`Delivered`, `Failed` with backoff or dead letter); `Crash` rolls the poll back;
`Requeue` is the operator's `requeueDeadLetter`. `Enqueue` is a transaction that
commits any number of new rows: a listing with several pending bookings is
rescheduled in one.

**JobLedger** is the abstract promise about jobs: `Enter`, `Succeed`, `Fail` (once more
while the budget of tries lasts, then dead) and `Revive`, with no worker, poll, lock or
crash. Outbox implements it (`FollowsJobLedger`). Geocode, Notifications and Privacy
have shorter workers of their own, with one job per poll and no backoff, and implement
the same ledger, which is proved of each of them: what they leave out of the outbox
does not change what becomes of a job. Moderation counts its scan jobs instead of
naming them and has no such mapping.

**Promotion** extends Outbox with the `booking.promote` handler, in the three steps at
which another transaction may act (read, lock, write), the rescheduling of
`updateListing`, the securing of a replacement row for an early delivery, and a
database clock ahead of Node's by at most `Skew`. `OutboxView` states that what
it does to the table is what Outbox allows; Outbox is checked through it.

**Mehko**: `assertWithinCaps` and the later insert or update as separate steps of a
transaction, plus the partial unique index (host, service day). `LocalDate` and
`WeekStart` are the code's calendar arithmetic on instants; `WallClockToInstant`
is the client's two-step search for the instant of a typed time. Starts are hours
since 1970 and `Offset` is the zone's offset at each of them. The properties use
the wall clock only (`Midnight`, `Monday`), so they check that arithmetic.

**Moderation**: listings, reviews and messages, versions standing for texts, scan
jobs, the queue, moderators who decide on what they were shown, and the booking
that reviews and messages belong to, read by `FindBooking` without a lock before
the insert. **Geocode**: the handler's read, call and write against address changes;
`overlap` is a history variable: since the last move a delivery began while another
was under way.

**Notifications** is `send` with its `notification_attempts` row under one outbox
job: the deduplicating insert (`CreateAttempt`), the recipient looked up,
`withResilience`'s tries (`StartTry`, `Accepted`, `Refused`, `TimedOut` - which
abandons a try whose late write, `LateWrite`, may still land), the terminal write
(`MarkResult`), and the outcome the poll publishes. `SendThrows` is a statement of
`send` that fails, its effect done or not, and so ends the delivery; `denied` records
what failed last. `LosePoll` is a poll whose connection is lost while the handler goes
on, so that a second handler may run.
**SafetyAlert** adds the alert's own table and queue entry and the handler that
files, announces to moderators and sends to the emergency contact, each leg being
a `send`. A statement that fails on the way (`StatementFails`) leads to the handler's
catch, which records it; loading the alert and that record are outside any try
(`RecordFails`). A job of any kind (booking message, verification mail, alert) is an
initial state of the same specification.

**Accounts** is one account with two requests served at once. A request is a
sequence of Redis commands and SQL statements: `BeginLogin`, `VerifyPassword`,
`RecordFailure`, `ResetAccount`, `CreateSession`; `ConsumeToken`,
`MarkEmailVerified`; `BeginUpdate`, `UpdateColumns`, `UpsertHostProfile`,
`Evaluate`, `PersistFlags`; `MarkDeleted`, then `DestroySessions` or, when Redis fails
on the way, `SweepFails`. `racing` counts the logins that had found the account alive
when it was marked. `req[p].writes` is what an open transaction wrote and only it sees. `Reasons`, `CanReserveSeat` and
`CanPublishListing` are `eligibility/policy.js`.

**Privacy** is one user, the user's data requests and their jobs. `InactivitySweep`
and `RequestDeletion` open requests; `Phase` is the dispatch of the
account-erasure handler; `SendNotice`, `MergeDetail` and `EnqueueFinal` are the
first phase, `ListMedia`, `DeleteByKey`, `RemoveById`, `EraseAccount`,
`DestroySessions` the second; `CollectExport` and `StoreExport` are the export.
`held` is which tables still hold personal data. Whoever else writes to them has read
before that it may (`Begin`, `May`) and writes by id later (`Write`, `Login`): a login, a
profile update, a message, review or alert, a new listing, the link of a verification
mail, the coordinates of a geocode job. `late` marks what was written behind the
erasure's back, `cut` the deliveries that were interrupted after the notice was recorded
or before the sessions were ended. Each write is one step after its check: the inserts
refer to the users row, so they wait for the erasure's lock on it or the erasure for
them, and the updates are single statements.

**Discovery** is one listing and concurrent searches: page cache, geocode through
the Maps cache (a fresh and a stale copy), the query, the page stored. Any Redis
access may fail on its own. Cached copies age with the clock.

**Client** is one browser tab: the session store, the page with its effect, and
numbered slots of requests in flight. A slot is asked by an effect, a poll or a
button, answered by an abstract server (`Serve`, `Refuse`) or lost (`Lose`), and
handled by the continuation in the code (`Handle`). `net[i].at` says whether the
closure that will see the answer is still the current run of its effect, only
mounted, or gone, which is what the `cancelled` flags and refs decide. `VerifyEffect`
models StrictMode's double run. The conversation is loaded as in `MessagesPage.jsx`: the
first page and the length of the thread (`ListMessages`, two statements side by side),
then, when that is longer, its last page by a second request (`AskLatest`), which alone
is shown; others write and moderation rejects in between.

`PROJECT.json` maps every definition to the lines it translates. Operators whose
comment begins with "Mutant" (for instance `SecureNaive`, `FailsOpen`) are not
part of any specification; each is a faulty variant of the definition that follows
it, and substituting it makes the property it is paired with fail, which shows
that the property depends on that line of the code.

## 3. Runs

| Run | Shows | States |
|---|---|---|
| bookings_safety | seats neither oversold nor lost, cascade, notices, finality of a cancelled listing, deadlocks, the inductive invariant with the pending cap, and refinement of SeatLedger, for two concurrent transactions and an erasure | 1,456,072 |
| promotion | claims, keys, budget; a pending booking never loses its last job and is promoted in the end; refinement of Outbox and of JobLedger | 358,862 |
| mehko_caps | the daily rules with races, by how much races can exceed the weekly cap, starts as typed on both clock changes | 684,297 |
| moderation | nothing forgotten, what is public is sound, what is rejected stays hidden, pending content is handled | 1,280,870 |
| geocode | with two workers a listing at a known address gets on the map and is never left off it, at the right place if no deliveries overlapped | 638,588 |
| delivery | what a row or an alert says happened, success is final, outcomes are recorded, alerts settle in the queue, though statements fail | 1,373,133 |
| accounts | login limit, eligibility flags, sessions after a deletion, nobody left unverified | 867,126 |
| privacy | erasure is due, complete but for what is written behind its back, and loses no object; every request settles | 711,254 |
| discovery | answers catch up, outages are flagged, near is near | 5,114,016 |
| client | pages answer their own query, no endless spinner, the conversation settles on its latest page | 583,781 |
| bookings_erasure | a counterexample, see below | - |
| geocode_stale | a counterexample, see below | - |

Two runs end with a counterexample, where the code does not do what one of its own
comments says.
- `bookings_erasure`: erasing a host cancels the listings and leaves their bookings
  live, although `lifecycle.js:224` relies on the cancel flow, which is not run.
- `geocode_stale`: "Stale precise/coarse location must not survive an address change"
  (`listings/service.js:478`, ADR-010). The update clears the columns, but a delivery
  that read the old address before stores its coordinates after the delivery of the new
  one has ended: `setGeocode` is an update by id.

Each module states its type invariant. The runs check those of Bookings and Outbox,
inside the inductive invariants `IInv` and `OInv`; those of the other modules hold
on the same instances and describe the state, and are not among the properties of
the runs. `PendingCap` is a part of `IInv`. `RedeemedOnce`, and `FollowsJobLedger` of
Geocode, Notifications and Privacy, also hold on the instances of those runs; they
are proved and not run.

**Bounds.** Every bound is a CONSTANT named in a guard.
- Bookings: one listing (its host cannot book it), two guests, two bookings,
  capacity 1 or 2, pending cap 1, one clock tick, one update. Locks are per row and
  per guest, so a conflict needs no second listing; two transactions give every
  pairwise race, and only `cancelBooking` and `cancelListing` take two locks that
  others wait for, so that a longer cycle contains their pair.
- Promotion: two workers, batches of up to two rows, two attempts (so that a retry,
  its backoff and a dead letter happen), one crash, one requeue, one booking, skew 1,
  two moves and three instants: enough for a move away, a move back and an early
  delivery. With more bookings a start change writes more rows in one transaction;
  the proofs are about any number of them.
- Mehko: one host, three listings, five typed times around the two nights of 1970 on
  which the clocks changed: a Friday, a Saturday and the spring Sunday itself, on which
  the clock went forward (`MCSpring`), the autumn Sunday on which it went back and the
  Monday after it (`MCAutumn`), so that both sides of a week's end occur; caps of two
  meals a day and three a week, so that three days could exceed what
  `WeeklyOverrunBounded` allows; two transactions, four requests.
- Moderation: a listing with two versions, of which the second is blocked by the
  prefilter, and a review or a message; two workers, two moderators, one failure,
  one crash. Geocode: three address changes, one of them to an address Maps does not
  know, two attempts, one crash and two workers, so that an answer about one address
  may come after the answer about the next.
- Delivery: two workers, one retry inside a try loop, two attempts of the job, one
  fault (a crash, a lost poll, or one delivery in which statements fail), one edit, one
  moderator: a fault leaves room for the redelivery that meets it, and a last attempt may
  fail by a statement alone.
- Accounts: two requests at once out of three, two links, a limit of one failed
  login, one expiry, one dead letter: the limit is at its boundary with every login.
- Privacy: two workers, one stored object, windows of one tick, two attempts, two
  requests, two ticks, one fault, and no further writer once something was written behind
  the erasure's back (`MaxLate`). Two ticks are the notice window and the day after. Before the erasure all
  tables hold something anyway, so that other writers than a login begin only when a
  handler is about to erase, or later, and a user signs in when no session is left.
- Discovery: two searches, two spots of which one is in the radius, a page TTL of
  two ticks, a load of at most one.
- Client: three requests in flight, one navigation, one click, one fault, two
  session cookies, two ids: an answer to the page before, the answer to the page, and
  the answer of the session check meet. Pages of two messages, a thread that fills one
  page, and room for two more: a thread becomes longer than a page, and its last page
  changes by a message or a rejection between the two requests of a load.

**Fairness.** Promotion, Moderation, Geocode,
SafetyAlert, Privacy: weak fairness of each worker's steps (`startWorker`
reschedules itself after success and after error; every provider call is under a
timeout) and of the clock; in Privacy of the workers' steps taken together, and strong of
the clock (a tick waits for the day's jobs). Privacy also answers a request it has begun (`Respond`). Accounts: weak fairness of
requests under way, the deadlock detector and the resend window; `NeverStranded` is
about a user who keeps asking for a link and clicking it (WF `Resend`, SF
`ConsumeToken`) with a mailer that is not always down (SF `DeliverLink`). Client: weak
fairness of the poll timer, of the answer to each request (`Serve` or `Refuse`:
the API answers or refuses; the fetch of `http.js` has no timeout of its own) and of the handler of an answer.
Otherwise nothing obliges a user, a moderator, an operator, a failure or a crash to
happen, and failures are not assumed to stop except by the retry budget.

`CHECK_DEADLOCK FALSE` stands where the system may come to rest: all rows
settled, or a bound used up.

## 4. Proofs

Every invariant, action property and refinement of section 3 is proved of its
specification, for any values of the constants. A run shows the property on an
instance; the theorem of the table shows it for any number of users, workers,
connections, rows, requests, retries and crashes.

| Module | Inductive invariant | Theorems about properties of the runs |
|---|---|---|
| BookingsProofs | `IInv`, `SeatsAccounted` | `SeatsAlwaysAddUp`, `PendingCapHolds`, `CancellationToldOnce`, `OnlyCancelMeetsDrop`, `CascadeIsComplete`, `CancelledIsFinal`, `LedgerImplemented`; without erasure `CancelledListingIsEmpty` |
| PromotionProofs | `OInv`, `PInv` | `OutboxInvariance`, `ScheduleNeverLost`, `PromotionUsesOutbox`, `OutboxUnderPromotion`, `JobsAreLedgered`, `PromotionJobsAreLedgered` |
| ModerationProofs | `MInv` | `PendingIsNeverForgotten`, `PublishedAsCleared`, `RejectionIsFinal` |
| SafetyAlertProofs | `SInv` | `SentMeansAccepted`, `OutcomesAreRecorded`, `SentStaysSent`, `DeliveryJobIsLedgered` |
| AccountsProofs | `AInv` | `GuessingIsBounded`, `FlagsAreCurrent`, `DeletionEndsSessions` |
| PrivacyProofs | `PInv` | `NothingIsLost`, `ErasureIsComplete`, `ErasureIsDue`, `PrivacyJobsAreLedgered` |
| ListingProofs | `CapsInv`, `WeekBounded`, `GeoInv` | `DayWithinCaps`, `WeekNearlyWithinCap`, `MealsStartAsTyped`, `LocationIsCurrent`, `GeocodeJobsAreLedgered` |
| DiscoveryProofs | `DInv`, `TabInv` | `StaleAnswersEnd`, `DegradedIsOwnOutage`, `AnswersAreNear`, `PagesAnswerTheirUrl`, `TokenSentOnce` |

In each module a lemma per action shows that the action keeps the invariant, a lemma
puts them together along `Next`, and a theorem named `...Invariance` concludes.

**Why a strengthening is needed, and which.**

- *Bookings.* A transaction acts at COMMIT on what it checked steps before, so
  `NoOverbooking` and `PendingCap` are not inductive. `NoStaleCommit` says, for the
  step a transaction has reached, which locks it holds (`Locked(t)`) and which of its
  checks are still true (`Current(t)`); a frame lemma shows that a transaction that
  keeps its locks is not disturbed by a step on other rows. `CancelToldOnce` joins the
  notices that are committed with those about to be. `LedgerImplemented` maps the
  COMMIT of a transaction to one step of the ledger and every other step to a stutter.
  `SeatsAccounted` says of `NoSeatLost` that it also holds of the row an update is
  about to publish: only commits that hold the listing row change who has a seat.
  The deadlock theorem follows the lock order: guest before listing, booking before
  listing, listing before bookings.
- *Outbox and promotion.* `ExclusiveClaims` carries the outbox: a row in a poll is in
  no other poll and still pending, so the commit of one poll cannot undo another's.
  `NeverLost` needs more than a pending row: a row that a poll is about to commit as
  delivered will not help. `StillScheduled` asks for one that no poll has in its `ok`
  set, which is what the replacement row of an early delivery is for. `GoneForGood`:
  a handler that saw the listing cancelled is right for ever. Every step of Promotion
  is shown to be an Outbox step or a stutter of it.
- *Job ledger.* The commit of a poll settles many rows at once, each as the ledger
  allows, because by `ExclusiveClaims` every row of the poll is still pending. In the
  modules with one job per poll the invariants say the same of the job in a worker's
  hands; Privacy's and Geocode's also that no job is in two hands (`OneWorker`,
  `OneClaim`), SafetyAlert's that an alert that is not filed has no job (`Unraised`).
- *Moderation.* `NeverForgotten` is inductive over the tables; a verdict on a text
  that may be edited says nothing of the text there is. `WrittenOnce` keeps reviews
  and messages at their version, and `OneDecider` says of each of them that one of scan,
  dead letter and queue entry is responsible for it, unless its scan runs again after it
  was handled (`again`): a worker died between the handler and the COMMIT of the poll.
  `RejectionIsFinal` exempts these contents and no others.
- *Notifications and alerts.* `Known` ties each try, also an abandoned one whose write
  is still to come, to what the provider accepted. As long as no poll was lost
  (`Undisturbed`) there is one handler; `LegsInOrder` says which messages it has dealt
  with at each step, and `Between` what it leaves to the next delivery. `denied` says
  which statement failed in the delivery that ended the job, so that the exceptions of
  `OutcomesAreRecorded` are exactly the writes that were to record the outcome.
- *Accounts.* The properties count what was let through; the invariant also counts
  what is on the way (`GuessesCounted`, `SessionsCounted`: a login between its look at the
  account and its session is one of those counted when the account was marked).
  `FlagsCurrent` says that
  what a transaction is about to persist fits the row as it will be at its COMMIT.
- *Privacy.* What a handler holds in its variables is still so, or was overtaken by a
  write that `late` records (`RequestInHand`, `MediaInHand`); a job is in one worker's
  hands; a final job comes a window after its notice (`JobIsSound`). `ErasureIsComplete`
  follows writer by writer: what a store holds after the erasure is in `late`, and a
  session is that of a login in `late`, of the handler at work or of a delivery in `cut`.
- *Caps.* The check is not serialised, so it proves nothing about the day; the unique
  index does (`OnePerDay`), and the check bounds the meals of the one listing left.
  A week has no such index: `WeekBounded` says that whichever of the transactions that
  passed the check commit, the week stays within its limit, so also when the others of
  them are refused by the index. Meals are counted as pairs of a listing and a number
  up to its seats, so that a sum is a cardinality; that of the model, a fold, is shown
  to be the same by finite induction over the order of strict subsets.
  The proof about the clock shows that of the two shifts of `WallClockToInstant` the
  second finds a typed time that exists, also on the days the clock changes.
- *Geocoding.* What is stored is always an address the listing had, and while nothing
  is, the job of the current address waits or is dead (`SomewhereOrWaiting`): a delivery
  that is done with that address has stored something. More is so unless deliveries
  overlap (`InOrder`): the delivery of the current address is `Alone`, and one that calls
  Maps about an older address leaves the current one a job that is still pending
  (`OnTheWay`), so that its late answer is overwritten.
- *Search.* A page with `t` ticks to live was read at most `LoadLimit + PageTtl - t`
  ticks ago (`StalenessBounded`).
- *Tab.* A request that may still change the page is one of that page (`Belongs`),
  which is what the `cancelled` flags buy; at most one slot redeems a token.

**Assumptions.** Those named in the modules, which TLC evaluates on every run:
identifiers differ from each other and from the null values (`ConstantsAssumption`,
`IdleAssumption`, `NobodyAssumption`, `NoneAssumption`), bounds and limits are
numbers, positive where the configuration schema says so, bookings, listing ids,
connections and requests served at once are finite in number. `MehkoAssumption`
also says that the offsets around a typed time are known. Two theorems have a hypothesis of their own:

- `CancelledListingIsEmpty`: `MayErase = FALSE`. With erasure it does not hold, which is
  the run `bookings_erasure`.
- `MealsStartAsTyped`: every typed time `Exists`, that is, is not in the hour skipped
  in spring. `MCMehko` assumes it of its five times, so that TLC checks that the
  hypothesis has instances around both changes.

The theorems about Client use no assumption at all: they hold whatever the URLs,
sessions, messages and bounds are.

**What the proofs changed in the model.** An `Enqueue` of one row did not cover the
rescheduling of two bookings in one transaction, which the run with one booking could
not show: `Enqueue` now adds any number of rows. `FlagsMatchPolicy` was stated of
quiet moments and `NoLostObject` with an exception for late attachments; neither is
needed, and the properties are as strong as what is proved. The exceptions that are
left (`again`, `denied`, `racing`, `late`, `cut`, `overlap`, `overtaken`) are history
variables that record the very event, so that each property is as strong as the code
allows. `NoStaleCommit` did not say that a listing
under cancellation or update is still active when the transaction commits, which the
refinement of SeatLedger rests on. That the sets of values and the null values differ
(`IdleAssumption`, `NobodyAssumption`, `NoneAssumption`) and that identifiers are
finite in number was implicit before.

**Only model-checked.** All liveness (`PromotedEventually`, `PendingIsHandled`, `LocatedEventually`, `AlertSettles`, `NeverStranded`,
`EveryRequestSettles`, `NoEndlessSpinner`, `ThreadCatchesUp`): TLAPS has no ENABLED
and so no fairness. And the counterexamples of `bookings_erasure` and `geocode_stale`.
That transactions of Bookings end is neither: what is shown of them is that none waits
for ever but in the one lock cycle of `DeadlockOnlyCancelVsDrop`, which PostgreSQL
aborts.

## 5. What the models leave out, and what was met

**Not modelled.** The HTTP edge, request schemas, logging, configuration, migrations
as such and seed scripts: stateless validation, formatting and I/O. Texts, prices,
photos' pixels, disclosure rules and other reads; the PII guard on outbox payloads;
jitter and the length of delays (the backoff is kept in ticks); the connection pool
(ten connections, a wait of five seconds, whose effect is that of the failures the
modules have); rendering of mails; the push channel, closed in this version; in the
client, layout, validation messages, focus and announcements. A Redis that fails between
the two commands of the login limiter, so that a guess is not counted. The upload of an
object and its attachment are one step in Privacy (an object that is never attached is
mentioned below) and two in Client. Handlers that outlive their poll are modelled in
Notifications and SafetyAlert only, a job of Privacy in the dead letters needs more faults
than its run has. Privacy and Accounts
follow one user, Discovery one listing, SafetyAlert one job. `PROJECT.json` has the
reason per component.

**Met while modelling, without a property of their own.**

*Bookings, outbox, promotion.* While the database clock is ahead, each early delivery
of a promotion creates a row that is due at once, so the worker loops until the clocks
agree. Retry backoff counts from the start of the poll's transaction, not from the
failure. A crash spends no attempt, so a handler that kills the process is retried
for ever. A start moved away and back while the job of the first instant is being
delivered leaves the booking with a job at the later instant only, so it is promoted
late (`listings/service.js:168-169`, "no booking can end up holding a promotion at only
the stale instant", says otherwise). A poll holds a connection while its
handlers open their own.

*Caps.* Two concurrent creates on two days exceed the weekly cap;
`WeeklyOverrunBounded` says by how much.

*Moderation, geocoding.* "Never re-open or override a decision from a scan job"
(`moderation/service.js:155-156`) fails in two ways. A worker that dies after its scan
escalated, before the poll commits, leaves the job: a moderator rejects from the entry,
and when the scan had been redelivered and had read the content before, its approval
follows the rejection (`again`). Without any crash, a scan that read a listing before it
was edited decides after the scan of the edit did: the verdict on the old text publishes
an edited one, or overrides the newer verdict. A moderator's decision applies to the text
as it is when it is saved. When an address Maps does not know is the new one, one worker
is enough for `geocode_stale`. A geocode job that read its address before the erasure
writes coordinates onto the scrubbed listing, although "every location column is
emptied" (`privacy/repo.js:241-248`).

*Notifications.* "It must never stay silently 'pending'" (`safetyAlert.js:306`) fails when
the statement that marks the failure fails itself, on the last attempt; the alert is then
in the queue, or was never filed, and its job in the dead letters. A crash after the provider accepts and before `markSent`, or a
timed-out try that was accepted, sends twice. A handler that outlived its poll can
overwrite 'sent' with a failure. When the contact is removed after the mail and the
job is redelivered, 'sent' becomes 'no_channel'. A resolved queue item is filed again
on retry.

*Accounts.* "No session of this account survives" (`privacy/service.js:136`, `:58-61`) is
not so of a login that read the account before its deletion and creates its session
after the sweep, nor of a sweep that fails on the way, of which the same comment speaks.
The property says how many are left. A patch of the host profile alone recomputes the flags without
holding the users row, so a commit in between leaves them stale (`overtaken`), although
`users/service.js:5-11` has the flags follow each mutation; it also
locks in the opposite order of a full patch, which deadlocks. Limits are checked
and counted in two commands, so they are exceeded by the requests that run together.

*Privacy.* An export assembled while another worker erases survives the erasure. A
crash after the erasure and before the sessions are destroyed leaves them, since the
redelivery finds the user erased; so does a failure of Redis there. A message, a review,
a listing, a verification link or coordinates whose writer had passed its check before
the erasure are written after it, on the erased account. A crash between the record of the notice and the
enqueue of the final job makes the redelivery erase at once. Objects uploaded and
never attached are not erased, nor is what is attached after the list was read.
`updateProfile` reads without a lock and may write onto an erased row. A dead-lettered
erasure keeps its dedupe key and suppresses a new one; a dead notice leaves a request
open that excludes the user from later sweeps; two sweeps at once open two requests;
`markRequestProcessing` may reopen a completed request.

*Search.* Nothing invalidates a page on take-down: the bound is the TTL plus the time
of a load, for which `LoadLimit` is an assumption (the pool sets no statement
timeout). A page's rows and its count come from two statements, as do a host's
average and count (the comment at `getReviewStats` says they cannot disagree).

*Client.* A load of the conversation asks for the length of the thread and then for its
last page: of messages stored in between it may show none, of a page emptied by a
rejection nothing, until the next poll. With more than a page stored within one poll, the
older of them are never shown: the page is the LATEST one by design. `paths.js:33-41` puts the destination of a sign-in into `?next=` while
`LoginPage.jsx:63` reads `location.state.from`, so sign-in lands on the account page.
An older poll's answer puts an older thread back and has its messages announced again
(`MessagesPage.jsx:67`). Answers of actions in BookingDetailPage and of reserving
arrive after the page has moved on and act on the new one. A late `/me` answer after
logout signs the store in again; a late 401 of an old cookie signs it out. A lost
first session check leaves pages that wait for it on their spinner. Retrying after a
lost answer duplicates an alert or a reservation and leaves orphan photos of a
review. A cleared optional field of a meal is not sent.

## 6. Plan

1. Done: the modules above; every invariant, action property and refinement proved.
2. Next: that every transaction of Bookings ends, under PostgreSQL's fair lock queues, as
   a run of its own; scan jobs of Moderation as rows, which would let it implement
   JobLedger; how long an older answer stays on the map with two workers, as a bound; a
   shorter proof of BookingsProofs, whose lemmas per action repeat the frame argument.
