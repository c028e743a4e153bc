------------------------------- MODULE Mehko --------------------------------
(***************************************************************************)
(* The MEHKO caps of src/modules/listings/mehko.js: one listing per host   *)
(* and local day, a cap on the meals of a day and on the meals of a        *)
(* Monday-to-Sunday week.  assertWithinCaps sums up the committed listings *)
(* of the host and the caller writes afterwards, both in one READ          *)
(* COMMITTED transaction.  Nothing locks the host; what backs the check is *)
(* the unique index on (host, local date) of the listings that are not     *)
(* cancelled.                                                              *)
(***************************************************************************)
EXTENDS Integers, FiniteSets, FiniteSetsExt

CONSTANTS Hosts,            \* host accounts
          Ids,              \* listing ids
          Typed,            \* wall-clock times a host may type, in hours since 1970
          Offset,           \* hours the operating timezone is behind UTC at instants around them
          Capacities,       \* seat capacities a host may ask for
          ListingsPerDay,   \* config.mehko.listingsPerHostPerDay
          MaxMealsPerDay,   \* config.mehko.maxMealsPerDay
          MaxMealsPerWeek,  \* config.mehko.maxMealsPerWeek
          Txns,             \* database connections
          Idle,             \* a connection that runs no transaction
          MaxRequests       \* bound on the create and update requests

\* The instants at which the offset is looked up for a time typed.
Nearby(w) == {w, w + Offset[w], w + Offset[w + Offset[w]]}

ASSUME MehkoAssumption ==
    /\ DOMAIN Offset \subseteq Nat
    /\ \A s \in DOMAIN Offset : Offset[s] \in 0..s
    /\ \A w \in Typed : Nearby(w) \subseteq DOMAIN Offset
    /\ IsFiniteSet(Ids)
    /\ IsFiniteSet(Txns) /\ Txns # {}
    /\ Capacities \subseteq Nat \ {0}
    /\ ListingsPerDay = 1      \* the unique index allows no other value
    /\ MaxMealsPerDay \in Nat
    /\ MaxMealsPerWeek \in Nat
    /\ MaxRequests \in Nat

VARIABLES meal,      \* listings table: id -> host, start, capacity, status
          txn,       \* the create or update each connection runs
          requests   \* requests so far

mvars == <<meal, txn, requests>>

-----------------------------------------------------------------------------
\* zoneParts, isoToLaWallClock: what the clock of the operating timezone shows.
WallClock(s) == s - Offset[s]

\* Mutant: the first shift is taken as it is.
FirstShift(w) == w + Offset[w]

\* laWallClockToIso: the time typed is read as UTC, shifted by the offset of that
\* instant, and shifted again by what the clock then shows too much or too little.
WallClockToInstant(w) ==
    LET instant == w + Offset[w]
        drift == WallClock(instant) - w
    IN  instant - drift

\* The time typed exists: around it the clock changes once, from one offset to another,
\* and does not jump over that time.
Exists(w) ==
    \E change \in DOMAIN Offset, before, after \in Range(Offset) :
        /\ \A s \in Nearby(w) : Offset[s] = IF s < change THEN before ELSE after
        /\ w + before < change \/ w + after >= change

\* The instants the form can send.
Starts == {WallClockToInstant(w) : w \in Typed}

Unused == [status |-> "none"]

MealRow == [status : {"active", "cancelled"}, host : Hosts, start : Starts, typed : Typed, cap : Capacities]

TxnRow == [at : {"create.check", "create.write", "update.lock", "update.check", "update.write"},
           id : Ids, host : Hosts, start : Starts, typed : Typed, cap : Capacities]

Live(h) == {i \in Ids : meal[i].status = "active" /\ meal[i].host = h}

\* localDateFor, as the number of the day: the wall clock decides.
LocalDate(s) == WallClock(s) \div 24

\* getUTCDay: Sunday is 0; the first of January 1970 was a Thursday.
DayOfWeek(d) == (d + 4) % 7

\* Mutant: getUTCDay counts the days since Sunday.
WeekStartSunday(d) == d - DayOfWeek(d)

\* weekRangeFor: back by the days since Monday.
SinceMonday(d) == (DayOfWeek(d) + 7 - 1) % 7

WeekStart(d) == d - SinceMonday(d)

\* The rows of the host with the given local_date, stored by localDateFor.
OnDay(h, d) == {i \in Live(h) : LocalDate(meal[i].start) = d}

InWeek(h, d) == {i \in Live(h) : LocalDate(meal[i].start) \in WeekStart(d)..WeekStart(d) + 6}

Meals(ids) == MapThenSumSet(LAMBDA i : meal[i].cap, ids)

\* findByIdForUpdate: the row is locked from the lock step to the commit.
Locked(i) == \E t \in Txns : txn[t] # Idle /\ txn[t].id = i
                               /\ txn[t].at \in {"update.check", "update.write"}

Init ==
    /\ meal = [i \in Ids |-> Unused]
    /\ txn = [t \in Txns |-> Idle]
    /\ requests = 0

-----------------------------------------------------------------------------
\* Mutant: only the weekly cap is checked.
WithinCapsWeekly(h, s, cap, excluded) ==
    LET d == LocalDate(s) IN
    Meals(InWeek(h, d) \ excluded) + cap <= MaxMealsPerWeek

\* assertWithinCaps; an update does not count the listing it replaces.
WithinCaps(h, s, cap, excluded) ==
    LET d == LocalDate(s) IN
    /\ Cardinality(OnDay(h, d) \ excluded) < ListingsPerDay
    /\ Meals(OnDay(h, d) \ excluded) + cap <= MaxMealsPerDay
    /\ Meals(InWeek(h, d) \ excluded) + cap <= MaxMealsPerWeek

\* listings_host_local_date_key: a second live listing of the host on the
\* day is a unique violation, answered with 409.
IndexAllows(i, h, s) == OnDay(h, LocalDate(s)) \ {i} = {}

Start(t, step, i, h, w, cap) ==
    /\ txn[t] = Idle
    /\ requests < MaxRequests
    /\ requests' = requests + 1
    /\ txn' = [txn EXCEPT ![t] = [at |-> step, id |-> i, host |-> h, cap |-> cap,
                                  typed |-> w, start |-> WallClockToInstant(w)]]
    /\ UNCHANGED meal

Goto(t, step) ==
    /\ txn' = [txn EXCEPT ![t].at = step]
    /\ UNCHANGED <<meal, requests>>

\* The transaction ends without a trace.
Refuse(t) ==
    /\ txn' = [txn EXCEPT ![t] = Idle]
    /\ UNCHANGED <<meal, requests>>

\* The row is written and committed, unless the unique index refuses it.
Write(t) ==
    LET r == txn[t] IN
    \/ /\ IndexAllows(r.id, r.host, r.start)
       /\ meal' = [meal EXCEPT ![r.id] = [status |-> "active", host |-> r.host,
                                          start |-> r.start, typed |-> r.typed, cap |-> r.cap]]
       /\ txn' = [txn EXCEPT ![t] = Idle]
       /\ UNCHANGED requests
    \/ ~IndexAllows(r.id, r.host, r.start) /\ Refuse(t)

-----------------------------------------------------------------------------
(* createListing                                                           *)

BeginCreate(t, i, h, w, cap) ==
    /\ meal[i] = Unused
    /\ \A u \in Txns : txn[u] # Idle => txn[u].id # i
    /\ Start(t, "create.check", i, h, w, cap)

CreateCheck(t) ==
    LET r == txn[t] IN
    /\ r # Idle
    /\ r.at = "create.check"
    /\ \/ WithinCaps(r.host, r.start, r.cap, {}) /\ Goto(t, "create.write")
       \/ ~WithinCaps(r.host, r.start, r.cap, {}) /\ Refuse(t)

CreateWrite(t) ==
    /\ txn[t] # Idle
    /\ txn[t].at = "create.write"
    /\ Write(t)

-----------------------------------------------------------------------------
(* updateListing, with a new start or a new capacity                         *)

BeginUpdate(t, i, w, cap) ==
    /\ meal[i] # Unused
    /\ Start(t, "update.lock", i, meal[i].host, w, cap)

UpdateLock(t) ==
    /\ txn[t] # Idle
    /\ txn[t].at = "update.lock"
    /\ ~Locked(txn[t].id)
    /\ \/ meal[txn[t].id].status = "active" /\ Goto(t, "update.check")
       \/ meal[txn[t].id].status = "cancelled" /\ Refuse(t)

UpdateCheck(t) ==
    LET r == txn[t] IN
    /\ r # Idle
    /\ r.at = "update.check"
    /\ \/ WithinCaps(r.host, r.start, r.cap, {r.id}) /\ Goto(t, "update.write")
       \/ ~WithinCaps(r.host, r.start, r.cap, {r.id}) /\ Refuse(t)

UpdateWrite(t) ==
    /\ txn[t] # Idle
    /\ txn[t].at = "update.write"
    /\ Write(t)

\* cancelListing frees the day and the meals.
CancelListing(i) ==
    /\ meal[i].status = "active"
    /\ ~Locked(i)
    /\ meal' = [meal EXCEPT ![i].status = "cancelled"]
    /\ UNCHANGED <<txn, requests>>

Rollback(t) == txn[t] # Idle /\ Refuse(t)

-----------------------------------------------------------------------------
Next ==
    \/ \E t \in Txns :
          \/ \E i \in Ids, w \in Typed, cap \in Capacities :
                BeginUpdate(t, i, w, cap) \/ \E h \in Hosts : BeginCreate(t, i, h, w, cap)
          \/ CreateCheck(t) \/ CreateWrite(t)
          \/ UpdateLock(t) \/ UpdateCheck(t) \/ UpdateWrite(t)
          \/ Rollback(t)
    \/ \E i \in Ids : CancelListing(i)

Spec == Init /\ [][Next]_mvars

-----------------------------------------------------------------------------
(* Properties                                                              *)

\* Listings and transactions have their types, and an update writes only a
\* listing that is active: nothing revives a cancelled one.
TypeOK ==
    /\ meal \in [Ids -> MealRow \cup {Unused}]
    /\ txn \in [Txns -> TxnRow \cup {Idle}]
    /\ requests \in Nat
    /\ \A t \in Txns : txn[t] # Idle /\ txn[t].at \in {"update.check", "update.write"}
                         => meal[txn[t].id].status = "active"

\* What the wall clock shows at each start, and the last midnight and the last
\* Monday midnight before it (1970 began with a Thursday: its first Monday was
\* four days later).
Wall == [s \in Starts |-> WallClock(s)]
Midnight == [s \in Starts |-> CHOOSE m \in Wall[s] - 23..Wall[s] : m % 24 = 0]
Monday == [s \in Starts |-> CHOOSE m \in Wall[s] - 167..Wall[s] : m % 168 = 4 * 24]

Within(h, first, hours) == {i \in Live(h) : Wall[meal[i].start] \in first..first + hours - 1}

\* FR-11, AB-03, AB-07: however creates, updates and cancellations interleave,
\* the live listings of a host between two midnights of the operating timezone
\* are no more than one and offer no more meals than maxMealsPerDay.
DailyCaps ==
    \A h \in Hosts, s \in Starts :
        LET today == Within(h, Midnight[s], 24) IN
        /\ Cardinality(today) <= ListingsPerDay
        /\ Meals(today) <= MaxMealsPerDay

\* FR-11: what the unserialised check of the weekly sum still guarantees, from
\* Monday 00:00 to Sunday 23:59 on the operating timezone's clock: each other
\* transaction under way adds at most one day's meals to
\* config.mehko.maxMealsPerWeek, however the checks and the writes interleave.
\* With one connection it is the cap.
WeeklyOverrunBounded ==
    \A h \in Hosts, s \in Starts :
        Meals(Within(h, Monday[s], 7 * 24))
          <= MaxMealsPerWeek + (Cardinality(Txns) - 1) * MaxMealsPerDay

\* SRS 2.1.7: a meal starts when its host's form says it does, on the clock of the
\* operating timezone, created or moved on the day that clock changes too.
StartsAsTyped ==
    \A i \in Ids : meal[i] # Unused => WallClock(meal[i].start) = meal[i].typed
=============================================================================
