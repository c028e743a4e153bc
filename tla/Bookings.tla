------------------------------ MODULE Bookings ------------------------------
(***************************************************************************)
(* Seats, bookings and listings as the PostgreSQL transactions of          *)
(* src/modules/bookings and src/modules/listings change them.              *)
(*                                                                         *)
(* Every service call is one READ COMMITTED transaction that runs in       *)
(* several steps.  A row a transaction writes stays locked until the       *)
(* transaction ends, so its new version is kept in the transaction (field  *)
(* "row") and becomes visible at the commit step.  owner is the lock       *)
(* table: the per-guest advisory lock, the listing rows, the booking rows. *)
(* now() of a transaction is the instant of its BEGIN (field "began");     *)
(* Date.now() is the current clock.                                        *)
(***************************************************************************)
EXTENDS Naturals, FiniteSets

CONSTANTS Users,        \* account ids
          Listings,     \* listing ids
          BookingIds,   \* booking ids that may be generated
          Txns,         \* database connections that run a transaction
          None,         \* SQL NULL; also the owner of a free lock
          HostOf,       \* listings.host_id
          Capacities,   \* the seat capacities a host may choose
          MaxPending,   \* config.booking.maxConcurrentPending
          MaxTime,      \* bound on the clock
          MaxEdits,     \* bound on the number of listing updates
          MayErase      \* whether the account-erasure job may run

ASSUME ConstantsAssumption ==
    /\ None \notin Users \cup Listings \cup BookingIds \cup Txns
    /\ Users \cap Listings = {}
    /\ Users \cap BookingIds = {}
    /\ Listings \cap BookingIds = {}
    /\ HostOf \in [Listings -> Users]
    /\ IsFiniteSet(BookingIds)
    /\ Capacities \subseteq Nat \ {0}
    /\ MaxPending \in Nat
    /\ MaxTime \in Nat
    /\ MaxEdits \in Nat
    /\ MayErase \in BOOLEAN

VARIABLES listing,   \* listings table, committed versions
          booking,   \* bookings table, committed versions
          told,      \* committed notify.booking outbox rows: booking -> events
          owner,     \* lock table: resource -> transaction holding it
          txn,       \* the transaction each connection runs
          now,       \* wall clock
          edits      \* listing updates committed so far

vars == <<listing, booking, told, owner, txn, now, edits>>

-----------------------------------------------------------------------------
Resources == Users \cup Listings \cup BookingIds

ListingRow == [status : {"active", "cancelled"}, approved : BOOLEAN,
               cap : Nat, seats : Nat, start : Nat]

BookingRow == [status : {"none", "pending", "in_progress", "completed", "cancelled"},
               guest : Users \cup {None}, l : Listings \cup {None},
               byGuest : BOOLEAN, byHost : BOOLEAN]

Events == {"created", "started", "completed", "cancelled_by_guest",
           "cancelled_by_host", "listing_cancelled"}

CancelEvents == {"cancelled_by_guest", "cancelled_by_host", "listing_cancelled"}

Steps == {"idle",
          "create.lock", "create.check", "create.decrement", "create.commit",
          "cancel.lock", "cancel.mark", "cancel.restore", "cancel.commit",
          "confirm.lock", "confirm.commit",
          "promote.lock", "promote.commit",
          "drop.lock", "drop.cascade", "drop.commit",
          "edit.lock", "edit.count", "edit.commit"}

TxnRow == [at : Steps, user : Users \cup {None}, l : Listings \cup {None},
           b : BookingIds \cup {None}, began : Nat, row : ListingRow \cup {None}]

IdleTxn == [at |-> "idle", user |-> None, l |-> None, b |-> None,
            began |-> 0, row |-> None]

NoBooking == [status |-> "none", guest |-> None, l |-> None,
              byGuest |-> FALSE, byHost |-> FALSE]

LiveStatus == {"pending", "in_progress"}

\* countActiveBookings: the bookings of a table that hold a seat of l.
ActiveIn(table, l) ==
    {b \in BookingIds : table[b].l = l /\ table[b].status \in LiveStatus}

\* countPendingForGuest
PendingIn(table, g) ==
    {b \in BookingIds : table[b].guest = g /\ table[b].status = "pending"}

Active(l) == ActiveIn(booking, l)

Pending(g) == PendingIn(booking, g)

IsParticipant(u, b) == u = booking[b].guest \/ u = HostOf[booking[b].l]

Init ==
    /\ listing \in [Listings -> {[status |-> "active", approved |-> TRUE, cap |-> c,
                                  seats |-> c, start |-> s] :
                                  c \in Capacities, s \in 1..MaxTime}]
    /\ booking = [b \in BookingIds |-> NoBooking]
    /\ told = [b \in BookingIds |-> {}]
    /\ owner = [r \in Resources |-> None]
    /\ txn = [t \in Txns |-> IdleTxn]
    /\ now = 0
    /\ edits = 0

-----------------------------------------------------------------------------
(* Transactions: BEGIN, lock acquisition, COMMIT and ROLLBACK.             *)

\* BEGIN fixes now() for the whole transaction; only createBooking and
\* cancelBooking compare it with a row, and the schema of an update has
\* compared the new start with the clock before.
Begin(t, step, u, l, b, row) ==
    /\ txn[t].at = "idle"
    /\ txn' = [txn EXCEPT ![t] = [at |-> step, user |-> u, l |-> l, b |-> b, row |-> row,
                                  began |-> IF step \in {"create.lock", "cancel.lock", "edit.lock"}
                                            THEN now ELSE 0]]
    /\ UNCHANGED <<listing, booking, told, owner, now, edits>>

Goto(t, step) == txn' = [txn EXCEPT ![t].at = step]

\* A lock is granted when no other transaction holds it; a transaction may
\* lock again what it already holds.
CanLock(t, r) == owner[r] \in {None, t}

Lock(t, r) == owner' = [owner EXCEPT ![r] = t]

\* Mutant: the advisory lock is taken for the session, not the transaction.
ReleasedRowsOnly(t) ==
    [r \in Resources |-> IF owner[r] = t /\ r \notin Users THEN None ELSE owner[r]]

Released(t) == [r \in Resources |-> IF owner[r] = t THEN None ELSE owner[r]]

\* COMMIT or ROLLBACK: every lock goes, the connection returns to the pool.
End(t) ==
    /\ txn' = [txn EXCEPT ![t] = IdleTxn]
    /\ owner' = Released(t)

\* An early return, a refusal or an error: nothing the transaction did stays.
Leave(t) ==
    /\ End(t)
    /\ UNCHANGED <<listing, booking, told, now, edits>>

-----------------------------------------------------------------------------
(* createBooking                                                           *)

\* Bound: an id is left for every create that is under way.
IdLeft ==
    Cardinality({u \in Txns : txn[u].at \in {"create.lock", "create.check",
                                             "create.decrement", "create.commit"}})
      < Cardinality({b \in BookingIds : booking[b].status = "none"})

BeginCreate(t, g, l) ==
    /\ IdLeft
    /\ Begin(t, "create.lock", g, l, None, None)

\* lockGuestForBooking
CreateLock(t) ==
    /\ txn[t].at = "create.lock"
    /\ CanLock(t, txn[t].user)
    /\ Lock(t, txn[t].user)
    /\ Goto(t, "create.check")
    /\ UNCHANGED <<listing, booking, told, now, edits>>

\* Pending cap, then the unlocked read that classifies the listing.
Bookable(t) ==
    LET row == listing[txn[t].l] IN
    /\ Cardinality(Pending(txn[t].user)) < MaxPending
    /\ HostOf[txn[t].l] # txn[t].user
    /\ row.approved
    /\ row.status = "active"
    /\ row.start > now

CreateCheck(t) ==
    /\ txn[t].at = "create.check"
    /\ \/ /\ Bookable(t)
          /\ Goto(t, "create.decrement")
          /\ UNCHANGED <<listing, booking, told, owner, now, edits>>
       \/ ~Bookable(t) /\ Leave(t)

\* Mutant: the UPDATE relies on the status that was read before it.
SeatAtAnyStatus(t) ==
    LET row == listing[txn[t].l] IN
    /\ row.seats > 0
    /\ row.approved
    /\ row.start > txn[t].began

\* decrementSeat: the conditional UPDATE waits for the listing row, then
\* evaluates its WHERE clause on the committed version.
SeatAvailable(t) ==
    LET row == listing[txn[t].l] IN
    /\ row.seats > 0
    /\ row.status = "active"
    /\ row.approved
    /\ row.start > txn[t].began

\* Mutant: the new count is computed from a plain read and written at commit.
CreateReadThenWrite(t) ==
    /\ txn[t].at = "create.decrement"
    /\ \/ /\ SeatAvailable(t)
          /\ txn' = [txn EXCEPT ![t].at = "create.commit",
                                ![t].row = [listing[txn[t].l] EXCEPT !.seats = @ - 1]]
          /\ UNCHANGED <<listing, booking, told, owner, now, edits>>
       \/ ~SeatAvailable(t) /\ Leave(t)

CreateDecrement(t) ==
    /\ txn[t].at = "create.decrement"
    /\ CanLock(t, txn[t].l)
    /\ \/ /\ SeatAvailable(t)
          /\ Lock(t, txn[t].l)
          /\ txn' = [txn EXCEPT ![t].at = "create.commit",
                                ![t].row = [listing[txn[t].l] EXCEPT !.seats = @ - 1]]
          /\ UNCHANGED <<listing, booking, told, now, edits>>
       \/ ~SeatAvailable(t) /\ Leave(t)

\* insertBooking, the outbox rows and COMMIT.
CreateCommit(t, b) ==
    /\ txn[t].at = "create.commit"
    /\ booking[b].status = "none"
    /\ listing' = [listing EXCEPT ![txn[t].l] = txn[t].row]
    /\ booking' = [booking EXCEPT ![b] = [status |-> "pending", guest |-> txn[t].user,
                                          l |-> txn[t].l, byGuest |-> FALSE, byHost |-> FALSE]]
    /\ told' = [told EXCEPT ![b] = @ \cup {"created"}]
    /\ End(t)
    /\ UNCHANGED <<now, edits>>

-----------------------------------------------------------------------------
(* cancelBooking                                                           *)

BeginCancel(t, u, b) ==
    /\ booking[b].status # "none"
    /\ Begin(t, "cancel.lock", u, booking[b].l, b, None)

\* Mutant: the booking row is read without FOR UPDATE.
CancelNoLock(t) ==
    LET b == txn[t].b IN
    /\ txn[t].at = "cancel.lock"
    /\ IsParticipant(txn[t].user, b)
    /\ booking[b].status # "cancelled"
    /\ Goto(t, "cancel.mark")
    /\ UNCHANGED <<listing, booking, told, owner, now, edits>>

\* selectBookingWithListing(lock: true), the participant check and the
\* idempotent return for a booking that is cancelled already.
CancelLock(t) ==
    LET b == txn[t].b IN
    /\ txn[t].at = "cancel.lock"
    /\ CanLock(t, b)
    /\ \/ /\ IsParticipant(txn[t].user, b)
          /\ booking[b].status # "cancelled"
          /\ Lock(t, b)
          /\ Goto(t, "cancel.mark")
          /\ UNCHANGED <<listing, booking, told, now, edits>>
       \/ /\ ~IsParticipant(txn[t].user, b) \/ booking[b].status = "cancelled"
          /\ Leave(t)

\* markCancelledBeforeStart; zero rows is a 409.
Cancellable(t) ==
    /\ booking[txn[t].b].status = "pending"
    /\ listing[txn[t].l].start > txn[t].began

CancelMark(t) ==
    /\ txn[t].at = "cancel.mark"
    /\ \/ /\ Cancellable(t)
          /\ Goto(t, "cancel.restore")
          /\ UNCHANGED <<listing, booking, told, owner, now, edits>>
       \/ ~Cancellable(t) /\ Leave(t)

\* restoreSeat waits for the listing row while it holds the booking row.
CancelRestore(t) ==
    /\ txn[t].at = "cancel.restore"
    /\ CanLock(t, txn[t].l)
    /\ Lock(t, txn[t].l)
    /\ txn' = [txn EXCEPT ![t].at = "cancel.commit",
                          ![t].row = [listing[txn[t].l] EXCEPT !.seats = @ + 1]]
    /\ UNCHANGED <<listing, booking, told, now, edits>>

CancelCommit(t) ==
    LET b == txn[t].b
        event == IF txn[t].user = booking[b].guest
                 THEN "cancelled_by_guest" ELSE "cancelled_by_host"
    IN
    /\ txn[t].at = "cancel.commit"
    /\ listing' = [listing EXCEPT ![txn[t].l] = txn[t].row]
    /\ booking' = [booking EXCEPT ![b].status = "cancelled"]
    /\ told' = [told EXCEPT ![b] = @ \cup {event}]
    /\ End(t)
    /\ UNCHANGED <<now, edits>>

-----------------------------------------------------------------------------
(* confirmCompletion                                                       *)

BeginConfirm(t, u, b) ==
    /\ booking[b].status # "none"
    /\ Begin(t, "confirm.lock", u, booking[b].l, b, None)

\* The caller's own flag, chosen by role: guest first.
OwnFlag(u, b) ==
    IF u = booking[b].guest THEN booking[b].byGuest ELSE booking[b].byHost

Confirmable(t) ==
    LET b == txn[t].b IN
    /\ IsParticipant(txn[t].user, b)
    /\ booking[b].status = "in_progress"
    /\ ~OwnFlag(txn[t].user, b)

ConfirmLock(t) ==
    /\ txn[t].at = "confirm.lock"
    /\ CanLock(t, txn[t].b)
    /\ \/ /\ Confirmable(t)
          /\ Lock(t, txn[t].b)
          /\ Goto(t, "confirm.commit")
          /\ UNCHANGED <<listing, booking, told, now, edits>>
       \/ ~Confirmable(t) /\ Leave(t)

\* applyCompletionConfirmation: the second flag completes the booking.
ConfirmCommit(t) ==
    LET b == txn[t].b
        g == booking[b].byGuest \/ txn[t].user = booking[b].guest
        h == booking[b].byHost \/ txn[t].user # booking[b].guest
    IN
    /\ txn[t].at = "confirm.commit"
    /\ booking' = [booking EXCEPT ![b].byGuest = g, ![b].byHost = h,
                                  ![b].status = IF g /\ h THEN "completed" ELSE @]
    /\ told' = [told EXCEPT ![b] = IF g /\ h THEN @ \cup {"completed"} ELSE @]
    /\ End(t)
    /\ UNCHANGED <<listing, now, edits>>

-----------------------------------------------------------------------------
(* promoteDueBooking, run by the outbox worker.  What happens to its job   *)
(* when the start lies in the future is the subject of module Promotion.   *)

BeginPromote(t, b) ==
    /\ booking[b].status # "none"
    /\ Begin(t, "promote.lock", None, booking[b].l, b, listing[booking[b].l])

\* SELECT ... JOIN listings ... FOR UPDATE OF b: when it has waited for the
\* booking row it sees that row's newest version, but the listing row as the
\* statement's snapshot had it.
Promotable(t) ==
    /\ booking[txn[t].b].status = "pending"
    /\ txn[t].row.status = "active"
    /\ txn[t].row.start <= now

PromoteLock(t) ==
    /\ txn[t].at = "promote.lock"
    /\ CanLock(t, txn[t].b)
    /\ \/ /\ Promotable(t)
          /\ Lock(t, txn[t].b)
          /\ Goto(t, "promote.commit")
          /\ UNCHANGED <<listing, booking, told, now, edits>>
       \/ ~Promotable(t) /\ Leave(t)

PromoteCommit(t) ==
    LET b == txn[t].b IN
    /\ txn[t].at = "promote.commit"
    /\ booking' = [booking EXCEPT ![b].status = "in_progress"]
    /\ told' = [told EXCEPT ![b] = @ \cup {"started"}]
    /\ End(t)
    /\ UNCHANGED <<listing, now, edits>>

-----------------------------------------------------------------------------
(* cancelListing                                                           *)

BeginDrop(t, u, l) == Begin(t, "drop.lock", u, l, None, None)

DropLock(t) ==
    LET l == txn[t].l
        refused == txn[t].user # HostOf[l] \/ listing[l].status = "cancelled"
    IN
    /\ txn[t].at = "drop.lock"
    /\ CanLock(t, l)
    /\ \/ /\ ~refused
          /\ Lock(t, l)
          /\ txn' = [txn EXCEPT ![t].at = "drop.cascade",
                                ![t].row = [listing[l] EXCEPT !.status = "cancelled"]]
          /\ UNCHANGED <<listing, booking, told, now, edits>>
       \/ refused /\ Leave(t)

\* cancelActiveBookings locks the active bookings row by row and rechecks
\* each one's status when it gets the lock.
DropCascade(t) ==
    LET left == {b \in Active(txn[t].l) : owner[b] # t} IN
    /\ txn[t].at = "drop.cascade"
    /\ \/ \E b \in left : /\ CanLock(t, b)
                          /\ Lock(t, b)
                          /\ UNCHANGED txn
       \/ /\ left = {}
          /\ Goto(t, "drop.commit")
          /\ UNCHANGED owner
    /\ UNCHANGED <<listing, booking, told, now, edits>>

\* The listing and the bookings in hit are cancelled together, with one
\* listing_cancelled row per affected guest; seats are not given back.
DropOnly(t, hit) ==
    /\ txn[t].at = "drop.commit"
    /\ listing' = [listing EXCEPT ![txn[t].l] = txn[t].row]
    /\ booking' = [b \in BookingIds |->
                     IF b \in hit THEN [booking[b] EXCEPT !.status = "cancelled"] ELSE booking[b]]
    /\ told' = [b \in BookingIds |->
                  IF b \in hit THEN told[b] \cup {"listing_cancelled"} ELSE told[b]]
    /\ End(t)
    /\ UNCHANGED <<now, edits>>

\* Mutant: the cascade forgets the bookings that are in progress.
DropPendingOnly(t) ==
    DropOnly(t, {b \in Active(txn[t].l) : booking[b].status = "pending"})

\* Mutant: the cascade has no status filter and hits cancelled bookings again.
DropUnfiltered(t) ==
    DropOnly(t, {b \in BookingIds : booking[b].l = txn[t].l})

\* COMMIT: exactly the bookings that cancelActiveBookings locked.
DropCommit(t) == DropOnly(t, {b \in Active(txn[t].l) : owner[b] = t})

-----------------------------------------------------------------------------
(* updateListing, reduced to what seats and bookings depend on: capacity,  *)
(* start and the moderation reset of a material edit.                      *)

BeginEdit(t, u, l) ==
    /\ edits < MaxEdits
    /\ Begin(t, "edit.lock", u, l, None, None)

\* Mutant: the row that the patch is made from is read without FOR UPDATE.
EditNoLock(t) ==
    /\ txn[t].at = "edit.lock"
    /\ txn[t].user = HostOf[txn[t].l] /\ listing[txn[t].l].status = "active"
    /\ Goto(t, "edit.count")
    /\ UNCHANGED <<listing, booking, told, owner, now, edits>>

EditLock(t) ==
    LET l == txn[t].l
        refused == txn[t].user # HostOf[l] \/ listing[l].status = "cancelled"
    IN
    /\ txn[t].at = "edit.lock"
    /\ CanLock(t, l)
    /\ \/ /\ ~refused
          /\ Lock(t, l)
          /\ Goto(t, "edit.count")
          /\ UNCHANGED <<listing, booking, told, now, edits>>
       \/ refused /\ Leave(t)

\* The row the patch produces: seats_remaining is re-derived from the active
\* bookings, but only when the capacity really changes.
Patched(row, n, cap, start, material) ==
    [row EXCEPT !.cap = cap,
                !.seats = IF cap # row.cap THEN cap - n ELSE @,
                !.start = start,
                !.approved = @ /\ ~material]

\* schemas/listings.js let the request in only with a start in the future.
EditCount(t, cap, start, material) ==
    LET row == listing[txn[t].l]
        n == Cardinality(Active(txn[t].l))
        tooSmall == cap # row.cap /\ cap < n
    IN
    /\ txn[t].at = "edit.count"
    /\ start # row.start => start > txn[t].began
    /\ \/ /\ ~tooSmall
          /\ txn' = [txn EXCEPT ![t].at = "edit.commit",
                                ![t].row = Patched(row, n, cap, start, material)]
          /\ UNCHANGED <<listing, booking, told, owner, now, edits>>
       \/ tooSmall /\ Leave(t)

EditCommit(t) ==
    /\ txn[t].at = "edit.commit"
    /\ listing' = [listing EXCEPT ![txn[t].l] = txn[t].row]
    /\ edits' = edits + 1
    /\ End(t)
    /\ UNCHANGED <<booking, told, now>>

-----------------------------------------------------------------------------
(* What else touches these rows.                                           *)

\* setModerationStatus, one UPDATE of its own transaction.
SetModerationStatus(l, verdict) ==
    /\ owner[l] = None
    /\ listing[l].approved # verdict
    /\ listing' = [listing EXCEPT ![l].approved = verdict]
    /\ UNCHANGED <<booking, told, owner, txn, now, edits>>

\* scrubListings of the erasure job: every listing of the erased host.
ScrubListings(h) ==
    /\ MayErase
    /\ \A l \in Listings : HostOf[l] = h => owner[l] = None
    /\ listing' = [l \in Listings |-> IF HostOf[l] = h
                                      THEN [listing[l] EXCEPT !.status = "cancelled"]
                                      ELSE listing[l]]
    /\ UNCHANGED <<booking, told, owner, txn, now, edits>>

\* The process dies or its connection is lost: the server rolls back.
Rollback(t) ==
    /\ txn[t].at # "idle"
    /\ Leave(t)

\* The resources the next statement of t waits for.
Wants(t) ==
    CASE txn[t].at = "create.lock" -> {txn[t].user}
      [] txn[t].at \in {"create.decrement", "cancel.restore", "drop.lock", "edit.lock"}
           -> {txn[t].l}
      [] txn[t].at \in {"cancel.lock", "confirm.lock", "promote.lock"} -> {txn[t].b}
      [] txn[t].at = "drop.cascade" -> Active(txn[t].l)
      [] OTHER -> {}

WaitsFor(t, u) == t # u /\ \E r \in Wants(t) : owner[r] = u

\* PostgreSQL aborts one transaction of a cycle of lock waits (40P01).
DeadlockAbort(t) ==
    /\ \E u \in Txns : WaitsFor(t, u) /\ WaitsFor(u, t)
    /\ Leave(t)

Tick ==
    /\ now < MaxTime
    /\ now' = now + 1
    /\ UNCHANGED <<listing, booking, told, owner, txn, edits>>

-----------------------------------------------------------------------------
\* The steps a transaction takes by itself once it has begun.
TxnStep(t) ==
    \/ CreateLock(t) \/ CreateCheck(t) \/ CreateDecrement(t)
    \/ \E b \in BookingIds : CreateCommit(t, b)
    \/ CancelLock(t) \/ CancelMark(t) \/ CancelRestore(t) \/ CancelCommit(t)
    \/ ConfirmLock(t) \/ ConfirmCommit(t)
    \/ PromoteLock(t) \/ PromoteCommit(t)
    \/ DropLock(t) \/ DropCascade(t) \/ DropCommit(t)
    \/ EditLock(t)
    \/ \E c \in Capacities, s \in 1..MaxTime, m \in BOOLEAN : EditCount(t, c, s, m)
    \/ EditCommit(t)

Request(t) ==
    \/ \E u \in Users, l \in Listings :
          BeginCreate(t, u, l) \/ BeginDrop(t, u, l) \/ BeginEdit(t, u, l)
    \/ \E u \in Users, b \in BookingIds : BeginCancel(t, u, b) \/ BeginConfirm(t, u, b)
    \/ \E b \in BookingIds : BeginPromote(t, b)

Next ==
    \/ \E t \in Txns : Request(t) \/ TxnStep(t) \/ Rollback(t) \/ DeadlockAbort(t)
    \/ \E l \in Listings, v \in BOOLEAN : SetModerationStatus(l, v)
    \/ \E h \in Users : ScrubListings(h)
    \/ Tick

Spec == Init /\ [][Next]_vars

-----------------------------------------------------------------------------
(* Properties                                                              *)

\* The tables, the lock table and the transactions have their types.
TypeOK ==
    /\ listing \in [Listings -> ListingRow]
    /\ booking \in [BookingIds -> BookingRow]
    /\ told \in [BookingIds -> SUBSET Events]
    /\ owner \in [Resources -> Txns \cup {None}]
    /\ txn \in [Txns -> TxnRow]
    /\ now \in Nat
    /\ edits \in Nat

\* FR-12: the free seats and the seats held by live bookings together never
\* exceed the capacity, through every interleaving of reservations,
\* cancellations, completions and capacity changes (decrementSeat,
\* restoreSeat, updateListing).
NoOverbooking ==
    \A l \in Listings : listing[l].seats + Cardinality(Active(l)) <= listing[l].cap

\* The bookings of a table that took a seat of l and did not give it back.
TakenIn(table, l) ==
    {b \in BookingIds : table[b].l = l /\ table[b].status \in LiveStatus \cup {"completed"}}

Taken(l) == TakenIn(booking, l)

\* FR-12, FR-13: no seat of a listing that is offered is lost either.  Each is
\* free or was taken by a booking that is not cancelled, however
\* reservations, cancellations and capacity changes interleave (restoreSeat
\* is one relative UPDATE, updateListing re-derives the count under the lock).
NoSeatLost ==
    \A l \in Listings :
        listing[l].status = "active" => listing[l].cap <= listing[l].seats + Cardinality(Taken(l))

\* FR-12, FR-13: seats are neither sold twice nor lost, whatever interleaves.
SeatsAddUp == NoOverbooking /\ NoSeatLost

\* FR-11: a cancelled listing, also one the erasure job took down, is never
\* offered again and no reservation that was under way gets into it.
CancelledListingIsFinal ==
    [][\A l \in Listings : listing[l].status = "cancelled"
                              => listing'[l].status = "cancelled" /\ Active(l)' \subseteq Active(l)]_vars

\* AB-02: concurrent createBooking calls of one guest never take the guest
\* past config.booking.maxConcurrentPending.
PendingCap == \A g \in Users : Cardinality(Pending(g)) <= MaxPending

\* FR-11: cancelListing leaves no live booking behind, whatever reservation, promotion
\* or cancellation raced with it; by CancelledListingIsFinal none comes after it.
CancelEmptiesListing ==
    [][\A t \in Txns : DropCommit(t) => ActiveIn(booking', txn[t].l) = {}]_vars

\* lifecycle.js:224-225, FR-11: no booking of a cancelled listing is live, because "the
\* listing-cancel flow owns the booking's cancellation".  So it is until a host's account
\* is erased.
CancelledListingHasNoLiveBooking ==
    \A l \in Listings : listing[l].status = "cancelled" => Active(l) = {}

\* FR-13: a cancelled booking was announced by exactly one of the three
\* cancellation flows, and no other booking was announced as cancelled.
CancelToldOnce ==
    \A b \in BookingIds :
        Cardinality(told[b] \cap CancelEvents)
          = IF booking[b].status = "cancelled" THEN 1 ELSE 0

\* Two transactions block each other only when cancelBooking (booking row,
\* then listing row) meets cancelListing (listing row, then booking rows):
\* a reservation, confirmation, promotion or update is never a victim.
DeadlockOnlyCancelVsDrop ==
    \A t, u \in Txns :
        WaitsFor(t, u) /\ WaitsFor(u, t)
          => {txn[t].at, txn[u].at} = {"cancel.restore", "drop.cascade"}

(***************************************************************************)
(* The inductive strengthening of the invariants: what each transaction    *)
(* knows, by the step it is at, because of the locks it holds.             *)
(***************************************************************************)
\* A row that exists names a listing and a guest.
BookingShape ==
    \A b \in BookingIds :
        booking[b].status # "none" => booking[b].l \in Listings /\ booking[b].guest \in Users

OnListing == {"create.lock", "create.check", "create.decrement", "create.commit",
              "drop.lock", "drop.cascade", "drop.commit",
              "edit.lock", "edit.count", "edit.commit"}

OnBooking == {"cancel.lock", "cancel.mark", "cancel.restore", "cancel.commit",
              "confirm.lock", "confirm.commit", "promote.lock", "promote.commit"}

HasGuestLock == {"create.check", "create.decrement", "create.commit"}

HasBookingLock == {"cancel.mark", "cancel.restore", "cancel.commit",
                   "confirm.commit", "promote.commit"}

HasListingLock == {"create.commit", "cancel.commit", "drop.cascade", "drop.commit",
                   "edit.count", "edit.commit"}

\* The arguments of a transaction exist, and it holds the locks it took.
Locked(t) ==
    /\ txn[t].at \in OnListing => txn[t].l \in Listings /\ txn[t].user \in Users
    /\ txn[t].at \in OnBooking =>
          /\ txn[t].l \in Listings
          /\ txn[t].b \in BookingIds
          /\ booking[txn[t].b].status # "none"
          /\ booking[txn[t].b].l = txn[t].l
    /\ txn[t].at \in HasGuestLock => owner[txn[t].user] = t
    /\ txn[t].at \in HasBookingLock => owner[txn[t].b] = t
    /\ txn[t].at \in HasListingLock => owner[txn[t].l] = t

\* What a transaction checked before is still true when it commits, and the
\* row version it is about to publish was made from the committed one.
Current(t) ==
    LET l == txn[t].l
        b == txn[t].b
        row == txn[t].row
    IN
    /\ txn[t].at \in {"create.decrement", "create.commit"}
          => Cardinality(Pending(txn[t].user)) < MaxPending
    /\ txn[t].at = "create.commit"
          => /\ listing[l].status = "active"
             /\ listing[l].seats > 0
             /\ row = [listing[l] EXCEPT !.seats = @ - 1]
    /\ txn[t].at \in {"cancel.restore", "cancel.commit", "promote.commit"}
          => booking[b].status = "pending"
    /\ txn[t].at = "confirm.commit" => booking[b].status = "in_progress"
    /\ txn[t].at = "cancel.commit" => row = [listing[l] EXCEPT !.seats = @ + 1]
    /\ txn[t].at \in {"drop.cascade", "drop.commit"}
          => row = [listing[l] EXCEPT !.status = "cancelled"]
    /\ txn[t].at \in {"drop.cascade", "drop.commit", "edit.count", "edit.commit"}
          => listing[l].status = "active"
    /\ txn[t].at = "drop.commit" => \A x \in Active(l) : owner[x] = t
    /\ txn[t].at = "edit.commit"
          => /\ row \in ListingRow /\ row.cap \in Capacities
             /\ row.status = "active"
             /\ row.seats + Cardinality(Active(l)) <= row.cap

\* FR-12, FR-14: no decision is stale at commit.  Between the statement that
\* checked a condition (pending cap, seat left, booking status, affected
\* bookings) and COMMIT, no other transaction can invalidate it.
NoStaleCommit == \A t \in Txns : Locked(t) /\ Current(t)

\* The inductive invariant: types, row shape, what every transaction knows
\* about what it checked, and the two properties that rest on it.
IInv == TypeOK /\ BookingShape /\ NoStaleCommit /\ NoOverbooking /\ PendingCap

\* The committed tables implement the ledger of seats: every commit is one
\* ledger operation, every other step changes nothing a guest can see.
Ledger == INSTANCE SeatLedger WITH
    open  <- [l \in Listings |-> listing[l].status = "active"],
    cap   <- [l \in Listings |-> listing[l].cap],
    free  <- [l \in Listings |-> listing[l].seats],
    holds <- [l \in Listings |-> Active(l)],
    used  <- {b \in BookingIds : booking[b].status # "none"}

ImplementsLedger == Ledger!LedgerSpec
=============================================================================
