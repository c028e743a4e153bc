--------------------------- MODULE BookingsProofs ---------------------------
(***************************************************************************)
(* Proofs about Bookings, for any number of users, listings, bookings and  *)
(* concurrent transactions.  First the inductive invariant: no listing is  *)
(* overbooked, no guest is over the pending cap, no decision is committed  *)
(* on what has changed since.  Then what follows: the committed tables     *)
(* implement SeatLedger, a cancelled listing keeps no live booking and is  *)
(* final, no seat is lost, every cancellation is announced once, and only  *)
(* cancelBooking and cancelListing can block each other.                   *)
(***************************************************************************)
EXTENDS Bookings, FiniteSetTheorems, TLAPS

\* A step of transaction t leaves to every other transaction what that one
\* has locked.
Frame(t) ==
    /\ \A u \in Txns \ {t} : txn'[u] = txn[u]
    /\ \A r \in Resources : owner[r] \notin {t, None} => owner'[r] = owner[r]
    /\ \A l \in Listings : owner[l] \notin {t, None}
          => /\ listing'[l] = listing[l]
             /\ ActiveIn(booking', l) \subseteq ActiveIn(booking, l)
    /\ \A b \in BookingIds : booking[b].status # "none"
          => /\ booking'[b].status # "none" /\ booking'[b].l = booking[b].l
             /\ owner[b] \notin {t, None} => booking'[b] = booking[b]
    /\ \A g \in Users : owner[g] \notin {t, None}
          => PendingIn(booking', g) \subseteq PendingIn(booking, g)

-----------------------------------------------------------------------------
(* Sets of bookings are finite and counted.                                *)

\* The seat-holding and the pending bookings of a table are counted by
\* natural numbers, and a smaller set has a smaller count.
LEMMA Counts ==
    ASSUME NEW table, NEW x
    PROVE  /\ IsFiniteSet(ActiveIn(table, x)) /\ Cardinality(ActiveIn(table, x)) \in Nat
           /\ IsFiniteSet(PendingIn(table, x)) /\ Cardinality(PendingIn(table, x)) \in Nat
<1>1. ActiveIn(table, x) \subseteq BookingIds
  BY DEF ActiveIn
<1>2. PendingIn(table, x) \subseteq BookingIds
  BY DEF PendingIn
<1>. QED
  BY <1>1, <1>2, ConstantsAssumption, FS_Subset, FS_CardinalityType

\* Counts shrink with the sets they count.
LEMMA SmallerCount ==
    ASSUME NEW S, NEW T, IsFiniteSet(T), S \subseteq T
    PROVE  Cardinality(S) \in Nat /\ Cardinality(T) \in Nat /\ Cardinality(S) <= Cardinality(T)
BY FS_Subset, FS_CardinalityType

\* A step that respects Frame(t) keeps what every other transaction knows.
LEMMA FrameKeepsOthers ==
    ASSUME TypeOK, NoStaleCommit, NEW t, Frame(t),
           NEW u \in Txns, u # t
    PROVE  Locked(u)' /\ Current(u)'
<1>1. txn'[u] = txn[u]
  BY DEF Frame
<1>2. Locked(u) /\ Current(u)
  BY DEF NoStaleCommit
<1>3. u # None
  BY ConstantsAssumption
<1>4. Locked(u)'
  BY <1>1, <1>2, <1>3 DEF Locked, Frame, Resources, OnListing, OnBooking,
       HasGuestLock, HasBookingLock, HasListingLock
<1>5. ASSUME NEW g \in Users, owner[g] = u
      PROVE  Cardinality(PendingIn(booking', g)) <= Cardinality(PendingIn(booking, g))
  BY <1>3, <1>5, Counts, SmallerCount DEF Frame
<1>6. ASSUME NEW l \in Listings, owner[l] = u
      PROVE  /\ listing'[l] = listing[l]
             /\ ActiveIn(booking', l) \subseteq ActiveIn(booking, l)
             /\ Cardinality(ActiveIn(booking', l)) <= Cardinality(ActiveIn(booking, l))
  BY <1>3, <1>6, Counts, SmallerCount DEF Frame
<1>7. \A b \in BookingIds : owner[b] = u =>
         /\ owner'[b] = u
         /\ booking[b].status # "none" => booking'[b] = booking[b]
  BY <1>3 DEF Frame, Resources
<1>8. txn[u].at \in {"create.decrement", "create.commit"}
        => Cardinality(PendingIn(booking', txn[u].user)) < MaxPending
  <2>1. HAVE txn[u].at \in {"create.decrement", "create.commit"}
  <2>2. txn[u].user \in Users /\ owner[txn[u].user] = u
    BY <1>2, <2>1 DEF Locked, OnListing, HasGuestLock
  <2>3. Cardinality(PendingIn(booking, txn[u].user)) < MaxPending
    BY <1>2, <2>1 DEF Current, Pending
  <2>. QED
    BY <2>2, <2>3, <1>5, Counts, ConstantsAssumption
<1>9. txn[u].at \in HasListingLock
        => /\ listing'[txn[u].l] = listing[txn[u].l]
           /\ ActiveIn(booking', txn[u].l) \subseteq ActiveIn(booking, txn[u].l)
           /\ Cardinality(ActiveIn(booking', txn[u].l))
                <= Cardinality(ActiveIn(booking, txn[u].l))
  <2>1. HAVE txn[u].at \in HasListingLock
  <2>2. txn[u].l \in Listings /\ owner[txn[u].l] = u
    BY <1>2, <2>1 DEF Locked, OnListing, OnBooking, HasListingLock
  <2>. QED
    BY <2>2, <1>6
<1>10. txn[u].at \in HasBookingLock => booking'[txn[u].b] = booking[txn[u].b]
  BY <1>2, <1>7 DEF Locked, OnBooking, HasBookingLock
<1>11. txn[u].at = "drop.commit" => \A x \in ActiveIn(booking', txn[u].l) : owner'[x] = u
  <2>1. HAVE txn[u].at = "drop.commit"
  <2>2. \A x \in ActiveIn(booking, txn[u].l) : owner[x] = u
    BY <1>2, <2>1 DEF Current, Active
  <2>3. ActiveIn(booking', txn[u].l) \subseteq ActiveIn(booking, txn[u].l)
    BY <1>9, <2>1 DEF HasListingLock
  <2>4. ActiveIn(booking, txn[u].l) \subseteq BookingIds
    BY DEF ActiveIn
  <2>. QED
    BY <2>2, <2>3, <2>4, <1>7
<1>12. txn[u].at = "edit.commit"
         => /\ txn[u].row \in ListingRow /\ txn[u].row.cap \in Capacities
            /\ txn[u].row.status = "active"
            /\ txn[u].row.seats + Cardinality(ActiveIn(booking', txn[u].l)) <= txn[u].row.cap
  <2>1. HAVE txn[u].at = "edit.commit"
  <2>2. /\ txn[u].row \in ListingRow /\ txn[u].row.cap \in Capacities
        /\ txn[u].row.status = "active"
        /\ txn[u].row.seats + Cardinality(ActiveIn(booking, txn[u].l)) <= txn[u].row.cap
    BY <1>2, <2>1 DEF Current, Active
  <2>3. Cardinality(ActiveIn(booking', txn[u].l)) <= Cardinality(ActiveIn(booking, txn[u].l))
    BY <1>9, <2>1 DEF HasListingLock
  <2>. QED
    BY <2>2, <2>3, Counts DEF ListingRow
<1>13. Current(u)'
  <2>1. /\ txn[u].at \in {"create.decrement", "create.commit"}
              => Cardinality(Pending(txn[u].user))' < MaxPending
        /\ txn[u].at = "drop.commit" => \A x \in Active(txn[u].l)' : owner'[x] = u
        /\ txn[u].at = "edit.commit"
              => /\ txn[u].row \in ListingRow /\ txn[u].row.cap \in Capacities
                 /\ txn[u].row.status = "active"
                 /\ txn[u].row.seats + Cardinality(Active(txn[u].l)') <= txn[u].row.cap
    BY <1>1, <1>8, <1>11, <1>12 DEF Active, Pending
  <2>2. /\ txn[u].at \in {"create.commit", "cancel.commit", "drop.cascade", "drop.commit",
                          "edit.count", "edit.commit"}
              => listing'[txn[u].l] = listing[txn[u].l]
        /\ txn[u].at \in {"cancel.restore", "cancel.commit", "promote.commit", "confirm.commit"}
              => booking'[txn[u].b] = booking[txn[u].b]
    BY <1>9, <1>10 DEF HasListingLock, HasBookingLock
  <2>. QED BY <1>1, <1>2, <2>1, <2>2 DEF Current
<1>. QED
  BY <1>4, <1>13

-----------------------------------------------------------------------------
(* Steps that publish nothing: BEGIN, lock waits, checks, rollback.        *)

\* Such a step changes only its own transaction and free locks or its own.
Quiet(t) ==
    /\ UNCHANGED <<listing, booking, told, now, edits>>
    /\ \A u \in Txns \ {t} : txn'[u] = txn[u]
    /\ \A r \in Resources : owner[r] \notin {t, None} => owner'[r] = owner[r]

\* A quiet step keeps the invariant when the transaction that takes it knows
\* what it should know at its new step.
LEMMA QuietStep ==
    ASSUME IInv, NEW t \in Txns, Quiet(t), txn'[t] \in TxnRow,
           owner' \in [Resources -> Txns \cup {None}],
           txn' = [txn EXCEPT ![t] = txn'[t]],
           Locked(t)', Current(t)'
    PROVE  IInv'
<1>1. TypeOK'
  BY DEF IInv, TypeOK, Quiet
<1>2. BookingShape' /\ NoOverbooking' /\ PendingCap'
  BY DEF IInv, Quiet, BookingShape, NoOverbooking, PendingCap, Active, Pending
<1>3. Frame(t)
  BY DEF Frame, Quiet
<1>4. NoStaleCommit'
  BY <1>3, FrameKeepsOthers DEF NoStaleCommit, IInv
<1>. QED
  BY <1>1, <1>2, <1>4 DEF IInv

\* ROLLBACK, refusals and idempotent returns keep the invariant.
LEMMA LeaveStep ==
    ASSUME IInv, NEW t \in Txns, Leave(t)
    PROVE  IInv'
<1>1. txn'[t] = IdleTxn /\ txn' = [txn EXCEPT ![t] = txn'[t]]
  BY DEF Leave, End, IInv, TypeOK
<1>2. Quiet(t)
  BY DEF Leave, End, Released, Quiet, IInv, TypeOK
<1>3. IdleTxn \in TxnRow
  BY DEF IdleTxn, TxnRow, Steps
<1>4. owner' \in [Resources -> Txns \cup {None}]
  BY DEF Leave, End, Released, IInv, TypeOK
<1>5. Locked(t)' /\ Current(t)'
  BY <1>1 DEF IdleTxn, Locked, Current, OnListing, OnBooking,
       HasGuestLock, HasBookingLock, HasListingLock
<1>. QED
  BY <1>1, <1>2, <1>3, <1>4, <1>5, QuietStep

\* BEGIN of any service call keeps the invariant.
LEMMA BeginStep ==
    ASSUME IInv, NEW t \in Txns, NEW u \in Users \cup {None}, NEW l \in Listings,
           NEW b \in BookingIds \cup {None}, NEW row \in ListingRow \cup {None},
           NEW step \in {"create.lock", "cancel.lock", "confirm.lock", "promote.lock",
                         "drop.lock", "edit.lock"},
           step \in OnListing => u \in Users,
           step \in OnBooking => /\ b \in BookingIds
                                 /\ booking[b].status # "none"
                                 /\ booking[b].l = l,
           Begin(t, step, u, l, b, row)
    PROVE  IInv'
<1>1. /\ txn'[t] = [at |-> step, user |-> u, l |-> l, b |-> b, row |-> row,
                    began |-> IF step \in {"create.lock", "cancel.lock", "edit.lock"}
                              THEN now ELSE 0]
      /\ txn' = [txn EXCEPT ![t] = txn'[t]]
      /\ UNCHANGED <<listing, booking, told, owner, now, edits>>
  BY DEF Begin, IInv, TypeOK
<1>2. txn'[t] \in TxnRow
  BY <1>1 DEF TxnRow, Steps, IInv, TypeOK
<1>3. Quiet(t)
  BY <1>1 DEF Quiet, IInv, TypeOK
<1>4. Locked(t)'
  BY <1>1 DEF Locked, OnListing, OnBooking, HasGuestLock, HasBookingLock, HasListingLock
<1>5. Current(t)'
  BY <1>1 DEF Current
<1>6. owner' \in [Resources -> Txns \cup {None}]
  BY <1>1 DEF IInv, TypeOK
<1>. QED
  BY <1>1, <1>2, <1>3, <1>4, <1>5, <1>6, QuietStep

\* Every request keeps the invariant.
LEMMA RequestStep ==
    ASSUME IInv, NEW t \in Txns, Request(t)
    PROVE  IInv'
<1>1. CASE \E u \in Users, l \in Listings :
              BeginCreate(t, u, l) \/ BeginDrop(t, u, l) \/ BeginEdit(t, u, l)
  BY <1>1, BeginStep DEF BeginCreate, BeginDrop, BeginEdit, OnListing, OnBooking
<1>2. CASE \E u \in Users, b \in BookingIds : BeginCancel(t, u, b) \/ BeginConfirm(t, u, b)
  <2>1. PICK u \in Users, b \in BookingIds : BeginCancel(t, u, b) \/ BeginConfirm(t, u, b)
    BY <1>2
  <2>2. booking[b].status # "none" /\ booking[b].l \in Listings
    BY <2>1 DEF BeginCancel, BeginConfirm, IInv, BookingShape
  <2>. QED
    BY <2>1, <2>2, BeginStep DEF BeginCancel, BeginConfirm, OnListing, OnBooking
<1>3. CASE \E b \in BookingIds : BeginPromote(t, b)
  <2>1. PICK b \in BookingIds : BeginPromote(t, b)
    BY <1>3
  <2>2. booking[b].status # "none" /\ booking[b].l \in Listings
    BY <2>1 DEF BeginPromote, IInv, BookingShape
  <2>3. listing[booking[b].l] \in ListingRow
    BY <2>2 DEF IInv, TypeOK
  <2>. QED
    BY <2>1, <2>2, <2>3, BeginStep DEF BeginPromote, OnListing, OnBooking
<1>. QED
  BY <1>1, <1>2, <1>3 DEF Request

\* A step that moves a transaction on, perhaps with one more lock and a new
\* row version, keeps the invariant under the conditions of QuietStep.
LEMMA AdvanceStep ==
    ASSUME IInv, NEW t \in Txns, NEW step \in Steps, NEW row \in ListingRow \cup {None},
           txn' = [txn EXCEPT ![t].at = step, ![t].row = row],
           \/ owner' = owner
           \/ \E r \in Resources : CanLock(t, r) /\ Lock(t, r),
           UNCHANGED <<listing, booking, told, now, edits>>,
           Locked(t)', Current(t)'
    PROVE  IInv'
<1>1. txn'[t] = [txn[t] EXCEPT !.at = step, !.row = row]
  BY DEF IInv, TypeOK
<1>2. txn'[t] \in TxnRow /\ txn' = [txn EXCEPT ![t] = txn'[t]]
  BY <1>1 DEF IInv, TypeOK, TxnRow
<1>3. Quiet(t)
  BY DEF Quiet, Lock, CanLock, IInv, TypeOK
<1>4. owner' \in [Resources -> Txns \cup {None}]
  BY DEF Lock, IInv, TypeOK
<1>. QED
  BY <1>2, <1>3, <1>4, QuietStep

\* Moving on without a new row version is the same with the row it has.
LEMMA GotoIsAdvance ==
    ASSUME IInv, NEW t \in Txns, NEW step \in Steps, Goto(t, step)
    PROVE  /\ txn[t].row \in ListingRow \cup {None}
           /\ txn' = [txn EXCEPT ![t].at = step, ![t].row = txn[t].row]
           /\ txn'[t] = [txn[t] EXCEPT !.at = step]
<1>1. txn[t] \in TxnRow /\ txn \in [Txns -> TxnRow]
  BY DEF IInv, TypeOK
<1>2. txn[t].row \in ListingRow \cup {None}
  BY <1>1 DEF TxnRow
<1>3. txn' = [txn EXCEPT ![t] = [txn[t] EXCEPT !.at = step]]
  BY DEF Goto
<1>4. [txn[t] EXCEPT !.at = step] = [txn[t] EXCEPT !.at = step, !.row = txn[t].row]
  BY <1>1 DEF TxnRow
<1>. QED
  BY <1>1, <1>2, <1>3, <1>4

\* lockGuestForBooking keeps the invariant.
LEMMA CreateLockStep ==
    ASSUME IInv, NEW t \in Txns, CreateLock(t)
    PROVE  IInv'
<1>1. Locked(t)
  BY DEF IInv, NoStaleCommit
<1>2. "create.check" \in Steps /\ Goto(t, "create.check") /\ txn[t].at = "create.lock"
  BY DEF CreateLock, Steps
<1>3. txn[t].user \in Users /\ txn[t].l \in Listings
  BY <1>1, <1>2 DEF Locked, OnListing
<1>4. txn'[t] = [txn[t] EXCEPT !.at = "create.check"] /\ txn[t] \in TxnRow
  BY <1>2, GotoIsAdvance DEF IInv, TypeOK
<1>5. owner'[txn[t].user] = t
  BY <1>3 DEF CreateLock, Lock, Resources, IInv, TypeOK
<1>6. Locked(t)'
  BY <1>3, <1>4, <1>5 DEF Locked, OnListing, OnBooking, HasGuestLock, HasBookingLock,
       HasListingLock, TxnRow
<1>7. Current(t)'
  BY <1>4 DEF Current, TxnRow
<1>8. /\ txn[t].row \in ListingRow \cup {None}
      /\ txn' = [txn EXCEPT ![t].at = "create.check", ![t].row = txn[t].row]
  BY <1>2, GotoIsAdvance
<1>9. txn[t].user \in Resources /\ CanLock(t, txn[t].user) /\ Lock(t, txn[t].user)
      /\ UNCHANGED <<listing, booking, told, now, edits>>
  BY <1>3 DEF CreateLock, Resources
<1>. QED
  BY <1>2, <1>6, <1>7, <1>8, <1>9, AdvanceStep

\* The pending-cap check and the classification keep the invariant: a guest
\* that goes on holds the advisory lock and is below the cap.
LEMMA CreateCheckStep ==
    ASSUME IInv, NEW t \in Txns, CreateCheck(t)
    PROVE  IInv'
<1>1. CASE Leave(t)
  BY <1>1, LeaveStep
<1>2. CASE /\ Bookable(t)
           /\ Goto(t, "create.decrement")
           /\ UNCHANGED <<listing, booking, told, owner, now, edits>>
  <2>1. Locked(t) /\ txn[t].at = "create.check" /\ "create.decrement" \in Steps
    BY DEF IInv, NoStaleCommit, CreateCheck, Steps
  <2>2. txn'[t] = [txn[t] EXCEPT !.at = "create.decrement"] /\ txn[t] \in TxnRow
    BY <1>2, <2>1, GotoIsAdvance DEF IInv, TypeOK
  <2>3. Locked(t)'
    BY <1>2, <2>1, <2>2 DEF Locked, OnListing, OnBooking, HasGuestLock, HasBookingLock,
         HasListingLock, TxnRow
  <2>4. Current(t)'
    BY <1>2, <2>2 DEF Current, Bookable, Pending, TxnRow
  <2>5. owner' = owner /\ UNCHANGED <<listing, booking, told, now, edits>>
    BY <1>2
  <2>6. /\ txn[t].row \in ListingRow \cup {None}
        /\ txn' = [txn EXCEPT ![t].at = "create.decrement", ![t].row = txn[t].row]
    BY <1>2, <2>1, GotoIsAdvance
  <2>. QED
    BY <2>1, <2>3, <2>4, <2>5, <2>6, AdvanceStep
<1>. QED
  BY <1>1, <1>2 DEF CreateCheck

\* decrementSeat keeps the invariant: the decremented row version is derived
\* from the committed one, which nobody else can change any more.
LEMMA CreateDecrementStep ==
    ASSUME IInv, NEW t \in Txns, CreateDecrement(t)
    PROVE  IInv'
<1>1. CASE Leave(t)
  BY <1>1, LeaveStep
<1>2. CASE /\ SeatAvailable(t)
           /\ Lock(t, txn[t].l)
           /\ txn' = [txn EXCEPT ![t].at = "create.commit",
                                 ![t].row = [listing[txn[t].l] EXCEPT !.seats = @ - 1]]
           /\ UNCHANGED <<listing, booking, told, now, edits>>
  <2>. DEFINE row == [listing[txn[t].l] EXCEPT !.seats = @ - 1]
  <2>1. /\ Locked(t) /\ Current(t) /\ txn[t] \in TxnRow
        /\ txn[t].at = "create.decrement" /\ CanLock(t, txn[t].l)
        /\ "create.commit" \in Steps
    BY DEF IInv, NoStaleCommit, CreateDecrement, TypeOK, Steps
  <2>2. txn[t].user \in Users /\ txn[t].l \in Listings /\ owner[txn[t].user] = t
    BY <2>1 DEF Locked, OnListing, HasGuestLock
  <2>3. listing[txn[t].l] \in ListingRow /\ listing[txn[t].l].seats > 0
        /\ listing[txn[t].l].status = "active"
    BY <1>2, <2>2 DEF IInv, TypeOK, SeatAvailable
  <2>4. row \in ListingRow
    BY <2>3 DEF ListingRow
  <2>5. txn'[t] = [txn[t] EXCEPT !.at = "create.commit", !.row = row]
    BY <1>2 DEF IInv, TypeOK
  <2>6. owner'[txn[t].l] = t /\ owner'[txn[t].user] = t
    BY <1>2, <2>2 DEF Lock, Resources, IInv, TypeOK
  <2>7. Locked(t)'
    BY <2>2, <2>5, <2>6, <2>1 DEF Locked, OnListing, OnBooking, HasGuestLock, HasBookingLock,
         HasListingLock, TxnRow
  <2>8. Cardinality(PendingIn(booking, txn[t].user)) < MaxPending
    BY <2>1 DEF Current, Pending
  <2>9. /\ txn'[t].at = "create.commit" /\ txn'[t].user = txn[t].user
        /\ txn'[t].l = txn[t].l /\ txn'[t].row = row
    <3>. HIDE DEF row
    <3>. QED
      BY <2>1, <2>5 DEF TxnRow
  <2>. listing' = listing /\ booking' = booking
    BY <1>2
  <2>10. Current(t)'
    BY <2>3, <2>8, <2>9 DEF Current, Pending
  <2>. HIDE DEF row
  <2>. QED
    BY <1>2, <2>1, <2>2, <2>4, <2>7, <2>10, AdvanceStep DEF row, Resources
<1>. QED
  BY <1>1, <1>2 DEF CreateDecrement

\* Moving on with the same row version: what changes in the transaction.
LEMMA GotoStep ==
    ASSUME IInv, NEW t \in Txns, NEW step \in Steps, Goto(t, step),
           \/ owner' = owner
           \/ \E r \in Resources : CanLock(t, r) /\ Lock(t, r),
           UNCHANGED <<listing, booking, told, now, edits>>,
           /\ txn'[t].at = step /\ txn'[t].user = txn[t].user /\ txn'[t].l = txn[t].l
           /\ txn'[t].b = txn[t].b /\ txn'[t].row = txn[t].row
           => Locked(t)' /\ Current(t)'
    PROVE  IInv'
<1>1. /\ txn[t].row \in ListingRow \cup {None}
      /\ txn' = [txn EXCEPT ![t].at = step, ![t].row = txn[t].row]
      /\ txn'[t] = [txn[t] EXCEPT !.at = step]
  BY GotoIsAdvance
<1>2. /\ txn'[t].at = step /\ txn'[t].user = txn[t].user /\ txn'[t].l = txn[t].l
      /\ txn'[t].b = txn[t].b /\ txn'[t].row = txn[t].row
  BY <1>1 DEF IInv, TypeOK, TxnRow
<1>. QED
  BY <1>1, <1>2, AdvanceStep

\* SELECT ... FOR UPDATE OF b keeps the invariant, for cancelBooking,
\* confirmCompletion and promoteDueBooking alike.
LEMMA BookingLockStep ==
    ASSUME IInv, NEW t \in Txns,
           txn[t].at \in {"cancel.lock", "confirm.lock", "promote.lock"},
           CanLock(t, txn[t].b), Lock(t, txn[t].b),
           NEW step \in {"cancel.mark", "confirm.commit", "promote.commit"},
           Goto(t, step),
           step = "confirm.commit" => booking[txn[t].b].status = "in_progress",
           step = "promote.commit" => booking[txn[t].b].status = "pending",
           UNCHANGED <<listing, booking, told, now, edits>>
    PROVE  IInv'
<1>1. /\ txn[t].l \in Listings /\ txn[t].b \in BookingIds
      /\ booking[txn[t].b].status # "none" /\ booking[txn[t].b].l = txn[t].l
  BY DEF IInv, NoStaleCommit, Locked, OnBooking
<1>2. owner'[txn[t].b] = t
  BY <1>1 DEF Lock, Resources, IInv, TypeOK
<1>3. step \in Steps
  BY DEF Steps
<1>4. ASSUME txn'[t].at = step, txn'[t].l = txn[t].l, txn'[t].b = txn[t].b
      PROVE  Locked(t)' /\ Current(t)'
  <2>1. Locked(t)'
    BY <1>1, <1>2, <1>4 DEF Locked, OnListing, OnBooking, HasGuestLock, HasBookingLock,
         HasListingLock
  <2>2. Current(t)'
    BY <1>4 DEF Current
  <2>. QED
    BY <2>1, <2>2
<1>. QED
  BY <1>1, <1>3, <1>4, GotoStep DEF Resources

\* The locking steps of the three services that start from a booking row.
LEMMA LockOrLeaveStep ==
    ASSUME IInv, NEW t \in Txns, CancelLock(t) \/ ConfirmLock(t) \/ PromoteLock(t)
    PROVE  IInv'
<1>1. CASE Leave(t)
  BY <1>1, LeaveStep
<1>2. CASE CancelLock(t) /\ ~Leave(t)
  BY <1>2, BookingLockStep DEF CancelLock
<1>3. CASE ConfirmLock(t) /\ ~Leave(t)
  BY <1>3, BookingLockStep DEF ConfirmLock, Confirmable
<1>4. CASE PromoteLock(t) /\ ~Leave(t)
  BY <1>4, BookingLockStep DEF PromoteLock, Promotable
<1>. QED
  BY <1>1, <1>2, <1>3, <1>4

\* markCancelledBeforeStart keeps the invariant: the booking it marked is
\* pending and stays so for everybody else until the commit.
LEMMA CancelMarkStep ==
    ASSUME IInv, NEW t \in Txns, CancelMark(t)
    PROVE  IInv'
<1>1. CASE Leave(t)
  BY <1>1, LeaveStep
<1>2. CASE ~Leave(t)
  <2>1. /\ txn[t].at = "cancel.mark" /\ Goto(t, "cancel.restore") /\ Cancellable(t)
        /\ owner' = owner
        /\ UNCHANGED <<listing, booking, told, now, edits>>
    BY <1>2 DEF CancelMark
  <2>2. Locked(t) /\ "cancel.restore" \in Steps
    BY DEF IInv, NoStaleCommit, Steps
  <2>3. ASSUME txn'[t].at = "cancel.restore", txn'[t].l = txn[t].l, txn'[t].b = txn[t].b
        PROVE  Locked(t)' /\ Current(t)'
    <3>1. Locked(t)'
      BY <2>1, <2>2, <2>3 DEF Locked, OnListing, OnBooking, HasGuestLock, HasBookingLock,
           HasListingLock
    <3>2. Current(t)'
      BY <2>1, <2>3 DEF Current, Cancellable
    <3>. QED
      BY <3>1, <3>2
  <2>. QED
    BY <2>1, <2>2, <2>3, GotoStep
<1>. QED
  BY <1>1, <1>2

\* A step that takes the listing row and stages a new version of it.
LEMMA StageStep ==
    ASSUME IInv, NEW t \in Txns, NEW step \in Steps, NEW row \in ListingRow,
           txn[t].l \in Listings, CanLock(t, txn[t].l), Lock(t, txn[t].l),
           txn' = [txn EXCEPT ![t].at = step, ![t].row = row],
           UNCHANGED <<listing, booking, told, now, edits>>,
           /\ txn'[t].at = step /\ txn'[t].user = txn[t].user /\ txn'[t].l = txn[t].l
           /\ txn'[t].b = txn[t].b /\ txn'[t].row = row
           /\ owner'[txn[t].l] = t
           /\ \A r \in Resources : owner[r] = t => owner'[r] = t
           => Locked(t)' /\ Current(t)'
    PROVE  IInv'
<1>1. /\ txn'[t].at = step /\ txn'[t].user = txn[t].user /\ txn'[t].l = txn[t].l
      /\ txn'[t].b = txn[t].b /\ txn'[t].row = row
  BY DEF IInv, TypeOK, TxnRow
<1>2. /\ owner'[txn[t].l] = t
      /\ \A r \in Resources : owner[r] = t => owner'[r] = t
  BY DEF Lock, Resources, IInv, TypeOK
<1>3. txn[t].l \in Resources
  BY DEF Resources
<1>. QED
  BY <1>1, <1>2, <1>3, AdvanceStep

\* restoreSeat keeps the invariant.
LEMMA CancelRestoreStep ==
    ASSUME IInv, NEW t \in Txns, CancelRestore(t)
    PROVE  IInv'
<1>. DEFINE row == [listing[txn[t].l] EXCEPT !.seats = @ + 1]
<1>1. /\ Locked(t) /\ Current(t) /\ txn[t].at = "cancel.restore"
      /\ CanLock(t, txn[t].l) /\ Lock(t, txn[t].l)
      /\ txn' = [txn EXCEPT ![t].at = "cancel.commit", ![t].row = row]
      /\ UNCHANGED <<listing, booking, told, now, edits>>
      /\ "cancel.commit" \in Steps
  BY DEF IInv, NoStaleCommit, CancelRestore, Steps
<1>2. /\ txn[t].l \in Listings /\ txn[t].b \in BookingIds /\ owner[txn[t].b] = t
      /\ booking[txn[t].b].status = "pending" /\ booking[txn[t].b].l = txn[t].l
  BY <1>1 DEF Locked, Current, OnBooking, HasBookingLock
<1>3. row \in ListingRow
  BY <1>2 DEF IInv, TypeOK, ListingRow
<1>4. ASSUME txn'[t].at = "cancel.commit", txn'[t].l = txn[t].l, txn'[t].b = txn[t].b,
             txn'[t].row = row, owner'[txn[t].l] = t,
             \A r \in Resources : owner[r] = t => owner'[r] = t
      PROVE  Locked(t)' /\ Current(t)'
  <2>1. Locked(t)'
    BY <1>1, <1>2, <1>4 DEF Locked, OnListing, OnBooking, HasGuestLock, HasBookingLock,
         HasListingLock, Resources
  <2>2. Current(t)'
    BY <1>1, <1>2, <1>4 DEF Current
  <2>. QED
    BY <2>1, <2>2
<1>. HIDE DEF row
<1>. QED
  BY <1>1, <1>2, <1>3, <1>4, StageStep

\* findByIdForUpdate and the status update of cancelListing keep the invariant.
LEMMA DropLockStep ==
    ASSUME IInv, NEW t \in Txns, DropLock(t)
    PROVE  IInv'
<1>1. CASE Leave(t)
  BY <1>1, LeaveStep
<1>2. CASE ~Leave(t)
  <2>. DEFINE row == [listing[txn[t].l] EXCEPT !.status = "cancelled"]
  <2>1. /\ Locked(t) /\ txn[t].at = "drop.lock"
        /\ CanLock(t, txn[t].l) /\ Lock(t, txn[t].l)
        /\ txn' = [txn EXCEPT ![t].at = "drop.cascade", ![t].row = row]
        /\ UNCHANGED <<listing, booking, told, now, edits>>
        /\ listing[txn[t].l].status # "cancelled"
        /\ "drop.cascade" \in Steps
    BY <1>2 DEF IInv, NoStaleCommit, DropLock, Steps
  <2>2. txn[t].l \in Listings /\ txn[t].user \in Users
    BY <2>1 DEF Locked, OnListing
  <2>3. row \in ListingRow /\ listing[txn[t].l].status = "active"
    BY <2>1, <2>2 DEF IInv, TypeOK, ListingRow
  <2>4. ASSUME txn'[t].at = "drop.cascade", txn'[t].l = txn[t].l, txn'[t].row = row,
               txn'[t].user = txn[t].user, owner'[txn[t].l] = t
        PROVE  Locked(t)' /\ Current(t)'
    <3>1. Locked(t)'
      BY <2>1, <2>2, <2>4 DEF Locked, OnListing, OnBooking, HasGuestLock, HasBookingLock,
           HasListingLock
    <3>2. Current(t)'
      BY <2>1, <2>3, <2>4 DEF Current
    <3>. QED
      BY <3>1, <3>2
  <2>. HIDE DEF row
  <2>. QED
    BY <2>1, <2>2, <2>3, <2>4, StageStep
<1>. QED
  BY <1>1, <1>2

\* cancelActiveBookings keeps the invariant: when it is done it holds every
\* live booking of the listing.
LEMMA DropCascadeStep ==
    ASSUME IInv, NEW t \in Txns, DropCascade(t)
    PROVE  IInv'
<1>. DEFINE left == {b \in Active(txn[t].l) : owner[b] # t}
<1>1. /\ Locked(t) /\ Current(t) /\ txn[t].at = "drop.cascade" /\ txn[t] \in TxnRow
      /\ UNCHANGED <<listing, booking, told, now, edits>>
  BY DEF IInv, NoStaleCommit, DropCascade, TypeOK
<1>2. CASE \E b \in left : CanLock(t, b) /\ Lock(t, b) /\ UNCHANGED txn
  <2>1. PICK b \in BookingIds : CanLock(t, b) /\ Lock(t, b) /\ UNCHANGED txn
    BY <1>2 DEF Active, ActiveIn
  <2>2. Quiet(t)
    BY <1>1, <2>1 DEF Quiet, Lock, CanLock, IInv, TypeOK
  <2>3. owner' \in [Resources -> Txns \cup {None}]
    BY <2>1 DEF Lock, IInv, TypeOK
  <2>4. txn'[t] \in TxnRow /\ txn' = [txn EXCEPT ![t] = txn'[t]]
    BY <1>1, <2>1 DEF IInv, TypeOK
  <2>5. Locked(t)'
    BY <1>1, <2>1 DEF Locked, OnListing, OnBooking, HasGuestLock, HasBookingLock,
         HasListingLock, Lock, Resources, IInv, TypeOK
  <2>6. Current(t)'
    BY <1>1, <2>1 DEF Current
  <2>. QED
    BY <2>2, <2>3, <2>4, <2>5, <2>6, QuietStep
<1>3. CASE left = {} /\ Goto(t, "drop.commit") /\ UNCHANGED owner
  <2>1. \A x \in ActiveIn(booking, txn[t].l) : owner[x] = t
    BY <1>3 DEF Active
  <2>2. ASSUME txn'[t].at = "drop.commit", txn'[t].l = txn[t].l, txn'[t].row = txn[t].row,
               txn'[t].user = txn[t].user
        PROVE  Locked(t)' /\ Current(t)'
    <3>1. Locked(t)'
      BY <1>1, <1>3, <2>2 DEF Locked, OnListing, OnBooking, HasGuestLock, HasBookingLock,
           HasListingLock
    <3>2. Current(t)'
      BY <1>1, <1>3, <2>1, <2>2 DEF Current, Active
    <3>. QED
      BY <3>1, <3>2
  <2>3. "drop.commit" \in Steps
    BY DEF Steps
  <2>. QED
    BY <1>1, <1>3, <2>2, <2>3, GotoStep
<1>. QED
  BY <1>2, <1>3 DEF DropCascade

\* findByIdForUpdate of updateListing keeps the invariant.
LEMMA EditLockStep ==
    ASSUME IInv, NEW t \in Txns, EditLock(t)
    PROVE  IInv'
<1>1. CASE Leave(t)
  BY <1>1, LeaveStep
<1>2. CASE ~Leave(t)
  <2>1. /\ Locked(t) /\ txn[t].at = "edit.lock"
        /\ CanLock(t, txn[t].l) /\ Lock(t, txn[t].l) /\ Goto(t, "edit.count")
        /\ UNCHANGED <<listing, booking, told, now, edits>>
        /\ listing[txn[t].l].status # "cancelled"
        /\ "edit.count" \in Steps
    BY <1>2 DEF IInv, NoStaleCommit, EditLock, Steps
  <2>2. txn[t].l \in Listings /\ txn[t].user \in Users
    BY <2>1 DEF Locked, OnListing
  <2>3. listing[txn[t].l].status = "active"
    BY <2>1, <2>2 DEF IInv, TypeOK, ListingRow
  <2>4. owner'[txn[t].l] = t
    BY <2>1, <2>2 DEF Lock, Resources, IInv, TypeOK
  <2>5. ASSUME txn'[t].at = "edit.count", txn'[t].l = txn[t].l, txn'[t].user = txn[t].user
        PROVE  Locked(t)' /\ Current(t)'
    <3>1. Locked(t)'
      BY <2>2, <2>4, <2>5 DEF Locked, OnListing, OnBooking, HasGuestLock, HasBookingLock,
           HasListingLock
    <3>2. Current(t)'
      BY <2>1, <2>5, <2>3 DEF Current
    <3>. QED
      BY <3>1, <3>2
  <2>. QED
    BY <2>1, <2>2, <2>5, GotoStep DEF Resources
<1>. QED
  BY <1>1, <1>2

\* The count of active bookings and the capacity patch keep the invariant:
\* the new capacity covers the bookings counted under the listing lock.
LEMMA EditCountStep ==
    ASSUME IInv, NEW t \in Txns, NEW c \in Capacities, NEW s \in 1..MaxTime,
           NEW m \in BOOLEAN, EditCount(t, c, s, m)
    PROVE  IInv'
<1>1. CASE Leave(t)
  BY <1>1, LeaveStep
<1>2. CASE ~Leave(t)
  <2>. DEFINE old == listing[txn[t].l]
              n == Cardinality(ActiveIn(booking, txn[t].l))
              row == Patched(old, n, c, s, m)
  <2>1. /\ Locked(t) /\ Current(t) /\ txn[t].at = "edit.count" /\ txn[t] \in TxnRow
        /\ ~(c # old.cap /\ c < n)
        /\ txn' = [txn EXCEPT ![t].at = "edit.commit", ![t].row = row]
        /\ UNCHANGED <<listing, booking, told, owner, now, edits>>
        /\ "edit.commit" \in Steps
    BY <1>2 DEF IInv, NoStaleCommit, EditCount, Steps, Active, TypeOK
  <2>2. txn[t].l \in Listings /\ txn[t].user \in Users /\ owner[txn[t].l] = t
    BY <2>1 DEF Locked, OnListing, HasListingLock
  <2>3. /\ old \in ListingRow /\ n \in Nat /\ old.seats + n <= old.cap
        /\ old.status = "active"
    BY <2>1, <2>2, Counts DEF IInv, TypeOK, NoOverbooking, Active, Current
  <2>4. c \in Nat /\ s \in Nat
    BY ConstantsAssumption
  <2>5. /\ row \in ListingRow /\ row.seats + n <= row.cap
        /\ row.cap \in Capacities /\ row.status = "active"
    <3>. HIDE DEF old, n
    <3>1. (IF c # old.cap THEN c - n ELSE old.seats) \in Nat
      BY <2>1, <2>3, <2>4 DEF ListingRow
    <3>2. (old.approved /\ ~m) \in BOOLEAN
      OBVIOUS
    <3>3. row \in ListingRow
      BY <2>3, <2>4, <3>1, <3>2 DEF Patched, ListingRow
    <3>4. /\ row.seats = (IF c # old.cap THEN c - n ELSE old.seats) /\ row.cap = c
          /\ row.status = old.status
      BY <2>3 DEF Patched, ListingRow
    <3>. HIDE DEF row
    <3>. QED
      BY <2>1, <2>3, <2>4, <3>3, <3>4 DEF ListingRow
  <2>6. /\ txn'[t].at = "edit.commit" /\ txn'[t].user = txn[t].user
        /\ txn'[t].l = txn[t].l /\ txn'[t].row = row
    <3>. HIDE DEF row
    <3>. QED
      BY <2>1 DEF TxnRow, IInv, TypeOK
  <2>7. Locked(t)'
    BY <2>1, <2>2, <2>6 DEF Locked, OnListing, OnBooking, HasGuestLock, HasBookingLock,
         HasListingLock
  <2>8. Current(t)'
    <3>. HIDE DEF row
    <3>. QED
      BY <2>1, <2>3, <2>5, <2>6 DEF Current, Active
  <2>. HIDE DEF row
  <2>. QED
    BY <2>1, <2>5, <2>7, <2>8, AdvanceStep
<1>. QED
  BY <1>1, <1>2

-----------------------------------------------------------------------------
(* Commits.                                                                *)

\* A commit that keeps the tables' invariants and the other transactions'
\* locked rows keeps the whole invariant.
LEMMA CommitStep ==
    ASSUME IInv, NEW t \in Txns, End(t), UNCHANGED now, edits' \in Nat,
           listing' \in [Listings -> ListingRow],
           booking' \in [BookingIds -> BookingRow],
           told' \in [BookingIds -> SUBSET Events],
           BookingShape', NoOverbooking', PendingCap',
           \A l \in Listings : owner[l] \notin {t, None}
             => /\ listing'[l] = listing[l]
                /\ ActiveIn(booking', l) \subseteq ActiveIn(booking, l),
           \A b \in BookingIds : booking[b].status # "none"
             => /\ booking'[b].status # "none" /\ booking'[b].l = booking[b].l
                /\ owner[b] \notin {t, None} => booking'[b] = booking[b],
           \A g \in Users : owner[g] \notin {t, None}
             => PendingIn(booking', g) \subseteq PendingIn(booking, g)
    PROVE  IInv'
<1>1. IdleTxn \in TxnRow
  BY DEF IdleTxn, TxnRow, Steps
<1>2. TypeOK'
  BY <1>1 DEF IInv, TypeOK, End, Released
<1>3. /\ \A u \in Txns \ {t} : txn'[u] = txn[u]
      /\ \A r \in Resources : owner[r] \notin {t, None} => owner'[r] = owner[r]
      /\ txn'[t] = IdleTxn
  BY DEF IInv, TypeOK, End, Released
<1>4. Frame(t)
  BY <1>3 DEF Frame
<1>5. Locked(t)' /\ Current(t)'
  BY <1>3 DEF IdleTxn, Locked, Current, OnListing, OnBooking,
       HasGuestLock, HasBookingLock, HasListingLock
<1>6. NoStaleCommit'
  BY <1>4, <1>5, FrameKeepsOthers DEF NoStaleCommit, IInv
<1>. QED
  BY <1>2, <1>6 DEF IInv

\* The commit of updateListing keeps the invariant.
LEMMA EditCommitStep ==
    ASSUME IInv, NEW t \in Txns, EditCommit(t)
    PROVE  IInv'
<1>1. /\ Locked(t) /\ Current(t) /\ txn[t].at = "edit.commit"
      /\ listing' = [listing EXCEPT ![txn[t].l] = txn[t].row]
      /\ booking' = booking /\ told' = told /\ now' = now /\ edits' \in Nat /\ End(t)
  BY DEF IInv, NoStaleCommit, EditCommit, TypeOK
<1>2. txn[t].l \in Listings /\ owner[txn[t].l] = t
  BY <1>1 DEF Locked, OnListing, HasListingLock
<1>3. /\ txn[t].row \in ListingRow
      /\ txn[t].row.seats + Cardinality(ActiveIn(booking, txn[t].l)) <= txn[t].row.cap
  BY <1>1 DEF Current, Active
<1>4. /\ listing' \in [Listings -> ListingRow]
      /\ booking' \in [BookingIds -> BookingRow]
      /\ told' \in [BookingIds -> SUBSET Events]
  BY <1>1, <1>3 DEF IInv, TypeOK
<1>5. BookingShape' /\ PendingCap'
  BY <1>1 DEF IInv, BookingShape, PendingCap, Pending
<1>6. \A l \in Listings : listing'[l] = IF l = txn[t].l THEN txn[t].row ELSE listing[l]
  BY <1>1 DEF IInv, TypeOK
<1>7. NoOverbooking'
  BY <1>1, <1>3, <1>6 DEF IInv, NoOverbooking, Active
<1>. QED
  BY <1>1, <1>2, <1>4, <1>5, <1>6, <1>7, CommitStep

\* Inserting a pending booking adds exactly that booking to what its listing
\* and its guest hold.
LEMMA InsertedBooking ==
    ASSUME TypeOK, NEW b \in BookingIds, booking[b].status = "none",
           NEW new \in BookingRow, new.status = "pending",
           booking' = [booking EXCEPT ![b] = new]
    PROVE  /\ \A l : ActiveIn(booking', l) =
                       IF l = new.l THEN ActiveIn(booking, l) \cup {b} ELSE ActiveIn(booking, l)
           /\ \A g : PendingIn(booking', g) =
                       IF g = new.guest THEN PendingIn(booking, g) \cup {b}
                       ELSE PendingIn(booking, g)
           /\ \A l : b \notin ActiveIn(booking, l)
           /\ \A g : b \notin PendingIn(booking, g)
<1>1. \A x \in BookingIds : booking'[x] = IF x = b THEN new ELSE booking[x]
  BY DEF TypeOK
<1>. QED
  BY <1>1 DEF ActiveIn, PendingIn, LiveStatus

\* The commit of createBooking keeps the invariant.
LEMMA CreateCommitStep ==
    ASSUME IInv, NEW t \in Txns, NEW b \in BookingIds, CreateCommit(t, b)
    PROVE  IInv'
<1>. DEFINE l == txn[t].l
            g == txn[t].user
            new == [status |-> "pending", guest |-> g, l |-> l,
                    byGuest |-> FALSE, byHost |-> FALSE]
<1>1. /\ Locked(t) /\ Current(t) /\ txn[t].at = "create.commit" /\ booking[b].status = "none"
      /\ listing' = [listing EXCEPT ![l] = txn[t].row]
      /\ booking' = [booking EXCEPT ![b] = new]
      /\ told' = [told EXCEPT ![b] = @ \cup {"created"}]
      /\ now' = now /\ edits' = edits /\ End(t) /\ TypeOK
  BY DEF IInv, NoStaleCommit, CreateCommit
<1>2. l \in Listings /\ g \in Users /\ owner[l] = t /\ owner[g] = t
  BY <1>1 DEF Locked, OnListing, HasGuestLock, HasListingLock
<1>3. /\ listing[l] \in ListingRow /\ listing[l].seats > 0
      /\ txn[t].row = [listing[l] EXCEPT !.seats = @ - 1]
      /\ Cardinality(PendingIn(booking, g)) < MaxPending
  BY <1>1, <1>2 DEF Current, Pending, TypeOK
<1>4. new \in BookingRow /\ new.status = "pending" /\ new.l = l /\ new.guest = g
  BY <1>2 DEF BookingRow
<1>5. /\ txn[t].row \in ListingRow /\ txn[t].row.seats = listing[l].seats - 1
      /\ txn[t].row.cap = listing[l].cap
  BY <1>3 DEF ListingRow
<1>. HIDE DEF new, l, g
<1>6. /\ \A x : ActiveIn(booking', x) =
                  IF x = l THEN ActiveIn(booking, x) \cup {b} ELSE ActiveIn(booking, x)
      /\ \A x : PendingIn(booking', x) =
                  IF x = g THEN PendingIn(booking, x) \cup {b} ELSE PendingIn(booking, x)
      /\ \A x : b \notin ActiveIn(booking, x)
      /\ \A x : b \notin PendingIn(booking, x)
  BY <1>1, <1>4, InsertedBooking
<1>7. /\ Cardinality(ActiveIn(booking', l)) = Cardinality(ActiveIn(booking, l)) + 1
      /\ Cardinality(PendingIn(booking', g)) = Cardinality(PendingIn(booking, g)) + 1
  BY <1>6, Counts, FS_AddElement
<1>8. \A x \in Listings : listing'[x] = IF x = l THEN txn[t].row ELSE listing[x]
  BY <1>1 DEF TypeOK
<1>9. \A x \in BookingIds : booking'[x] = IF x = b THEN new ELSE booking[x]
  BY <1>1 DEF TypeOK
<1>10. /\ listing' \in [Listings -> ListingRow]
       /\ booking' \in [BookingIds -> BookingRow]
       /\ told' \in [BookingIds -> SUBSET Events]
  BY <1>1, <1>4, <1>5 DEF TypeOK, Events
<1>11. BookingShape'
  BY <1>2, <1>4, <1>9 DEF IInv, BookingShape
<1>12. NoOverbooking'
  <2>1. SUFFICES ASSUME NEW x \in Listings
                 PROVE  listing'[x].seats + Cardinality(ActiveIn(booking', x)) <= listing'[x].cap
    BY DEF NoOverbooking, Active
  <2>2. listing[x].seats + Cardinality(ActiveIn(booking, x)) <= listing[x].cap
        /\ listing[x] \in ListingRow
    BY DEF IInv, NoOverbooking, Active, TypeOK
  <2>3. CASE x = l
    BY <2>2, <2>3, <1>5, <1>7, <1>8, Counts DEF ListingRow
  <2>4. CASE x # l
    BY <2>2, <2>4, <1>6, <1>8
  <2>. QED
    BY <2>3, <2>4
<1>13. PendingCap'
  <2>1. SUFFICES ASSUME NEW x \in Users
                 PROVE  Cardinality(PendingIn(booking', x)) <= MaxPending
    BY DEF PendingCap, Pending
  <2>2. CASE x = g
    BY <2>2, <1>3, <1>7, Counts, ConstantsAssumption
  <2>3. CASE x # g
    BY <2>3, <1>6 DEF IInv, PendingCap, Pending
  <2>. QED
    BY <2>2, <2>3
<1>14. edits' \in Nat
  BY <1>1 DEF TypeOK
<1>. QED
  BY <1>1, <1>2, <1>6, <1>8, <1>9, <1>10, <1>11, <1>12, <1>13, <1>14, CommitStep

\* A commit that only moves bookings forward frees seats and pending slots,
\* it never takes any: the invariant survives if the seats still fit.
LEMMA ForwardCommit ==
    ASSUME IInv, NEW t \in Txns, End(t), UNCHANGED <<now, edits>>,
           booking' \in [BookingIds -> BookingRow],
           told' \in [BookingIds -> SUBSET Events],
           listing' \in [Listings -> ListingRow],
           \A l \in Listings : owner[l] \notin {t, None} => listing'[l] = listing[l],
           \A b \in BookingIds :
              /\ booking'[b].l = booking[b].l /\ booking'[b].guest = booking[b].guest
              /\ booking'[b].status \in LiveStatus => booking[b].status \in LiveStatus
              /\ booking'[b].status = "pending" => booking[b].status = "pending"
              /\ booking'[b].status = "none" <=> booking[b].status = "none"
              /\ owner[b] \notin {t, None} => booking'[b] = booking[b],
           NoOverbooking'
    PROVE  IInv'
<1>1. /\ \A l : ActiveIn(booking', l) \subseteq ActiveIn(booking, l)
      /\ \A g : PendingIn(booking', g) \subseteq PendingIn(booking, g)
  BY DEF ActiveIn, PendingIn
<1>2. PendingCap'
  <2>1. SUFFICES ASSUME NEW g \in Users
                 PROVE  Cardinality(PendingIn(booking', g)) <= MaxPending
    BY DEF PendingCap, Pending
  <2>2. Cardinality(PendingIn(booking, g)) <= MaxPending
    BY DEF IInv, PendingCap, Pending
  <2>3. Cardinality(PendingIn(booking', g)) <= Cardinality(PendingIn(booking, g))
    BY <1>1, Counts, SmallerCount
  <2>. QED
    BY <2>2, <2>3, Counts, ConstantsAssumption
<1>3. BookingShape'
  BY DEF IInv, BookingShape
<1>4. edits' \in Nat
  BY DEF IInv, TypeOK
<1>. QED
  BY <1>1, <1>2, <1>3, <1>4, CommitStep

\* Fewer live bookings with unchanged listings keep the seats in balance.
LEMMA FewerBookingsFit ==
    ASSUME IInv, \A l \in Listings : /\ listing'[l].seats = listing[l].seats
                                     /\ listing'[l].cap = listing[l].cap,
           \A l : ActiveIn(booking', l) \subseteq ActiveIn(booking, l)
    PROVE  NoOverbooking'
<1>1. SUFFICES ASSUME NEW l \in Listings
               PROVE  listing'[l].seats + Cardinality(ActiveIn(booking', l)) <= listing'[l].cap
  BY DEF NoOverbooking, Active
<1>2. listing[l].seats + Cardinality(ActiveIn(booking, l)) <= listing[l].cap
      /\ listing[l] \in ListingRow
  BY DEF IInv, NoOverbooking, Active, TypeOK
<1>3. Cardinality(ActiveIn(booking', l)) <= Cardinality(ActiveIn(booking, l))
  BY Counts, SmallerCount
<1>. QED
  BY <1>2, <1>3, Counts DEF ListingRow

\* The commit of promoteDueBooking keeps the invariant.
LEMMA PromoteCommitStep ==
    ASSUME IInv, NEW t \in Txns, PromoteCommit(t)
    PROVE  IInv'
<1>. DEFINE b == txn[t].b
<1>1. /\ Locked(t) /\ Current(t) /\ txn[t].at = "promote.commit" /\ TypeOK
      /\ booking' = [booking EXCEPT ![b].status = "in_progress"]
      /\ told' = [told EXCEPT ![b] = @ \cup {"started"}]
      /\ listing' = listing /\ now' = now /\ edits' = edits /\ End(t)
  BY DEF IInv, NoStaleCommit, PromoteCommit
<1>2. b \in BookingIds /\ owner[b] = t /\ booking[b].status = "pending"
  BY <1>1 DEF Locked, Current, OnBooking, HasBookingLock
<1>. HIDE DEF b
<1>3. /\ booking' \in [BookingIds -> BookingRow]
      /\ told' \in [BookingIds -> SUBSET Events]
      /\ listing' \in [Listings -> ListingRow]
  BY <1>1, <1>2 DEF TypeOK, BookingRow, Events
<1>4. \A x \in BookingIds :
        booking'[x] = IF x = b THEN [booking[x] EXCEPT !.status = "in_progress"] ELSE booking[x]
  BY <1>1, <1>2 DEF TypeOK
<1>5. \A x \in BookingIds :
         /\ booking'[x].l = booking[x].l /\ booking'[x].guest = booking[x].guest
         /\ booking'[x].status = IF x = b THEN "in_progress" ELSE booking[x].status
  BY <1>1, <1>4 DEF TypeOK, BookingRow
<1>6. \A l : ActiveIn(booking', l) \subseteq ActiveIn(booking, l)
  BY <1>2, <1>5 DEF ActiveIn, LiveStatus
<1>7. NoOverbooking'
  BY <1>1, <1>6, FewerBookingsFit
<1>. QED
  BY <1>1, <1>2, <1>3, <1>4, <1>5, <1>7, ForwardCommit DEF LiveStatus

\* The commit of confirmCompletion keeps the invariant.
LEMMA ConfirmCommitStep ==
    ASSUME IInv, NEW t \in Txns, ConfirmCommit(t)
    PROVE  IInv'
<1>. DEFINE b == txn[t].b
            g == booking[b].byGuest \/ txn[t].user = booking[b].guest
            h == booking[b].byHost \/ txn[t].user # booking[b].guest
            new == [booking[b] EXCEPT !.byGuest = g, !.byHost = h,
                                      !.status = IF g /\ h THEN "completed" ELSE @]
<1>1. /\ Locked(t) /\ Current(t) /\ txn[t].at = "confirm.commit" /\ TypeOK
      /\ listing' = listing /\ now' = now /\ edits' = edits /\ End(t)
  BY DEF IInv, NoStaleCommit, ConfirmCommit
<1>2. b \in BookingIds /\ owner[b] = t /\ booking[b].status = "in_progress"
  BY <1>1 DEF Locked, Current, OnBooking, HasBookingLock
<1>3. booking' = [booking EXCEPT ![b] = new]
  BY <1>1, <1>2 DEF ConfirmCommit, TypeOK
<1>4. booking[b] \in BookingRow
  BY <1>1, <1>2 DEF TypeOK
<1>5. g \in BOOLEAN /\ h \in BOOLEAN
  BY <1>4 DEF BookingRow
<1>6. /\ new \in BookingRow /\ new.l = booking[b].l /\ new.guest = booking[b].guest
      /\ new.status \in {"in_progress", "completed"}
  <2>. HIDE DEF g, h
  <2>. QED
    BY <1>2, <1>4, <1>5 DEF BookingRow
<1>7. told' \in [BookingIds -> SUBSET Events]
  <2>1. told' = [told EXCEPT ![b] = IF g /\ h THEN @ \cup {"completed"} ELSE @]
    BY DEF ConfirmCommit
  <2>. HIDE DEF g, h, b
  <2>. QED
    BY <2>1, <1>1, <1>2 DEF TypeOK, Events
<1>. HIDE DEF b, new
<1>8. /\ booking' \in [BookingIds -> BookingRow]
      /\ listing' \in [Listings -> ListingRow]
  BY <1>1, <1>3, <1>6 DEF TypeOK
<1>9. \A x \in BookingIds : booking'[x] = IF x = b THEN new ELSE booking[x]
  BY <1>1, <1>3 DEF TypeOK
<1>10. \A l : ActiveIn(booking', l) \subseteq ActiveIn(booking, l)
  BY <1>2, <1>6, <1>9 DEF ActiveIn, LiveStatus
<1>11. NoOverbooking'
  BY <1>1, <1>10, FewerBookingsFit
<1>. QED
  BY <1>1, <1>2, <1>6, <1>7, <1>8, <1>9, <1>11, ForwardCommit DEF LiveStatus

\* The commit of cancelListing keeps the invariant.
LEMMA DropCommitStep ==
    ASSUME IInv, NEW t \in Txns, DropCommit(t)
    PROVE  IInv'
<1>. DEFINE l == txn[t].l
            hit == {b \in Active(l) : owner[b] = t}
<1>1. /\ Locked(t) /\ Current(t) /\ txn[t].at = "drop.commit" /\ TypeOK
      /\ listing' = [listing EXCEPT ![l] = txn[t].row]
      /\ booking' = [b \in BookingIds |->
                       IF b \in hit THEN [booking[b] EXCEPT !.status = "cancelled"]
                       ELSE booking[b]]
      /\ told' = [b \in BookingIds |->
                    IF b \in hit THEN told[b] \cup {"listing_cancelled"} ELSE told[b]]
      /\ now' = now /\ edits' = edits /\ End(t)
  BY DEF IInv, NoStaleCommit, DropCommit, DropOnly
<1>2. l \in Listings /\ owner[l] = t
  BY <1>1 DEF Locked, OnListing, HasListingLock
<1>3. txn[t].row = [listing[l] EXCEPT !.status = "cancelled"] /\ listing[l] \in ListingRow
  BY <1>1, <1>2 DEF Current, TypeOK
<1>4. /\ txn[t].row \in ListingRow /\ txn[t].row.seats = listing[l].seats
      /\ txn[t].row.cap = listing[l].cap
  BY <1>3 DEF ListingRow
<1>5. \A b \in hit : owner[b] = t /\ booking[b].status \in LiveStatus
  BY DEF Active, ActiveIn
<1>. HIDE DEF l, hit
<1>6. /\ booking' \in [BookingIds -> BookingRow]
      /\ told' \in [BookingIds -> SUBSET Events]
      /\ listing' \in [Listings -> ListingRow]
  BY <1>1, <1>4 DEF TypeOK, BookingRow, Events
<1>7. \A b \in BookingIds :
         /\ booking'[b].l = booking[b].l /\ booking'[b].guest = booking[b].guest
         /\ booking'[b].status = IF b \in hit THEN "cancelled" ELSE booking[b].status
         /\ b \notin hit => booking'[b] = booking[b]
  BY <1>1 DEF TypeOK, BookingRow
<1>8. \A x \in Listings : listing'[x] = IF x = l THEN txn[t].row ELSE listing[x]
  BY <1>1 DEF TypeOK
<1>9. \A x : ActiveIn(booking', x) \subseteq ActiveIn(booking, x)
  BY <1>7 DEF ActiveIn, LiveStatus
<1>10. NoOverbooking'
  BY <1>4, <1>8, <1>9, FewerBookingsFit
<1>. QED
  BY <1>1, <1>2, <1>5, <1>6, <1>7, <1>8, <1>10, ForwardCommit DEF LiveStatus

\* The commit of cancelBooking keeps the invariant: one live booking less,
\* one free seat more.
LEMMA CancelCommitStep ==
    ASSUME IInv, NEW t \in Txns, CancelCommit(t)
    PROVE  IInv'
<1>. DEFINE l == txn[t].l
            b == txn[t].b
            event == IF txn[t].user = booking[b].guest
                     THEN "cancelled_by_guest" ELSE "cancelled_by_host"
<1>1. /\ Locked(t) /\ Current(t) /\ txn[t].at = "cancel.commit" /\ TypeOK
      /\ listing' = [listing EXCEPT ![l] = txn[t].row]
      /\ booking' = [booking EXCEPT ![b].status = "cancelled"]
      /\ told' = [told EXCEPT ![b] = @ \cup {event}]
      /\ now' = now /\ edits' = edits /\ End(t)
  BY DEF IInv, NoStaleCommit, CancelCommit
<1>2. /\ l \in Listings /\ owner[l] = t /\ b \in BookingIds /\ owner[b] = t
      /\ booking[b].status = "pending" /\ booking[b].l = l
  BY <1>1 DEF Locked, Current, OnBooking, HasBookingLock, HasListingLock
<1>3. txn[t].row = [listing[l] EXCEPT !.seats = @ + 1] /\ listing[l] \in ListingRow
  BY <1>1, <1>2 DEF Current, TypeOK
<1>4. /\ txn[t].row \in ListingRow /\ txn[t].row.seats = listing[l].seats + 1
      /\ txn[t].row.cap = listing[l].cap
  BY <1>3 DEF ListingRow
<1>5. event \in Events
  BY DEF Events
<1>. HIDE DEF l, b, event
<1>6. /\ booking' \in [BookingIds -> BookingRow]
      /\ told' \in [BookingIds -> SUBSET Events]
      /\ listing' \in [Listings -> ListingRow]
  BY <1>1, <1>4, <1>5 DEF TypeOK, BookingRow
<1>7. \A x \in BookingIds :
        booking'[x] = IF x = b THEN [booking[x] EXCEPT !.status = "cancelled"] ELSE booking[x]
  BY <1>1 DEF TypeOK
<1>8. \A x \in BookingIds :
         /\ booking'[x].l = booking[x].l /\ booking'[x].guest = booking[x].guest
         /\ booking'[x].status = IF x = b THEN "cancelled" ELSE booking[x].status
  BY <1>1, <1>7 DEF TypeOK, BookingRow
<1>9. \A x \in Listings : listing'[x] = IF x = l THEN txn[t].row ELSE listing[x]
  BY <1>1 DEF TypeOK
<1>10. /\ \A x : ActiveIn(booking', x) \subseteq ActiveIn(booking, x)
       /\ ActiveIn(booking', l) = ActiveIn(booking, l) \ {b}
       /\ b \in ActiveIn(booking, l)
  BY <1>2, <1>8 DEF ActiveIn, LiveStatus
<1>11. Cardinality(ActiveIn(booking', l)) = Cardinality(ActiveIn(booking, l)) - 1
  BY <1>10, Counts, FS_RemoveElement
<1>12. NoOverbooking'
  <2>1. SUFFICES ASSUME NEW x \in Listings
                 PROVE  listing'[x].seats + Cardinality(ActiveIn(booking', x)) <= listing'[x].cap
    BY DEF NoOverbooking, Active
  <2>2. listing[x].seats + Cardinality(ActiveIn(booking, x)) <= listing[x].cap
        /\ listing[x] \in ListingRow
    BY DEF IInv, NoOverbooking, Active, TypeOK
  <2>3. CASE x = l
    BY <2>2, <2>3, <1>4, <1>9, <1>11, Counts DEF ListingRow
  <2>4. CASE x # l
    <3>1. Cardinality(ActiveIn(booking', x)) <= Cardinality(ActiveIn(booking, x))
      BY <1>10, Counts, SmallerCount
    <3>. QED
      BY <2>2, <2>4, <3>1, <1>9, Counts DEF ListingRow
  <2>. QED
    BY <2>3, <2>4
<1>. QED
  BY <1>1, <1>2, <1>6, <1>7, <1>8, <1>9, <1>12, ForwardCommit DEF LiveStatus

-----------------------------------------------------------------------------
(* The other writers of a listing row, and the clock.                      *)

\* A write of free listing rows that leaves seats and capacity alone, or a
\* tick of the clock, keeps the invariant.
LEMMA OutsideStep ==
    ASSUME IInv, UNCHANGED <<booking, told, owner, txn, edits>>, now' \in Nat,
           listing' \in [Listings -> ListingRow],
           \A l \in Listings :
              /\ listing'[l].seats = listing[l].seats /\ listing'[l].cap = listing[l].cap
              /\ owner[l] # None => listing'[l] = listing[l]
    PROVE  IInv'
<1>1. TypeOK'
  BY DEF IInv, TypeOK
<1>2. BookingShape' /\ PendingCap' /\ NoOverbooking'
  BY DEF IInv, BookingShape, PendingCap, NoOverbooking, Active, Pending
<1>3. Frame(None)
  BY DEF Frame
<1>4. NoStaleCommit'
  BY <1>3, FrameKeepsOthers, ConstantsAssumption DEF NoStaleCommit, IInv
<1>. QED
  BY <1>1, <1>2, <1>4 DEF IInv

\* setModerationStatus, scrubListings and the clock keep the invariant.
LEMMA EnvironmentStep ==
    ASSUME IInv,
           \/ \E l \in Listings, v \in BOOLEAN : SetModerationStatus(l, v)
           \/ \E h \in Users : ScrubListings(h)
           \/ Tick
    PROVE  IInv'
<1>1. CASE \E l \in Listings, v \in BOOLEAN : SetModerationStatus(l, v)
  <2>1. PICK l \in Listings, v \in BOOLEAN : SetModerationStatus(l, v)
    BY <1>1
  <2>2. /\ listing' = [listing EXCEPT ![l] = [listing[l] EXCEPT !.approved = v]]
        /\ owner[l] = None
        /\ UNCHANGED <<booking, told, owner, txn, edits>> /\ now' = now
    BY <2>1 DEF SetModerationStatus
  <2>3. \A x \in Listings : listing'[x] = IF x = l THEN [listing[x] EXCEPT !.approved = v]
                                          ELSE listing[x]
    BY <2>2 DEF IInv, TypeOK
  <2>4. \A x \in Listings :
           /\ listing'[x] \in ListingRow
           /\ listing'[x].seats = listing[x].seats /\ listing'[x].cap = listing[x].cap
    BY <2>3 DEF IInv, TypeOK, ListingRow
  <2>5. listing' \in [Listings -> ListingRow]
    BY <2>2, <2>4 DEF IInv, TypeOK
  <2>6. now' \in Nat
    BY <2>2 DEF IInv, TypeOK
  <2>. QED
    BY <2>2, <2>3, <2>4, <2>5, <2>6, OutsideStep
<1>2. CASE \E h \in Users : ScrubListings(h)
  <2>1. PICK h \in Users : ScrubListings(h)
    BY <1>2
  <2>2. \A x \in Listings :
           /\ listing'[x] \in ListingRow
           /\ listing'[x].seats = listing[x].seats /\ listing'[x].cap = listing[x].cap
           /\ owner[x] # None => listing'[x] = listing[x]
    BY <2>1 DEF ScrubListings, IInv, TypeOK, ListingRow
  <2>3. listing' \in [Listings -> ListingRow]
    BY <2>1, <2>2 DEF ScrubListings
  <2>4. now' \in Nat /\ UNCHANGED <<booking, told, owner, txn, edits>>
    BY <2>1 DEF ScrubListings, IInv, TypeOK
  <2>. QED
    BY <2>2, <2>3, <2>4, OutsideStep
<1>3. CASE Tick
  BY <1>3, OutsideStep DEF Tick, IInv, TypeOK
<1>. QED
  BY <1>1, <1>2, <1>3

-----------------------------------------------------------------------------
(* The invariant holds initially and is inductive.                         *)

\* In the initial states every seat is free and no transaction runs.
LEMMA InitIInv == Init => IInv
<1>. SUFFICES ASSUME Init PROVE IInv
  OBVIOUS
<1>. DEFINE start == {[status |-> "active", approved |-> TRUE, cap |-> c,
                       seats |-> c, start |-> s] : c \in Capacities, s \in 1..MaxTime}
<1>0. \A r \in start : r \in ListingRow /\ r.seats = r.cap
  <2>1. SUFFICES ASSUME NEW c \in Capacities, NEW s \in 1..MaxTime, NEW r,
                        r = [status |-> "active", approved |-> TRUE, cap |-> c,
                             seats |-> c, start |-> s]
                 PROVE  r \in ListingRow /\ r.seats = r.cap
    OBVIOUS
  <2>2. c \in Nat /\ s \in Nat
    BY ConstantsAssumption
  <2>. QED
    BY <2>1, <2>2 DEF ListingRow
<1>1. TypeOK
  <2>1. listing \in [Listings -> start]
    BY DEF Init
  <2>2. listing \in [Listings -> ListingRow]
    <3>. HIDE DEF start
    <3>. QED
      BY <2>1, <1>0
  <2>3. NoBooking \in BookingRow /\ IdleTxn \in TxnRow
    BY DEF NoBooking, BookingRow, IdleTxn, TxnRow, Steps
  <2>. QED
    BY <2>2, <2>3 DEF Init, TypeOK
<1>2. BookingShape
  BY DEF Init, BookingShape, NoBooking
<1>3. NoStaleCommit
  BY DEF Init, NoStaleCommit, Locked, Current, IdleTxn, OnListing, OnBooking,
       HasGuestLock, HasBookingLock, HasListingLock
<1>4. /\ \A l : ActiveIn(booking, l) = {}
      /\ \A g : PendingIn(booking, g) = {}
  BY DEF Init, NoBooking, ActiveIn, PendingIn, LiveStatus
<1>5. \A l \in Listings : listing[l].seats = listing[l].cap /\ listing[l].cap \in Nat
  <2>1. \A l \in Listings : listing[l] \in start /\ listing[l] \in ListingRow
    BY <1>1 DEF Init, TypeOK
  <2>. HIDE DEF start
  <2>. QED
    BY <2>1, <1>0 DEF ListingRow
<1>6. NoOverbooking
  <2>1. Cardinality({}) = 0
    BY FS_EmptySet
  <2>2. \A l \in Listings : Cardinality(Active(l)) = 0
    BY <2>1, <1>4 DEF Active
  <2>. QED
    BY <2>2, <1>5 DEF NoOverbooking
<1>7. PendingCap
  BY <1>4, FS_EmptySet, ConstantsAssumption DEF PendingCap, Pending
<1>. QED
  BY <1>1, <1>2, <1>3, <1>6, <1>7 DEF IInv

\* Every step keeps the invariant.
LEMMA NextIInv == IInv /\ [Next]_vars => IInv'
<1>. SUFFICES ASSUME IInv, [Next]_vars PROVE IInv'
  OBVIOUS
<1>1. CASE UNCHANGED vars
  BY <1>1 DEF vars, IInv, TypeOK, BookingShape, NoStaleCommit, Locked, Current,
       NoOverbooking, PendingCap, Active, Pending
<1>2. ASSUME NEW t \in Txns, Request(t) PROVE IInv'
  BY <1>2, RequestStep
<1>3. ASSUME NEW t \in Txns, TxnStep(t) PROVE IInv'
  <2>1. CASE CreateLock(t)
    BY <2>1, CreateLockStep
  <2>2. CASE CreateCheck(t)
    BY <2>2, CreateCheckStep
  <2>3. CASE CreateDecrement(t)
    BY <2>3, CreateDecrementStep
  <2>4. CASE \E b \in BookingIds : CreateCommit(t, b)
    BY <2>4, CreateCommitStep
  <2>5. CASE CancelLock(t) \/ ConfirmLock(t) \/ PromoteLock(t)
    BY <2>5, LockOrLeaveStep
  <2>6. CASE CancelMark(t)
    BY <2>6, CancelMarkStep
  <2>7. CASE CancelRestore(t)
    BY <2>7, CancelRestoreStep
  <2>8. CASE CancelCommit(t)
    BY <2>8, CancelCommitStep
  <2>9. CASE ConfirmCommit(t)
    BY <2>9, ConfirmCommitStep
  <2>10. CASE PromoteCommit(t)
    BY <2>10, PromoteCommitStep
  <2>11. CASE DropLock(t)
    BY <2>11, DropLockStep
  <2>12. CASE DropCascade(t)
    BY <2>12, DropCascadeStep
  <2>13. CASE DropCommit(t)
    BY <2>13, DropCommitStep
  <2>14. CASE EditLock(t)
    BY <2>14, EditLockStep
  <2>15. CASE \E c \in Capacities, s \in 1..MaxTime, m \in BOOLEAN : EditCount(t, c, s, m)
    BY <2>15, EditCountStep
  <2>16. CASE EditCommit(t)
    BY <2>16, EditCommitStep
  <2>. QED
    BY <1>3, <2>1, <2>2, <2>3, <2>4, <2>5, <2>6, <2>7, <2>8, <2>9, <2>10, <2>11, <2>12,
       <2>13, <2>14, <2>15, <2>16 DEF TxnStep
<1>4. ASSUME NEW t \in Txns, Rollback(t) \/ DeadlockAbort(t) PROVE IInv'
  BY <1>4, LeaveStep DEF Rollback, DeadlockAbort
<1>. QED
  BY <1>1, <1>2, <1>3, <1>4, EnvironmentStep DEF Next

\* The inductive invariant holds in every reachable state.
THEOREM Invariance == Spec => []IInv
<1>. QED
  BY InitIInv, NextIInv, PTL DEF Spec

\* Type correctness of the tables, the lock table and the transactions, for
\* any number of users, listings, bookings and connections.
THEOREM TypeCorrect == Spec => []TypeOK
<1>1. IInv => TypeOK
  BY DEF IInv
<1>. QED
  BY Invariance, <1>1, PTL

\* FR-12: no interleaving of createBooking, cancelBooking, confirmCompletion,
\* promoteDueBooking, cancelListing, updateListing, moderation, erasure,
\* rollback and deadlock abort ever sells a seat twice.
THEOREM SeatsNeverOversold == Spec => []NoOverbooking
<1>1. IInv => NoOverbooking
  BY DEF IInv
<1>. QED
  BY Invariance, <1>1, PTL

\* AB-02: the pending cap holds under any number of concurrent reservations
\* of the same guest.
THEOREM PendingCapHolds == Spec => []PendingCap
<1>1. IInv => PendingCap
  BY DEF IInv
<1>. QED
  BY Invariance, <1>1, PTL

\* Whatever a transaction has checked is still true when it commits.
THEOREM CommitsAreCurrent == Spec => []NoStaleCommit
<1>1. IInv => NoStaleCommit
  BY DEF IInv
<1>. QED
  BY Invariance, <1>1, PTL

-----------------------------------------------------------------------------
(* The ledger.                                                             *)

\* The commits of the six services.
Commit(t) ==
    \/ \E b \in BookingIds : CreateCommit(t, b)
    \/ CancelCommit(t) \/ ConfirmCommit(t) \/ PromoteCommit(t)
    \/ DropCommit(t) \/ EditCommit(t)

\* Only a commit, a moderation verdict and the erasure job change the tables.
LEMMA OnlyCommitsPublish ==
    ASSUME [Next]_vars
    PROVE  \/ UNCHANGED <<listing, booking, told>>
           \/ \E t \in Txns : Commit(t)
           \/ \E l \in Listings, v \in BOOLEAN : SetModerationStatus(l, v)
           \/ \E h \in Users : ScrubListings(h)
<1>1. CASE UNCHANGED vars
  BY <1>1 DEF vars
<1>2. ASSUME NEW t \in Txns, Request(t)
      PROVE  UNCHANGED <<listing, booking, told>>
  BY <1>2 DEF Request, BeginCreate, BeginDrop, BeginEdit, BeginCancel, BeginConfirm,
       BeginPromote, Begin
<1>3. ASSUME NEW t \in Txns, Rollback(t) \/ DeadlockAbort(t)
      PROVE  UNCHANGED <<listing, booking, told>>
  BY <1>3 DEF Rollback, DeadlockAbort, Leave
<1>4. ASSUME NEW t \in Txns, TxnStep(t)
      PROVE  UNCHANGED <<listing, booking, told>> \/ Commit(t)
  BY <1>4 DEF TxnStep, Commit, Leave, CreateLock, CreateCheck, CreateDecrement, CancelLock,
       CancelMark, CancelRestore, ConfirmLock, PromoteLock, DropLock, DropCascade,
       EditLock, EditCount
<1>5. CASE Tick
  BY <1>5 DEF Tick
<1>. QED
  BY <1>1, <1>2, <1>3, <1>4, <1>5 DEF Next

-----------------------------------------------------------------------------
(* What each commit publishes.                                             *)

\* createBooking: one seat less, one pending booking more.
LEMMA CreateEffect ==
    ASSUME IInv, NEW t \in Txns, NEW b \in BookingIds, CreateCommit(t, b)
    PROVE  /\ txn[t].l \in Listings /\ listing[txn[t].l].status = "active"
           /\ listing[txn[t].l].seats > 0
           /\ booking[b].status = "none" /\ booking'[b].status = "pending"
           /\ booking'[b].l = txn[t].l
           /\ \A x \in BookingIds \ {b} : booking'[x] = booking[x]
           /\ \A l \in Listings :
                 /\ listing'[l].status = listing[l].status
                 /\ listing'[l].cap = listing[l].cap
                 /\ listing'[l].seats = IF l = txn[t].l THEN listing[l].seats - 1
                                        ELSE listing[l].seats
           /\ told' = [told EXCEPT ![b] = @ \cup {"created"}]
<1>1. /\ Locked(t) /\ Current(t) /\ TypeOK /\ txn[t].at = "create.commit"
      /\ booking[b].status = "none"
      /\ listing' = [listing EXCEPT ![txn[t].l] = txn[t].row]
      /\ booking' = [booking EXCEPT ![b] = [status |-> "pending", guest |-> txn[t].user,
                                            l |-> txn[t].l, byGuest |-> FALSE, byHost |-> FALSE]]
      /\ told' = [told EXCEPT ![b] = @ \cup {"created"}]
  BY DEF IInv, NoStaleCommit, CreateCommit
<1>2. txn[t].l \in Listings
  BY <1>1 DEF Locked, OnListing
<1>3. /\ listing[txn[t].l].status = "active" /\ listing[txn[t].l].seats > 0
      /\ txn[t].row = [listing[txn[t].l] EXCEPT !.seats = @ - 1]
      /\ listing[txn[t].l] \in ListingRow
  BY <1>1, <1>2 DEF Current, TypeOK
<1>4. /\ txn[t].row.status = listing[txn[t].l].status
      /\ txn[t].row.cap = listing[txn[t].l].cap
      /\ txn[t].row.seats = listing[txn[t].l].seats - 1
  BY <1>3 DEF ListingRow
<1>5. \A l \in Listings : listing'[l] = IF l = txn[t].l THEN txn[t].row ELSE listing[l]
  BY <1>1 DEF TypeOK
<1>. QED
  BY <1>1, <1>2, <1>3, <1>4, <1>5 DEF TypeOK

\* cancelBooking: one seat more, a pending booking is cancelled.
LEMMA CancelEffect ==
    ASSUME IInv, NEW t \in Txns, CancelCommit(t)
    PROVE  /\ txn[t].l \in Listings /\ txn[t].b \in BookingIds
           /\ booking[txn[t].b].status = "pending" /\ booking[txn[t].b].l = txn[t].l
           /\ booking'[txn[t].b].status = "cancelled" /\ booking'[txn[t].b].l = txn[t].l
           /\ \A x \in BookingIds \ {txn[t].b} : booking'[x] = booking[x]
           /\ \A l \in Listings :
                 /\ listing'[l].status = listing[l].status
                 /\ listing'[l].cap = listing[l].cap
                 /\ listing'[l].seats = IF l = txn[t].l THEN listing[l].seats + 1
                                        ELSE listing[l].seats
           /\ \E e \in CancelEvents : told' = [told EXCEPT ![txn[t].b] = @ \cup {e}]
<1>1. /\ Locked(t) /\ Current(t) /\ TypeOK /\ txn[t].at = "cancel.commit"
      /\ listing' = [listing EXCEPT ![txn[t].l] = txn[t].row]
      /\ booking' = [booking EXCEPT ![txn[t].b] = [booking[txn[t].b] EXCEPT !.status = "cancelled"]]
  BY DEF IInv, NoStaleCommit, CancelCommit
<1>2. /\ txn[t].l \in Listings /\ txn[t].b \in BookingIds
      /\ booking[txn[t].b].status = "pending" /\ booking[txn[t].b].l = txn[t].l
      /\ booking[txn[t].b] \in BookingRow
  BY <1>1 DEF Locked, Current, OnBooking, TypeOK
<1>3. /\ txn[t].row = [listing[txn[t].l] EXCEPT !.seats = @ + 1]
      /\ listing[txn[t].l] \in ListingRow
  BY <1>1, <1>2 DEF Current, TypeOK
<1>4. /\ txn[t].row.status = listing[txn[t].l].status
      /\ txn[t].row.cap = listing[txn[t].l].cap
      /\ txn[t].row.seats = listing[txn[t].l].seats + 1
  BY <1>3 DEF ListingRow
<1>5. \A l \in Listings : listing'[l] = IF l = txn[t].l THEN txn[t].row ELSE listing[l]
  BY <1>1 DEF TypeOK
<1>6. /\ booking'[txn[t].b].status = "cancelled" /\ booking'[txn[t].b].l = txn[t].l
      /\ \A x \in BookingIds \ {txn[t].b} : booking'[x] = booking[x]
  BY <1>1, <1>2 DEF TypeOK, BookingRow
<1>7. \E e \in CancelEvents : told' = [told EXCEPT ![txn[t].b] = @ \cup {e}]
  BY DEF CancelCommit, CancelEvents
<1>8. \A l \in Listings :
         /\ listing'[l].status = listing[l].status
         /\ listing'[l].cap = listing[l].cap
         /\ listing'[l].seats = IF l = txn[t].l THEN listing[l].seats + 1 ELSE listing[l].seats
  BY <1>2, <1>4, <1>5
<1>. QED
  BY <1>2, <1>6, <1>7, <1>8

\* confirmCompletion: a flag is set, and the second one completes the booking.
LEMMA ConfirmEffect ==
    ASSUME IInv, NEW t \in Txns, ConfirmCommit(t)
    PROVE  /\ listing' = listing /\ txn[t].b \in BookingIds
           /\ booking[txn[t].b].status = "in_progress"
           /\ booking'[txn[t].b].status \in {"in_progress", "completed"}
           /\ booking'[txn[t].b].l = booking[txn[t].b].l
           /\ \A x \in BookingIds \ {txn[t].b} : booking'[x] = booking[x]
           /\ \A x \in BookingIds : told'[x] \cap CancelEvents = told[x] \cap CancelEvents
<1>. DEFINE b == txn[t].b
            g == booking[b].byGuest \/ txn[t].user = booking[b].guest
            h == booking[b].byHost \/ txn[t].user # booking[b].guest
            new == [booking[b] EXCEPT !.byGuest = g, !.byHost = h,
                                      !.status = IF g /\ h THEN "completed" ELSE @]
<1>1. /\ Locked(t) /\ Current(t) /\ TypeOK /\ txn[t].at = "confirm.commit" /\ listing' = listing
  BY DEF IInv, NoStaleCommit, ConfirmCommit
<1>2. /\ booking' = [booking EXCEPT ![b] = new]
      /\ told' = [told EXCEPT ![b] = IF g /\ h THEN @ \cup {"completed"} ELSE @]
  BY <1>1 DEF ConfirmCommit, TypeOK
<1>3. b \in BookingIds /\ booking[b].status = "in_progress" /\ booking[b] \in BookingRow
  BY <1>1 DEF Locked, Current, OnBooking, TypeOK
<1>4. new.status \in {"in_progress", "completed"} /\ new.l = booking[b].l
  <2>. HIDE DEF g, h
  <2>. QED
    BY <1>3 DEF BookingRow
<1>5. \A x \in BookingIds : told'[x] = told[x] \/ told'[x] = told[x] \cup {"completed"}
  <2>. HIDE DEF g, h, b
  <2>. QED
    BY <1>1, <1>2, <1>3 DEF TypeOK
<1>6. \A x \in BookingIds : booking'[x] = IF x = b THEN new ELSE booking[x]
  <2>. HIDE DEF new, b
  <2>. QED
    BY <1>1, <1>2, <1>3 DEF TypeOK
<1>. HIDE DEF new
<1>. QED
  BY <1>1, <1>3, <1>4, <1>5, <1>6 DEF CancelEvents

\* promoteDueBooking: a pending booking starts.
LEMMA PromoteEffect ==
    ASSUME IInv, NEW t \in Txns, PromoteCommit(t)
    PROVE  /\ listing' = listing /\ txn[t].b \in BookingIds
           /\ booking[txn[t].b].status = "pending"
           /\ booking'[txn[t].b].status = "in_progress"
           /\ booking'[txn[t].b].l = booking[txn[t].b].l
           /\ \A x \in BookingIds \ {txn[t].b} : booking'[x] = booking[x]
           /\ told' = [told EXCEPT ![txn[t].b] = @ \cup {"started"}]
<1>1. /\ Locked(t) /\ Current(t) /\ TypeOK /\ txn[t].at = "promote.commit" /\ listing' = listing
      /\ booking' = [booking EXCEPT ![txn[t].b] = [booking[txn[t].b] EXCEPT !.status = "in_progress"]]
      /\ told' = [told EXCEPT ![txn[t].b] = @ \cup {"started"}]
  BY DEF IInv, NoStaleCommit, PromoteCommit
<1>2. /\ txn[t].b \in BookingIds /\ booking[txn[t].b].status = "pending"
      /\ booking[txn[t].b] \in BookingRow
  BY <1>1 DEF Locked, Current, OnBooking, TypeOK
<1>. QED
  BY <1>1, <1>2 DEF TypeOK, BookingRow

\* cancelListing: the listing closes and all its live bookings are cancelled.
LEMMA DropEffect ==
    ASSUME IInv, NEW t \in Txns, DropCommit(t)
    PROVE  /\ txn[t].l \in Listings /\ listing[txn[t].l].status = "active"
           /\ \A l \in Listings :
                 /\ listing'[l].status = IF l = txn[t].l THEN "cancelled" ELSE listing[l].status
                 /\ listing'[l].cap = listing[l].cap
                 /\ listing'[l].seats = listing[l].seats
           /\ \A x \in BookingIds :
                 IF x \in Active(txn[t].l)
                 THEN /\ booking'[x].status = "cancelled" /\ booking'[x].l = booking[x].l
                      /\ told'[x] = told[x] \cup {"listing_cancelled"}
                 ELSE booking'[x] = booking[x] /\ told'[x] = told[x]
<1>. DEFINE hit == {b \in Active(txn[t].l) : owner[b] = t}
<1>1. /\ Locked(t) /\ Current(t) /\ TypeOK /\ txn[t].at = "drop.commit"
      /\ listing' = [listing EXCEPT ![txn[t].l] = txn[t].row]
      /\ booking' = [b \in BookingIds |->
                       IF b \in hit THEN [booking[b] EXCEPT !.status = "cancelled"]
                       ELSE booking[b]]
      /\ told' = [b \in BookingIds |->
                    IF b \in hit THEN told[b] \cup {"listing_cancelled"} ELSE told[b]]
  BY DEF IInv, NoStaleCommit, DropCommit, DropOnly
<1>2. hit = Active(txn[t].l)
  BY <1>1 DEF Current
<1>3. /\ txn[t].l \in Listings /\ listing[txn[t].l].status = "active"
      /\ txn[t].row = [listing[txn[t].l] EXCEPT !.status = "cancelled"]
      /\ listing[txn[t].l] \in ListingRow
  BY <1>1 DEF Locked, Current, OnListing, TypeOK
<1>4. /\ txn[t].row.status = "cancelled" /\ txn[t].row.cap = listing[txn[t].l].cap
      /\ txn[t].row.seats = listing[txn[t].l].seats
  BY <1>3 DEF ListingRow
<1>5. \A l \in Listings : listing'[l] = IF l = txn[t].l THEN txn[t].row ELSE listing[l]
  BY <1>1 DEF TypeOK
<1>. HIDE DEF hit
<1>. QED
  BY <1>1, <1>2, <1>3, <1>4, <1>5 DEF TypeOK, BookingRow

\* updateListing: a listing that stays open, with seats for its live bookings.
LEMMA EditEffect ==
    ASSUME IInv, NEW t \in Txns, EditCommit(t)
    PROVE  /\ txn[t].l \in Listings /\ listing[txn[t].l].status = "active"
           /\ booking' = booking /\ told' = told
           /\ txn[t].row.cap \in Capacities /\ txn[t].row.seats \in Nat
           /\ txn[t].row.seats + Cardinality(Active(txn[t].l)) <= txn[t].row.cap
           /\ listing'[txn[t].l] = txn[t].row /\ txn[t].row.status = "active"
           /\ \A l \in Listings \ {txn[t].l} : listing'[l] = listing[l]
<1>1. /\ Locked(t) /\ Current(t) /\ TypeOK /\ txn[t].at = "edit.commit"
      /\ listing' = [listing EXCEPT ![txn[t].l] = txn[t].row]
      /\ booking' = booking /\ told' = told
  BY DEF IInv, NoStaleCommit, EditCommit
<1>2. txn[t].l \in Listings /\ txn[t].row \in ListingRow
  BY <1>1 DEF Locked, Current, OnListing
<1>. QED
  BY <1>1, <1>2 DEF Current, TypeOK, ListingRow

-----------------------------------------------------------------------------
(* FR-13: every cancellation is announced, and only once.                  *)

\* Whether a booking was announced as cancelled is what its status says.
Announced ==
    \A b \in BookingIds :
        IF booking[b].status = "cancelled"
        THEN \E e \in CancelEvents : told[b] \cap CancelEvents = {e}
        ELSE told[b] \cap CancelEvents = {}

\* A step either leaves alone whether b is cancelled and announced, or it
\* cancels a live booking and announces that in the same transaction.
LEMMA AnnouncementStep ==
    ASSUME IInv, [Next]_vars, NEW b \in BookingIds
    PROVE  \/ /\ booking'[b].status = "cancelled" <=> booking[b].status = "cancelled"
              /\ told'[b] \cap CancelEvents = told[b] \cap CancelEvents
           \/ /\ booking[b].status \in LiveStatus /\ booking'[b].status = "cancelled"
              /\ \E e \in CancelEvents : told'[b] = told[b] \cup {e}
<1>. /\ told \in [BookingIds -> SUBSET Events]
     /\ "created" \notin CancelEvents /\ "started" \notin CancelEvents
     /\ "listing_cancelled" \in CancelEvents
  BY DEF IInv, TypeOK, CancelEvents
<1>1. CASE UNCHANGED <<listing, booking, told>>
  BY <1>1
<1>2. CASE \/ \E l \in Listings, v \in BOOLEAN : SetModerationStatus(l, v)
           \/ \E h \in Users : ScrubListings(h)
  BY <1>2 DEF SetModerationStatus, ScrubListings
<1>3. ASSUME NEW t \in Txns, NEW x \in BookingIds, CreateCommit(t, x)
      PROVE  /\ booking'[b].status = "cancelled" <=> booking[b].status = "cancelled"
             /\ told'[b] \cap CancelEvents = told[b] \cap CancelEvents
  BY <1>3, CreateEffect
<1>4. ASSUME NEW t \in Txns, CancelCommit(t), txn[t].b # b
      PROVE  booking'[b] = booking[b] /\ told'[b] = told[b]
  BY <1>4, CancelEffect
<1>5. ASSUME NEW t \in Txns, CancelCommit(t), txn[t].b = b
      PROVE  /\ booking[b].status \in LiveStatus /\ booking'[b].status = "cancelled"
             /\ \E e \in CancelEvents : told'[b] = told[b] \cup {e}
  BY <1>5, CancelEffect DEF LiveStatus
<1>6. ASSUME NEW t \in Txns, ConfirmCommit(t)
      PROVE  /\ booking'[b].status = "cancelled" <=> booking[b].status = "cancelled"
             /\ told'[b] \cap CancelEvents = told[b] \cap CancelEvents
  BY <1>6, ConfirmEffect
<1>7. ASSUME NEW t \in Txns, PromoteCommit(t)
      PROVE  /\ booking'[b].status = "cancelled" <=> booking[b].status = "cancelled"
             /\ told'[b] \cap CancelEvents = told[b] \cap CancelEvents
  BY <1>7, PromoteEffect
<1>8. ASSUME NEW t \in Txns, DropCommit(t), b \in Active(txn[t].l)
      PROVE  /\ booking[b].status \in LiveStatus /\ booking'[b].status = "cancelled"
             /\ \E e \in CancelEvents : told'[b] = told[b] \cup {e}
  BY <1>8, DropEffect DEF Active, ActiveIn
<1>9. ASSUME NEW t \in Txns, DropCommit(t), b \notin Active(txn[t].l)
      PROVE  booking'[b] = booking[b] /\ told'[b] = told[b]
  BY <1>9, DropEffect
<1>10. ASSUME NEW t \in Txns, EditCommit(t)
       PROVE  booking'[b] = booking[b] /\ told'[b] = told[b]
  BY <1>10, EditEffect
<1>. QED
  BY <1>1, <1>2, <1>3, <1>4, <1>5, <1>6, <1>7, <1>8, <1>9, <1>10, OnlyCommitsPublish DEF Commit

\* Announced is inductive.
LEMMA NextAnnounced == IInv /\ Announced /\ [Next]_vars => Announced'
<1>. SUFFICES ASSUME IInv, Announced, [Next]_vars, NEW b \in BookingIds
              PROVE  IF booking'[b].status = "cancelled"
                     THEN \E e \in CancelEvents : told'[b] \cap CancelEvents = {e}
                     ELSE told'[b] \cap CancelEvents = {}
  BY DEF Announced
<1>1. CASE /\ booking'[b].status = "cancelled" <=> booking[b].status = "cancelled"
           /\ told'[b] \cap CancelEvents = told[b] \cap CancelEvents
  BY <1>1 DEF Announced
<1>2. CASE /\ booking[b].status \in LiveStatus /\ booking'[b].status = "cancelled"
           /\ \E e \in CancelEvents : told'[b] = told[b] \cup {e}
  <2>1. told[b] \cap CancelEvents = {}
    BY <1>2 DEF Announced, LiveStatus
  <2>2. PICK e \in CancelEvents : told'[b] = told[b] \cup {e}
    BY <1>2
  <2>3. told'[b] \cap CancelEvents = {e}
    BY <2>1, <2>2
  <2>. QED
    BY <1>2, <2>3
<1>. QED
  BY <1>1, <1>2, AnnouncementStep

\* FR-13: cancelBooking by either party and the cascade of cancelListing
\* never both announce a booking's end, and never leave it unannounced,
\* whatever the interleaving.
THEOREM CancellationToldOnce == Spec => []CancelToldOnce
<1>1. Init => Announced
  BY DEF Init, Announced, NoBooking
<1>2. Announced => CancelToldOnce
  <2>1. Cardinality({}) = 0 /\ \A e : Cardinality({e}) = 1
    BY FS_EmptySet, FS_Singleton
  <2>. QED
    BY <2>1 DEF Announced, CancelToldOnce
<1>3. Spec => []Announced
  BY <1>1, NextAnnounced, Invariance, PTL DEF Spec
<1>. QED
  BY <1>2, <1>3, PTL

-----------------------------------------------------------------------------
(* The committed tables implement the ledger of seats.                     *)

\* The commit of createBooking reserves.
LEMMA CreateReserves ==
    ASSUME IInv, NEW t \in Txns, NEW b \in BookingIds, CreateCommit(t, b)
    PROVE  \E l \in Listings : Ledger!Reserve(l, b)
<1>. PICK l \in Listings : l = txn[t].l
  BY CreateEffect
<1>1. \A x \in BookingIds : booking'[x].status # "none" <=> booking[x].status # "none" \/ x = b
  BY CreateEffect
<1>2. \A x \in Listings : ActiveIn(booking', x) = IF x = l THEN ActiveIn(booking, x) \cup {b}
                                                  ELSE ActiveIn(booking, x)
  BY CreateEffect DEF ActiveIn, LiveStatus
<1>3. /\ [x \in Listings |-> listing'[x].seats]
           = [[x \in Listings |-> listing[x].seats] EXCEPT ![l] = @ - 1]
      /\ [x \in Listings |-> listing'[x].status = "active"]
           = [x \in Listings |-> listing[x].status = "active"]
      /\ [x \in Listings |-> listing'[x].cap] = [x \in Listings |-> listing[x].cap]
  BY CreateEffect
<1>4. [x \in Listings |-> ActiveIn(booking', x)]
        = [[x \in Listings |-> ActiveIn(booking, x)] EXCEPT ![l] = @ \cup {b}]
  BY <1>2
<1>5. {x \in BookingIds : booking'[x].status # "none"}
        = {x \in BookingIds : booking[x].status # "none"} \cup {b}
  BY <1>1
<1>6. /\ [x \in Listings |-> listing[x].status = "active"][l]
      /\ [x \in Listings |-> listing[x].seats][l] > 0
      /\ b \notin {x \in BookingIds : booking[x].status # "none"}
  BY CreateEffect
<1>. QED
  BY <1>3, <1>4, <1>5, <1>6 DEF Ledger!Reserve, Active

\* The commit of cancelBooking gives the seat back.
LEMMA CancelGivesBack ==
    ASSUME IInv, NEW t \in Txns, CancelCommit(t)
    PROVE  \E l \in Listings, b \in BookingIds : Ledger!GiveBack(l, b)
<1>. PICK l \in Listings, b \in BookingIds : l = txn[t].l /\ b = txn[t].b
  BY CancelEffect
<1>1. \A x \in BookingIds : booking'[x].status # "none" <=> booking[x].status # "none"
  BY CancelEffect
<1>2. \A x \in Listings : ActiveIn(booking', x) = IF x = l THEN ActiveIn(booking, x) \ {b}
                                                  ELSE ActiveIn(booking, x)
  BY CancelEffect DEF ActiveIn, LiveStatus
<1>3. /\ [x \in Listings |-> listing'[x].seats]
           = [[x \in Listings |-> listing[x].seats] EXCEPT ![l] = @ + 1]
      /\ [x \in Listings |-> listing'[x].status = "active"]
           = [x \in Listings |-> listing[x].status = "active"]
      /\ [x \in Listings |-> listing'[x].cap] = [x \in Listings |-> listing[x].cap]
  BY CancelEffect
<1>4. [x \in Listings |-> ActiveIn(booking', x)]
        = [[x \in Listings |-> ActiveIn(booking, x)] EXCEPT ![l] = @ \ {b}]
  BY <1>2
<1>5. {x \in BookingIds : booking'[x].status # "none"}
        = {x \in BookingIds : booking[x].status # "none"}
  BY <1>1
<1>6. b \in [x \in Listings |-> ActiveIn(booking, x)][l]
  BY CancelEffect DEF ActiveIn, LiveStatus
<1>. QED
  BY <1>3, <1>4, <1>5, <1>6 DEF Ledger!GiveBack, Active

\* The commit of confirmCompletion finishes the booking or changes nothing
\* that the ledger shows.
LEMMA ConfirmFinishes ==
    ASSUME IInv, NEW t \in Txns, ConfirmCommit(t)
    PROVE  \/ UNCHANGED Ledger!ledger
           \/ \E l \in Listings, b \in BookingIds : Ledger!Finish(l, b)
<1>. PICK b \in BookingIds : b = txn[t].b
  BY ConfirmEffect
<1>1. PICK l \in Listings : l = booking[b].l
  BY ConfirmEffect DEF IInv, BookingShape
<1>2. {x \in BookingIds : booking'[x].status # "none"}
        = {x \in BookingIds : booking[x].status # "none"}
  BY ConfirmEffect
<1>3. listing' = listing
  BY ConfirmEffect
<1>4. CASE booking'[b].status = "in_progress"
  <2>1. \A x \in Listings : ActiveIn(booking', x) = ActiveIn(booking, x)
    BY <1>4, ConfirmEffect DEF ActiveIn, LiveStatus
  <2>. QED
    BY <1>2, <1>3, <2>1 DEF Ledger!ledger, Active
<1>5. CASE booking'[b].status = "completed"
  <2>1. \A x \in Listings : ActiveIn(booking', x) = IF x = l THEN ActiveIn(booking, x) \ {b}
                                                    ELSE ActiveIn(booking, x)
    BY <1>1, <1>5, ConfirmEffect DEF ActiveIn, LiveStatus
  <2>2. [x \in Listings |-> ActiveIn(booking', x)]
          = [[x \in Listings |-> ActiveIn(booking, x)] EXCEPT ![l] = @ \ {b}]
    BY <2>1
  <2>3. b \in [x \in Listings |-> ActiveIn(booking, x)][l]
    BY <1>1, ConfirmEffect DEF ActiveIn, LiveStatus
  <2>. QED
    BY ZenonT(60), <1>1, <1>2, <1>3, <2>2, <2>3 DEF Ledger!Finish, Active
<1>. QED
  BY <1>4, <1>5, ConfirmEffect

\* The commit of promoteDueBooking changes nothing that the ledger shows.
LEMMA PromoteStutters ==
    ASSUME IInv, NEW t \in Txns, PromoteCommit(t)
    PROVE  UNCHANGED Ledger!ledger
<1>1. \A x \in Listings : ActiveIn(booking', x) = ActiveIn(booking, x)
  BY PromoteEffect DEF ActiveIn, LiveStatus
<1>2. {x \in BookingIds : booking'[x].status # "none"}
        = {x \in BookingIds : booking[x].status # "none"}
  BY PromoteEffect
<1>3. listing' = listing
  BY PromoteEffect
<1>. QED
  BY <1>1, <1>2, <1>3 DEF Ledger!ledger, Active

\* The commit of cancelListing closes.
LEMMA DropCloses ==
    ASSUME IInv, NEW t \in Txns, DropCommit(t)
    PROVE  \E l \in Listings : Ledger!Close(l)
<1>. PICK l \in Listings : l = txn[t].l
  BY DropEffect
<1>1. {x \in BookingIds : booking'[x].status # "none"}
        = {x \in BookingIds : booking[x].status # "none"}
  BY DropEffect DEF Active, ActiveIn, LiveStatus
<1>2. \A x \in Listings : ActiveIn(booking', x) = IF x = l THEN {} ELSE ActiveIn(booking, x)
  BY DropEffect DEF Active, ActiveIn, LiveStatus
<1>3. [x \in Listings |-> ActiveIn(booking', x)]
        = [[x \in Listings |-> ActiveIn(booking, x)] EXCEPT ![l] = {}]
  BY <1>2
<1>4. /\ [x \in Listings |-> listing'[x].status = "active"]
           = [[x \in Listings |-> listing[x].status = "active"] EXCEPT ![l] = FALSE]
      /\ [x \in Listings |-> listing'[x].seats] = [x \in Listings |-> listing[x].seats]
      /\ [x \in Listings |-> listing'[x].cap] = [x \in Listings |-> listing[x].cap]
  <2>1. \A x \in Listings : /\ listing'[x].seats = listing[x].seats
                            /\ listing'[x].cap = listing[x].cap
                            /\ (listing'[x].status = "active")
                                 = (IF x = l THEN FALSE ELSE listing[x].status = "active")
    BY DropEffect
  <2>. QED
    BY <2>1
<1>5. [x \in Listings |-> listing[x].status = "active"][l]
  BY DropEffect
<1>. QED
  BY <1>1, <1>3, <1>4, <1>5 DEF Ledger!Close, Active

\* The commit of updateListing resizes.
LEMMA EditResizes ==
    ASSUME IInv, NEW t \in Txns, EditCommit(t)
    PROVE  \E l \in Listings : \E c \in Capacities : \E f \in 0..c : Ledger!Resize(l, c, f)
<1>. PICK l \in Listings, c \in Capacities, f \in Nat :
           l = txn[t].l /\ c = txn[t].row.cap /\ f = txn[t].row.seats
  BY EditEffect
<1>1. /\ f + Cardinality(ActiveIn(booking, l)) <= c
      /\ listing[l].status = "active" /\ booking' = booking
  BY EditEffect DEF Active
<1>2. c \in Nat /\ Cardinality(ActiveIn(booking, l)) \in Nat
  BY <1>1, Counts, ConstantsAssumption
<1>3. f \in 0..c
  BY <1>1, <1>2
<1>4. \A x \in Listings :
         /\ listing'[x].cap = IF x = l THEN c ELSE listing[x].cap
         /\ listing'[x].seats = IF x = l THEN f ELSE listing[x].seats
         /\ listing'[x].status = "active" <=> listing[x].status = "active"
  BY EditEffect
<1>5. /\ [x \in Listings |-> listing'[x].cap]
           = [[x \in Listings |-> listing[x].cap] EXCEPT ![l] = c]
      /\ [x \in Listings |-> listing'[x].seats]
           = [[x \in Listings |-> listing[x].seats] EXCEPT ![l] = f]
      /\ [x \in Listings |-> listing'[x].status = "active"]
           = [x \in Listings |-> listing[x].status = "active"]
  BY <1>1, <1>4
<1>6. /\ [x \in Listings |-> listing[x].status = "active"][l]
      /\ f + Cardinality([x \in Listings |-> ActiveIn(booking, x)][l]) <= c
  BY <1>1
<1>7. Ledger!Resize(l, c, f)
  <2>1. Ledger!Cardinality([x \in Listings |-> Active(x)][l])
          = Cardinality([x \in Listings |-> ActiveIn(booking, x)][l])
    BY DEF Ledger!Cardinality, Cardinality, Active
  <2>. QED
    BY <1>1, <1>5, <1>6, <2>1 DEF Ledger!Resize, Active
<1>. QED
  BY <1>3, <1>7

\* A moderation verdict changes nothing that the ledger shows.
LEMMA VerdictStutters ==
    ASSUME IInv, NEW l \in Listings, NEW v \in BOOLEAN, SetModerationStatus(l, v)
    PROVE  UNCHANGED Ledger!ledger
<1>1. booking' = booking
  BY DEF SetModerationStatus
<1>2. \A x \in Listings : /\ listing'[x].status = listing[x].status
                          /\ listing'[x].cap = listing[x].cap
                          /\ listing'[x].seats = listing[x].seats
  BY DEF SetModerationStatus, IInv, TypeOK, ListingRow
<1>. QED
  BY <1>1, <1>2 DEF Ledger!ledger, Active

\* The erasure job closes the host's listings and touches nothing else.
LEMMA ScrubWithdraws ==
    ASSUME IInv, NEW h \in Users, ScrubListings(h)
    PROVE  Ledger!Withdraw({l \in Listings : HostOf[l] = h})
<1>1. booking' = booking
  BY DEF ScrubListings
<1>2. \A l \in Listings :
         /\ listing'[l].cap = listing[l].cap /\ listing'[l].seats = listing[l].seats
         /\ listing'[l].status = IF HostOf[l] = h THEN "cancelled" ELSE listing[l].status
  BY DEF ScrubListings, IInv, TypeOK, ListingRow
<1>. QED
  BY <1>1, <1>2 DEF Ledger!Withdraw, Active

\* Every step is a ledger step or a stutter.
LEMMA LedgerStep ==
    ASSUME IInv, [Next]_vars
    PROVE  [Ledger!LedgerNext]_(Ledger!ledger)
<1>1. CASE UNCHANGED <<listing, booking, told>>
  BY <1>1 DEF Ledger!ledger, Active
<1>2. ASSUME NEW t \in Txns, NEW b \in BookingIds, CreateCommit(t, b)
      PROVE  Ledger!LedgerNext
  BY <1>2, CreateReserves DEF Ledger!LedgerNext
<1>3. ASSUME NEW t \in Txns, CancelCommit(t)
      PROVE  Ledger!LedgerNext
  BY <1>3, CancelGivesBack DEF Ledger!LedgerNext
<1>4. ASSUME NEW t \in Txns, ConfirmCommit(t)
      PROVE  Ledger!LedgerNext \/ UNCHANGED Ledger!ledger
  BY <1>4, ConfirmFinishes DEF Ledger!LedgerNext
<1>5. ASSUME NEW t \in Txns, DropCommit(t)
      PROVE  Ledger!LedgerNext
  BY <1>5, DropCloses DEF Ledger!LedgerNext
<1>6. ASSUME NEW t \in Txns, EditCommit(t)
      PROVE  Ledger!LedgerNext
  BY <1>6, EditResizes DEF Ledger!LedgerNext
<1>7. ASSUME NEW h \in Users, ScrubListings(h)
      PROVE  Ledger!LedgerNext
  BY <1>7, ScrubWithdraws DEF Ledger!LedgerNext
<1>. QED
  BY <1>1, <1>2, <1>3, <1>4, <1>5, <1>6, <1>7, OnlyCommitsPublish, PromoteStutters,
     VerdictStutters DEF Commit

\* The initial tables are an initial ledger.
LEMMA LedgerInitial == Init => Ledger!LedgerInit
<1>. SUFFICES ASSUME Init PROVE Ledger!LedgerInit
  OBVIOUS
<1>1. \A l \in Listings :
         /\ listing[l].status = "active" /\ listing[l].cap \in Capacities
         /\ listing[l].seats = listing[l].cap
  BY DEF Init
<1>2. /\ \A l \in Listings : ActiveIn(booking, l) = {}
      /\ {b \in BookingIds : booking[b].status # "none"} = {}
  BY DEF Init, ActiveIn, NoBooking, LiveStatus
<1>. QED
  BY <1>1, <1>2 DEF Ledger!LedgerInit, Active

\* FR-11, FR-12, FR-13: the transactions of createBooking, cancelBooking,
\* confirmCompletion, promoteDueBooking, cancelListing and updateListing, run in any
\* interleaving and with erasures of hosts in between, look to a guest like the atomic
\* operations of the ledger.
THEOREM LedgerImplemented == Spec => ImplementsLedger
<1>1. IInv /\ [Next]_vars => [Ledger!LedgerNext]_(Ledger!ledger)
  BY LedgerStep
<1>. QED
  BY <1>1, LedgerInitial, Invariance, PTL DEF Spec, ImplementsLedger, Ledger!LedgerSpec

-----------------------------------------------------------------------------
(* FR-11: a cancelled listing is never offered again.                      *)

\* No commit brings a booking to a listing that is not active.
LEMMA ClosedForGood ==
    ASSUME IInv, [Next]_vars, NEW l \in Listings, listing[l].status = "cancelled"
    PROVE  listing'[l].status = "cancelled" /\ Active(l)' \subseteq Active(l)
<1>1. CASE UNCHANGED <<listing, booking, told>>
  BY <1>1 DEF Active, ActiveIn
<1>2. ASSUME NEW t \in Txns, NEW b \in BookingIds, CreateCommit(t, b)
      PROVE  listing'[l].status = "cancelled" /\ Active(l)' \subseteq Active(l)
  BY <1>2, CreateEffect DEF Active, ActiveIn, LiveStatus
<1>3. ASSUME NEW t \in Txns, CancelCommit(t)
      PROVE  listing'[l].status = "cancelled" /\ Active(l)' \subseteq Active(l)
  BY <1>3, CancelEffect DEF Active, ActiveIn, LiveStatus
<1>4. ASSUME NEW t \in Txns, ConfirmCommit(t)
      PROVE  listing'[l].status = "cancelled" /\ Active(l)' \subseteq Active(l)
  BY <1>4, ConfirmEffect DEF Active, ActiveIn, LiveStatus
<1>5. ASSUME NEW t \in Txns, PromoteCommit(t)
      PROVE  listing'[l].status = "cancelled" /\ Active(l)' \subseteq Active(l)
  BY <1>5, PromoteEffect DEF Active, ActiveIn, LiveStatus
<1>6. ASSUME NEW t \in Txns, DropCommit(t)
      PROVE  listing'[l].status = "cancelled" /\ Active(l)' \subseteq Active(l)
  BY <1>6, DropEffect DEF Active, ActiveIn, LiveStatus
<1>7. ASSUME NEW t \in Txns, EditCommit(t)
      PROVE  listing'[l].status = "cancelled" /\ Active(l)' \subseteq Active(l)
  BY <1>7, EditEffect DEF Active, ActiveIn
<1>8. ASSUME \/ \E x \in Listings, v \in BOOLEAN : SetModerationStatus(x, v)
             \/ \E h \in Users : ScrubListings(h)
      PROVE  listing'[l].status = "cancelled" /\ Active(l)' \subseteq Active(l)
  BY <1>8 DEF SetModerationStatus, ScrubListings, IInv, TypeOK, ListingRow, Active, ActiveIn
<1>. QED
  BY <1>1, <1>2, <1>3, <1>4, <1>5, <1>6, <1>7, <1>8, OnlyCommitsPublish DEF Commit

\* FR-11: whoever cancelled a listing, its host or the erasure job, no update
\* under way revives it and no reservation under way gets into it.
THEOREM CancelledIsFinal == Spec => CancelledListingIsFinal
<1>1. IInv /\ [Next]_vars
        => [\A l \in Listings : listing[l].status = "cancelled"
              => listing'[l].status = "cancelled" /\ Active(l)' \subseteq Active(l)]_vars
  BY ClosedForGood
<1>. QED
  BY <1>1, Invariance, PTL DEF Spec, CancelledListingIsFinal

-----------------------------------------------------------------------------
(* FR-11: a cancelled listing keeps no live booking.                       *)

\* The commit of cancelListing cancels every live booking of the listing.
LEMMA DropEmpties ==
    ASSUME IInv, NEW t \in Txns, DropCommit(t)
    PROVE  ActiveIn(booking', txn[t].l) = {}
<1>. PICK l \in Listings : l = txn[t].l
  BY DropEffect
<1>1. ActiveIn(booking', l) = {}
  BY DropEffect DEF Active, ActiveIn, LiveStatus
<1>. QED
  BY <1>1

\* FR-11: no reservation, promotion, confirmation or cancellation that races with
\* cancelListing leaves a live booking behind.
THEOREM CascadeIsComplete == Spec => CancelEmptiesListing
<1>1. IInv /\ [Next]_vars => [\A t \in Txns : DropCommit(t) => ActiveIn(booking', txn[t].l) = {}]_vars
  BY DropEmpties
<1>. QED
  BY <1>1, Invariance, PTL DEF Spec, CancelEmptiesListing

\* But for the erasure job only cancelListing cancels a listing.
LEMMA OnlyDropCancels ==
    ASSUME IInv, [Next]_vars, MayErase = FALSE,
           NEW l \in Listings, listing[l].status = "active", listing'[l].status # "active"
    PROVE  \E t \in Txns : DropCommit(t) /\ txn[t].l = l
<1>1. ~ UNCHANGED <<listing, booking, told>>
  OBVIOUS
<1>2. ~ \E t \in Txns, b \in BookingIds : CreateCommit(t, b)
  BY CreateEffect
<1>3. ~ \E t \in Txns : CancelCommit(t)
  BY CancelEffect
<1>4. ~ \E t \in Txns : ConfirmCommit(t)
  BY ConfirmEffect
<1>5. ~ \E t \in Txns : PromoteCommit(t)
  BY PromoteEffect
<1>6. ~ \E t \in Txns : EditCommit(t)
  BY EditEffect
<1>7. ~ \E x \in Listings, v \in BOOLEAN : SetModerationStatus(x, v)
  BY DEF SetModerationStatus, IInv, TypeOK, ListingRow
<1>8. ~ \E h \in Users : ScrubListings(h)
  BY DEF ScrubListings
<1>9. PICK t \in Txns : DropCommit(t)
  BY <1>1, <1>2, <1>3, <1>4, <1>5, <1>6, <1>7, <1>8, OnlyCommitsPublish DEF Commit
<1>. QED
  BY <1>9, DropEffect

\* FR-11: as long as no account is erased, a cancelled listing has no live booking.
\* The erasure job, which cancels listings without their bookings, is the
\* one step that breaks it (run bookings_erasure).
THEOREM CancelledListingIsEmpty ==
    ASSUME MayErase = FALSE
    PROVE  Spec => []CancelledListingHasNoLiveBooking
<1>1. Init => CancelledListingHasNoLiveBooking
  BY DEF Init, CancelledListingHasNoLiveBooking
<1>2. IInv /\ CancelledListingHasNoLiveBooking /\ [Next]_vars
        => CancelledListingHasNoLiveBooking'
  <2>. SUFFICES ASSUME IInv, CancelledListingHasNoLiveBooking, [Next]_vars,
                       NEW l \in Listings, listing'[l].status = "cancelled"
                PROVE  Active(l)' = {}
    BY DEF CancelledListingHasNoLiveBooking
  <2>1. CASE listing[l].status = "cancelled"
    BY <2>1, ClosedForGood DEF CancelledListingHasNoLiveBooking
  <2>2. CASE listing[l].status = "active"
    <3>1. PICK t \in Txns : DropCommit(t) /\ txn[t].l = l
      BY <2>2, OnlyDropCancels
    <3>2. ActiveIn(booking', l) = {}
      BY <3>1, DropEmpties
    <3>. QED
      BY <3>2 DEF Active
  <2>. QED
    BY <2>1, <2>2 DEF IInv, TypeOK, ListingRow
<1>. QED
  BY <1>1, <1>2, Invariance, PTL DEF Spec

-----------------------------------------------------------------------------
(* FR-12, FR-13: no seat of an active listing is lost.                     *)

\* Every seat is free or taken, in the row of an active listing and in the
\* one that an update is about to publish.
SeatsAccounted ==
    /\ NoSeatLost
    /\ \A t \in Txns :
          txn[t].at = "edit.commit"
            => txn[t].row.cap <= txn[t].row.seats + Cardinality(Taken(txn[t].l))

\* The bookings that took a seat are finite in number.
LEMMA TakenIsFinite ==
    ASSUME NEW l
    PROVE  IsFiniteSet(Taken(l)) /\ Cardinality(Taken(l)) \in Nat
<1>1. Taken(l) \subseteq BookingIds
  BY DEF Taken, TakenIn
<1>. QED
  BY <1>1, ConstantsAssumption, FS_Subset, FS_CardinalityType

\* createBooking takes a seat for one booking more.
LEMMA CreateTakes ==
    ASSUME IInv, NEW t \in Txns, NEW b \in BookingIds, CreateCommit(t, b), NEW l \in Listings
    PROVE  /\ l # txn[t].l => TakenIn(booking', l) = Taken(l)
           /\ l = txn[t].l => Cardinality(TakenIn(booking', l)) = Cardinality(Taken(l)) + 1
<1>1. l # txn[t].l => TakenIn(booking', l) = Taken(l)
  BY CreateEffect DEF Taken, TakenIn, LiveStatus
<1>2. ASSUME l = txn[t].l
      PROVE  TakenIn(booking', l) = Taken(l) \cup {b} /\ b \notin Taken(l)
  BY <1>2, CreateEffect DEF Taken, TakenIn, LiveStatus
<1>3. IsFiniteSet(Taken(l)) /\ Cardinality(Taken(l)) \in Nat
  BY TakenIsFinite
<1>4. b \notin Taken(l) => Cardinality(Taken(l) \cup {b}) = Cardinality(Taken(l)) + 1
  BY <1>3, FS_AddElement
<1>. QED
  BY <1>1, <1>2, <1>4

\* cancelBooking takes it back.
LEMMA CancelReturns ==
    ASSUME IInv, NEW t \in Txns, CancelCommit(t), NEW l \in Listings
    PROVE  /\ l # txn[t].l => TakenIn(booking', l) = Taken(l)
           /\ l = txn[t].l => Cardinality(TakenIn(booking', l)) = Cardinality(Taken(l)) - 1
<1>1. l # txn[t].l => TakenIn(booking', l) = Taken(l)
  BY CancelEffect DEF Taken, TakenIn, LiveStatus
<1>2. ASSUME l = txn[t].l
      PROVE  TakenIn(booking', l) = Taken(l) \ {txn[t].b} /\ txn[t].b \in Taken(l)
  BY <1>2, CancelEffect DEF Taken, TakenIn, LiveStatus
<1>3. IsFiniteSet(Taken(l)) /\ Cardinality(Taken(l)) \in Nat
  BY TakenIsFinite
<1>4. txn[t].b \in Taken(l)
        => Cardinality(Taken(l) \ {txn[t].b}) = Cardinality(Taken(l)) - 1
  BY <1>3, FS_RemoveElement
<1>. QED
  BY <1>1, <1>2, <1>4

\* cancelListing touches no other listing's bookings.
LEMMA DropTakesOwn ==
    ASSUME IInv, NEW t \in Txns, DropCommit(t), NEW l \in Listings, l # txn[t].l
    PROVE  TakenIn(booking', l) = Taken(l)
<1>1. \A x \in BookingIds : x \in Active(txn[t].l) => booking[x].l # l /\ booking'[x].l # l
  BY DropEffect DEF Active, ActiveIn
<1>2. \A x \in BookingIds : x \notin Active(txn[t].l) => booking'[x] = booking[x]
  BY DropEffect
<1>. QED
  BY <1>1, <1>2 DEF Taken, TakenIn

\* Only the three commits that hold the listing row change who has a seat.
LEMMA TakenUnderLock ==
    ASSUME IInv, [Next]_vars, NEW l \in Listings
    PROVE  \/ TakenIn(booking', l) = Taken(l)
           \/ \E t \in Txns : /\ txn[t].at \in {"create.commit", "cancel.commit", "drop.commit"}
                              /\ txn[t].l = l
<1>1. ASSUME booking' = booking
      PROVE  TakenIn(booking', l) = Taken(l)
  BY <1>1 DEF Taken, TakenIn
<1>2. ASSUME NEW t \in Txns, ConfirmCommit(t)
      PROVE  TakenIn(booking', l) = Taken(l)
  BY <1>2, ConfirmEffect DEF Taken, TakenIn, LiveStatus
<1>3. ASSUME NEW t \in Txns, PromoteCommit(t)
      PROVE  TakenIn(booking', l) = Taken(l)
  BY <1>3, PromoteEffect DEF Taken, TakenIn, LiveStatus
<1>4. ASSUME NEW t \in Txns, NEW b \in BookingIds, CreateCommit(t, b)
      PROVE  TakenIn(booking', l) = Taken(l) \/ (txn[t].at = "create.commit" /\ txn[t].l = l)
  <2>1. txn[t].at = "create.commit"
    BY <1>4 DEF CreateCommit
  <2>. QED
    BY <1>4, <2>1, CreateTakes
<1>5. ASSUME NEW t \in Txns, CancelCommit(t)
      PROVE  TakenIn(booking', l) = Taken(l) \/ (txn[t].at = "cancel.commit" /\ txn[t].l = l)
  <2>1. txn[t].at = "cancel.commit"
    BY <1>5 DEF CancelCommit
  <2>. QED
    BY <1>5, <2>1, CancelReturns
<1>6. ASSUME NEW t \in Txns, DropCommit(t)
      PROVE  TakenIn(booking', l) = Taken(l) \/ (txn[t].at = "drop.commit" /\ txn[t].l = l)
  <2>1. txn[t].at = "drop.commit"
    BY <1>6 DEF DropCommit, DropOnly
  <2>. QED
    BY <1>6, <2>1, DropTakesOwn
<1>7. ASSUME \/ \E t \in Txns : EditCommit(t)
             \/ \E x \in Listings, v \in BOOLEAN : SetModerationStatus(x, v)
             \/ \E h \in Users : ScrubListings(h)
             \/ UNCHANGED <<listing, booking, told>>
      PROVE  booking' = booking
  BY <1>7 DEF EditCommit, SetModerationStatus, ScrubListings
<1>. QED
  BY <1>1, <1>2, <1>3, <1>4, <1>5, <1>6, <1>7, OnlyCommitsPublish DEF Commit

\* A transaction about to publish an update was so before the step, or has
\* just counted under the lock.
LEMMA UpdateIsMade ==
    ASSUME IInv, [Next]_vars, NEW t \in Txns, txn'[t].at = "edit.commit"
    PROVE  \/ txn'[t] = txn[t]
           \/ \E c \in Capacities, s \in 1..MaxTime, m \in BOOLEAN : EditCount(t, c, s, m)
<1>. txn \in [Txns -> TxnRow]
  BY DEF IInv, TypeOK
<1>1. ASSUME NEW u \in Txns, Request(u)
      PROVE  txn'[t] = txn[t]
  BY <1>1 DEF Request, BeginCreate, BeginDrop, BeginEdit, BeginCancel, BeginConfirm,
       BeginPromote, Begin
<1>2. ASSUME NEW u \in Txns, Leave(u)
      PROVE  txn'[t] = txn[t]
  BY <1>2 DEF Leave, End, IdleTxn
<1>3. ASSUME NEW u \in Txns, Commit(u)
      PROVE  txn'[t] = txn[t]
  <2>1. CASE \E b \in BookingIds : CreateCommit(u, b)
    BY <2>1 DEF CreateCommit, End, IdleTxn
  <2>2. CASE CancelCommit(u) \/ ConfirmCommit(u)
    BY <2>2 DEF CancelCommit, ConfirmCommit, End, IdleTxn
  <2>3. CASE PromoteCommit(u) \/ EditCommit(u)
    BY <2>3 DEF PromoteCommit, EditCommit, End, IdleTxn
  <2>4. CASE DropCommit(u)
    BY <2>4 DEF DropCommit, DropOnly, End, IdleTxn
  <2>. QED BY <1>3, <2>1, <2>2, <2>3, <2>4 DEF Commit
<1>4. ASSUME NEW u \in Txns, ~Leave(u),
             \/ CreateLock(u) \/ CreateCheck(u) \/ CreateDecrement(u)
             \/ CancelLock(u) \/ CancelMark(u) \/ CancelRestore(u) \/ ConfirmLock(u)
      PROVE  txn'[t] = txn[t]
  <2>1. \/ \E step \in Steps \ {"edit.commit"} : Goto(u, step)
        \/ txn' = [txn EXCEPT ![u].at = "create.commit",
                              ![u].row = [listing[txn[u].l] EXCEPT !.seats = @ - 1]]
        \/ txn' = [txn EXCEPT ![u].at = "cancel.commit",
                              ![u].row = [listing[txn[u].l] EXCEPT !.seats = @ + 1]]
    BY <1>4 DEF CreateLock, CreateCheck, CreateDecrement, CancelLock, CancelMark, CancelRestore,
         ConfirmLock, Steps
  <2>. QED
    BY <2>1 DEF Goto, TxnRow
<1>5. ASSUME NEW u \in Txns, ~Leave(u),
             PromoteLock(u) \/ DropLock(u) \/ DropCascade(u) \/ EditLock(u)
      PROVE  txn'[t] = txn[t]
  <2>1. \/ \E step \in Steps \ {"edit.commit"} : Goto(u, step)
        \/ txn' = [txn EXCEPT ![u].at = "drop.cascade",
                              ![u].row = [listing[txn[u].l] EXCEPT !.status = "cancelled"]]
        \/ UNCHANGED txn
    BY <1>5 DEF PromoteLock, DropLock, DropCascade, EditLock, Steps
  <2>. QED
    BY <2>1 DEF Goto, TxnRow
<1>6. ASSUME NEW u \in Txns, u # t,
             \E c \in Capacities, s \in 1..MaxTime, m \in BOOLEAN : EditCount(u, c, s, m)
      PROVE  txn'[t] = txn[t]
  BY <1>6, <1>2 DEF EditCount
<1>7. ASSUME UNCHANGED txn
      PROVE  txn'[t] = txn[t]
  BY <1>7
<1>8. ASSUME NEW u \in Txns, TxnStep(u)
      PROVE  \/ txn'[t] = txn[t]
             \/ \E c \in Capacities, s \in 1..MaxTime, m \in BOOLEAN : EditCount(t, c, s, m)
  BY <1>8, <1>2, <1>3, <1>4, <1>5, <1>6 DEF TxnStep, Commit
<1>9. ASSUME NEW u \in Txns, Rollback(u) \/ DeadlockAbort(u)
      PROVE  txn'[t] = txn[t]
  BY <1>9, <1>2 DEF Rollback, DeadlockAbort
<1>. QED
  BY <1>1, <1>7, <1>8, <1>9 DEF Next, vars, SetModerationStatus, ScrubListings, Tick

\* updateListing accounts for every seat in the row it is about to publish.
LEMMA NextUpdate ==
    ASSUME IInv, SeatsAccounted, [Next]_vars, NEW t \in Txns, txn'[t].at = "edit.commit"
    PROVE  txn'[t].row.cap <= txn'[t].row.seats + Cardinality(TakenIn(booking', txn'[t].l))
<1>1. CASE txn'[t] = txn[t]
  <2>1. /\ txn[t].l \in Listings /\ owner[txn[t].l] = t
        /\ txn[t].row.cap <= txn[t].row.seats + Cardinality(Taken(txn[t].l))
    BY <1>1 DEF IInv, NoStaleCommit, Locked, OnListing, HasListingLock, SeatsAccounted
  <2>2. ASSUME NEW u \in Txns, txn[u].l = txn[t].l,
               txn[u].at \in {"create.commit", "cancel.commit", "drop.commit"}
        PROVE  FALSE
    <3>1. owner[txn[u].l] = u
      BY <2>2 DEF IInv, NoStaleCommit, Locked, HasListingLock
    <3>. QED
      BY <1>1, <2>1, <2>2, <3>1
  <2>3. TakenIn(booking', txn[t].l) = Taken(txn[t].l)
    BY <2>1, <2>2, TakenUnderLock
  <2>. QED
    BY <1>1, <2>1, <2>3
<1>2. ASSUME NEW c \in Capacities, NEW s \in 1..MaxTime, NEW m \in BOOLEAN, EditCount(t, c, s, m)
      PROVE  txn'[t].row.cap <= txn'[t].row.seats + Cardinality(TakenIn(booking', txn'[t].l))
  <2>. DEFINE l == txn[t].l
              n == Cardinality(Active(l))
  <2>1. /\ txn[t].at = "edit.count" /\ booking' = booking
        /\ txn'[t].l = l /\ txn'[t].row = Patched(listing[l], n, c, s, m)
        /\ c # listing[l].cap => c >= n
    <3>1. ~Leave(t)
      BY DEF Leave, End, IdleTxn, IInv, TypeOK
    <3>. QED
      BY <1>2, <3>1, Counts, ConstantsAssumption DEF EditCount, IInv, TypeOK, TxnRow, Active
  <2>2. l \in Listings /\ listing[l] \in ListingRow /\ listing[l].status = "active"
    BY <2>1 DEF IInv, NoStaleCommit, Locked, Current, OnListing, TypeOK
  <2>3. listing[l].cap <= listing[l].seats + Cardinality(Taken(l))
    BY <2>2 DEF SeatsAccounted, NoSeatLost
  <2>4. n \in Nat /\ Cardinality(Taken(l)) \in Nat /\ n <= Cardinality(Taken(l))
    <3>1. Active(l) \subseteq Taken(l)
      BY DEF Active, ActiveIn, Taken, TakenIn
    <3>. QED
      BY <3>1, TakenIsFinite, SmallerCount
  <2>5. TakenIn(booking', txn'[t].l) = Taken(l)
    BY <2>1 DEF Taken
  <2>6. /\ txn'[t].row.cap = c
        /\ txn'[t].row.seats = IF c # listing[l].cap THEN c - n ELSE listing[l].seats
    <3>. HIDE DEF n, l
    <3>. QED
      BY <2>1, <2>2 DEF Patched, ListingRow
  <2>. HIDE DEF n, l
  <2>. QED
    BY <2>1, <2>2, <2>3, <2>4, <2>5, <2>6, ConstantsAssumption DEF ListingRow
<1>. QED
  BY <1>1, <1>2, UpdateIsMade

\* Every commit accounts for every seat.
LEMMA NextNoSeatLost ==
    ASSUME IInv, SeatsAccounted, [Next]_vars
    PROVE  NoSeatLost'
<1>. SUFFICES ASSUME NEW l \in Listings, listing'[l].status = "active"
              PROVE  listing'[l].cap <= listing'[l].seats + Cardinality(TakenIn(booking', l))
  BY DEF NoSeatLost, Taken
<1>1. /\ listing[l] \in ListingRow /\ Cardinality(Taken(l)) \in Nat
      /\ listing[l].status = "active" => listing[l].cap <= listing[l].seats + Cardinality(Taken(l))
  BY TakenIsFinite DEF IInv, TypeOK, SeatsAccounted, NoSeatLost
<1>2. ASSUME /\ listing'[l].status = listing[l].status /\ listing'[l].cap = listing[l].cap
             /\ listing'[l].seats = listing[l].seats /\ TakenIn(booking', l) = Taken(l)
      PROVE  listing'[l].cap <= listing'[l].seats + Cardinality(TakenIn(booking', l))
  BY <1>1, <1>2
<1>3. CASE UNCHANGED <<listing, booking, told>>
  BY <1>2, <1>3 DEF Taken, TakenIn
<1>4. ASSUME NEW t \in Txns, NEW b \in BookingIds, CreateCommit(t, b)
      PROVE  listing'[l].cap <= listing'[l].seats + Cardinality(TakenIn(booking', l))
  <2>1. CASE l = txn[t].l
    <3>1. /\ listing'[l].cap = listing[l].cap /\ listing'[l].seats = listing[l].seats - 1
          /\ listing[l].status = "active"
      BY <1>4, <2>1, CreateEffect
    <3>2. Cardinality(TakenIn(booking', l)) = Cardinality(Taken(l)) + 1
      BY <1>4, <2>1, CreateTakes
    <3>. QED
      BY <1>1, <3>1, <3>2 DEF ListingRow
  <2>2. CASE l # txn[t].l
    BY <1>2, <1>4, <2>2, CreateEffect, CreateTakes
  <2>. QED
    BY <2>1, <2>2
<1>5. ASSUME NEW t \in Txns, CancelCommit(t)
      PROVE  listing'[l].cap <= listing'[l].seats + Cardinality(TakenIn(booking', l))
  <2>1. CASE l = txn[t].l
    <3>1. /\ listing'[l].cap = listing[l].cap /\ listing'[l].seats = listing[l].seats + 1
          /\ listing[l].status = "active"
      BY <1>5, <2>1, CancelEffect
    <3>2. Cardinality(TakenIn(booking', l)) = Cardinality(Taken(l)) - 1
      BY <1>5, <2>1, CancelReturns
    <3>. QED
      BY <1>1, <3>1, <3>2 DEF ListingRow
  <2>2. CASE l # txn[t].l
    BY <1>2, <1>5, <2>2, CancelEffect, CancelReturns
  <2>. QED
    BY <2>1, <2>2
<1>6. ASSUME NEW t \in Txns, ConfirmCommit(t) \/ PromoteCommit(t)
      PROVE  listing'[l].cap <= listing'[l].seats + Cardinality(TakenIn(booking', l))
  <2>1. listing' = listing
    BY <1>6, ConfirmEffect, PromoteEffect
  <2>2. TakenIn(booking', l) = Taken(l)
    BY <1>6, ConfirmEffect, PromoteEffect DEF Taken, TakenIn, LiveStatus
  <2>. QED
    BY <1>2, <2>1, <2>2
<1>7. ASSUME NEW t \in Txns, DropCommit(t)
      PROVE  listing'[l].cap <= listing'[l].seats + Cardinality(TakenIn(booking', l))
  <2>1. l # txn[t].l
    BY <1>7, DropEffect
  <2>. QED
    BY <1>2, <1>7, <2>1, DropEffect, DropTakesOwn
<1>8. ASSUME NEW t \in Txns, EditCommit(t)
      PROVE  listing'[l].cap <= listing'[l].seats + Cardinality(TakenIn(booking', l))
  <2>1. /\ txn[t].at = "edit.commit" /\ TakenIn(booking', l) = Taken(l)
        /\ listing'[l] = IF l = txn[t].l THEN txn[t].row ELSE listing[l]
    BY <1>8, EditEffect DEF EditCommit, Taken, TakenIn
  <2>2. l = txn[t].l => txn[t].row.cap <= txn[t].row.seats + Cardinality(Taken(l))
    BY <2>1 DEF SeatsAccounted
  <2>. QED
    BY <1>2, <2>1, <2>2
<1>9. ASSUME \/ \E x \in Listings, v \in BOOLEAN : SetModerationStatus(x, v)
             \/ \E h \in Users : ScrubListings(h)
      PROVE  listing'[l].cap <= listing'[l].seats + Cardinality(TakenIn(booking', l))
  <2>1. TakenIn(booking', l) = Taken(l)
    BY <1>9 DEF SetModerationStatus, ScrubListings, Taken, TakenIn
  <2>2. /\ listing'[l].status = listing[l].status /\ listing'[l].cap = listing[l].cap
        /\ listing'[l].seats = listing[l].seats
    BY <1>9 DEF SetModerationStatus, ScrubListings, IInv, TypeOK, ListingRow
  <2>. QED
    BY <1>2, <2>1, <2>2
<1>. QED
  BY <1>3, <1>4, <1>5, <1>6, <1>7, <1>8, <1>9, OnlyCommitsPublish DEF Commit

\* FR-12, FR-13: in every interleaving of reservations, cancellations and
\* capacity changes each seat of an active listing stays free or taken.
THEOREM NoSeatIsLost == Spec => []NoSeatLost
<1>1. Init => SeatsAccounted
  <2>. SUFFICES ASSUME Init PROVE SeatsAccounted
    OBVIOUS
  <2>1. \A l \in Listings : /\ listing[l].seats = listing[l].cap /\ listing[l].cap \in Nat
                            /\ Cardinality(Taken(l)) \in Nat
    BY TakenIsFinite, ConstantsAssumption DEF Init
  <2>2. \A t \in Txns : txn[t].at # "edit.commit"
    BY DEF Init, IdleTxn
  <2>. QED
    BY <2>1, <2>2 DEF SeatsAccounted, NoSeatLost
<1>2. IInv /\ SeatsAccounted /\ [Next]_vars => SeatsAccounted'
  <2>. SUFFICES ASSUME IInv, SeatsAccounted, [Next]_vars PROVE SeatsAccounted'
    OBVIOUS
  <2>1. NoSeatLost'
    BY NextNoSeatLost
  <2>2. ASSUME NEW t \in Txns, txn'[t].at = "edit.commit"
        PROVE  txn'[t].row.cap <= txn'[t].row.seats + Cardinality(TakenIn(booking', txn'[t].l))
    BY <2>2, NextUpdate
  <2>. QED
    BY <2>1, <2>2 DEF SeatsAccounted, Taken
<1>3. SeatsAccounted => NoSeatLost
  BY DEF SeatsAccounted
<1>. QED
  BY <1>1, <1>2, <1>3, Invariance, PTL DEF Spec

\* FR-12, FR-13: no seat is sold twice and none is lost.
THEOREM SeatsAlwaysAddUp == Spec => []SeatsAddUp
  BY SeatsNeverOversold, NoSeatIsLost, PTL DEF SeatsAddUp

-----------------------------------------------------------------------------
(* Who can wait for whom.                                                  *)

\* The lock on r that t holds is one that its step accounts for.
Holds(t, r) ==
    \/ r \in Users /\ txn[t].at \in HasGuestLock /\ txn[t].user = r
    \/ r \in Listings /\ txn[t].at \in HasListingLock /\ txn[t].l = r
    \/ r \in BookingIds /\ txn[t].at \in HasBookingLock /\ txn[t].b = r
    \/ /\ r \in BookingIds /\ txn[t].at \in {"drop.cascade", "drop.commit"}
       /\ booking[r].status # "none" /\ booking[r].l = txn[t].l

\* No transaction holds a lock it has no use for.
NoStrayLock == \A t \in Txns, r \in Resources : owner[r] = t => Holds(t, r)

\* No step forgets a booking or moves it to another listing.
LEMMA BookingsStay ==
    ASSUME IInv, [Next]_vars, NEW b \in BookingIds, booking[b].status # "none"
    PROVE  booking'[b].status # "none" /\ booking'[b].l = booking[b].l
<1>1. CASE UNCHANGED <<listing, booking, told>>
  BY <1>1
<1>2. CASE \/ \E l \in Listings, v \in BOOLEAN : SetModerationStatus(l, v)
           \/ \E h \in Users : ScrubListings(h)
  BY <1>2 DEF SetModerationStatus, ScrubListings
<1>3. ASSUME NEW t \in Txns, Commit(t)
      PROVE  booking'[b].status # "none" /\ booking'[b].l = booking[b].l
  <2>1. CASE \E x \in BookingIds : CreateCommit(t, x)
    BY <2>1, CreateEffect
  <2>2. CASE CancelCommit(t)
    BY <2>2, CancelEffect
  <2>3. CASE ConfirmCommit(t)
    BY <2>3, ConfirmEffect
  <2>4. CASE PromoteCommit(t)
    BY <2>4, PromoteEffect
  <2>5. CASE DropCommit(t)
    BY <2>5, DropEffect
  <2>6. CASE EditCommit(t)
    BY <2>6, EditEffect
  <2>. QED
    BY <1>3, <2>1, <2>2, <2>3, <2>4, <2>5, <2>6 DEF Commit
<1>. QED
  BY <1>1, <1>2, <1>3, OnlyCommitsPublish

\* A step of one transaction takes no lock for another one and leaves the
\* other one where it is.
LEMMA LocksOfOthers ==
    ASSUME IInv, NEW t \in Txns, Request(t) \/ TxnStep(t) \/ Rollback(t) \/ DeadlockAbort(t),
           NEW u \in Txns \ {t}
    PROVE  /\ txn'[u] = txn[u]
           /\ \A r \in Resources : owner'[r] = u => owner[r] = u
<1>. /\ txn \in [Txns -> TxnRow] /\ owner \in [Resources -> Txns \cup {None}]
     /\ u # None
  BY ConstantsAssumption DEF IInv, TypeOK
<1>1. CASE End(t)
  BY <1>1 DEF End, Released
<1>2. CASE Request(t)
  BY <1>2 DEF Request, BeginCreate, BeginDrop, BeginEdit, BeginCancel, BeginConfirm,
       BeginPromote, Begin
<1>3. CASE TxnStep(t) /\ ~End(t)
  BY <1>3 DEF TxnStep, Leave, Lock, Goto, CreateLock, CreateCheck, CreateDecrement,
       CreateCommit, CancelLock, CancelMark, CancelRestore, CancelCommit, ConfirmLock,
       ConfirmCommit, PromoteLock, PromoteCommit, DropLock, DropCascade, DropCommit, DropOnly,
       EditLock, EditCount, EditCommit
<1>. QED
  BY <1>1, <1>2, <1>3 DEF Rollback, DeadlockAbort, Leave

\* What a transaction that goes on holds: its old locks and perhaps one more.
LEMMA OwnLocks ==
    ASSUME IInv, NoStrayLock, NEW t \in Txns, TxnStep(t), ~End(t)
    PROVE  \A r \in Resources : owner'[r] = t => Holds(t, r)'
<1>. SUFFICES ASSUME NEW r \in Resources, owner'[r] = t
              PROVE  Holds(t, r)'
  OBVIOUS
<1>. /\ txn \in [Txns -> TxnRow] /\ owner \in [Resources -> Txns \cup {None}]
     /\ Locked(t) /\ txn[t] \in TxnRow
     /\ owner[r] = t => Holds(t, r)
  BY DEF IInv, TypeOK, NoStaleCommit, NoStrayLock
<1>. USE DEF Holds, HasGuestLock, HasListingLock, HasBookingLock, Lock, Goto, Leave
<1>1. CASE CreateLock(t)
  BY <1>1 DEF CreateLock, Locked, OnListing, TxnRow
<1>2. CASE CreateCheck(t)
  BY <1>2 DEF CreateCheck, TxnRow
<1>3. CASE CreateDecrement(t)
  BY <1>3 DEF CreateDecrement, Locked, OnListing, TxnRow
<1>4. CASE CancelLock(t)
  BY <1>4 DEF CancelLock, Locked, OnBooking, TxnRow
<1>5. CASE CancelMark(t)
  BY <1>5 DEF CancelMark, TxnRow
<1>6. CASE CancelRestore(t)
  BY <1>6 DEF CancelRestore, Locked, OnBooking, TxnRow
<1>7. CASE ConfirmLock(t)
  BY <1>7 DEF ConfirmLock, Locked, OnBooking, TxnRow
<1>8. CASE PromoteLock(t)
  BY <1>8 DEF PromoteLock, Locked, OnBooking, TxnRow
<1>9. CASE DropLock(t)
  BY <1>9 DEF DropLock, Locked, OnListing, TxnRow
<1>10. CASE DropCascade(t)
  BY <1>10 DEF DropCascade, Active, ActiveIn, LiveStatus, TxnRow
<1>11. CASE EditLock(t)
  BY <1>11 DEF EditLock, Locked, OnListing, TxnRow
<1>12. CASE \E c \in Capacities, s \in 1..MaxTime, m \in BOOLEAN : EditCount(t, c, s, m)
  BY <1>12 DEF EditCount, TxnRow
<1>13. ~ \/ \E b \in BookingIds : CreateCommit(t, b)
         \/ CancelCommit(t) \/ ConfirmCommit(t) \/ PromoteCommit(t)
         \/ DropCommit(t) \/ EditCommit(t)
  BY DEF CreateCommit, CancelCommit, ConfirmCommit, PromoteCommit, DropCommit, DropOnly,
       EditCommit
<1>. QED
  BY <1>1, <1>2, <1>3, <1>4, <1>5, <1>6, <1>7, <1>8, <1>9, <1>10, <1>11, <1>12, <1>13
     DEF TxnStep

\* NoStrayLock is inductive.
LEMMA NextNoStrayLock == IInv /\ NoStrayLock /\ [Next]_vars => NoStrayLock'
<1>. SUFFICES ASSUME IInv, NoStrayLock, [Next]_vars PROVE NoStrayLock'
  OBVIOUS
<1>. /\ txn \in [Txns -> TxnRow] /\ owner \in [Resources -> Txns \cup {None}]
     /\ \A t \in Txns : t # None
  BY ConstantsAssumption DEF IInv, TypeOK
<1>1. ASSUME NEW u \in Txns, txn'[u] = txn[u], NEW r \in Resources, owner[r] = u
      PROVE  Holds(u, r)'
  <2>1. Holds(u, r)
    BY <1>1 DEF NoStrayLock
  <2>2. r \in BookingIds /\ booking[r].status # "none"
          => booking'[r].status # "none" /\ booking'[r].l = booking[r].l
    BY BookingsStay
  <2>. QED
    BY <1>1, <2>1, <2>2 DEF Holds
<1>2. CASE UNCHANGED <<owner, txn>>
  BY <1>1, <1>2 DEF NoStrayLock
<1>3. ASSUME NEW t \in Txns, Request(t) \/ TxnStep(t) \/ Rollback(t) \/ DeadlockAbort(t)
      PROVE  NoStrayLock'
  <2>1. ASSUME NEW u \in Txns \ {t}, NEW r \in Resources, owner'[r] = u
        PROVE  Holds(u, r)'
    BY <1>1, <1>3, <2>1, LocksOfOthers
  <2>2. ASSUME NEW r \in Resources, owner'[r] = t
        PROVE  Holds(t, r)'
    <3>1. CASE End(t)
      BY <2>2, <3>1 DEF End, Released
    <3>2. CASE Request(t)
      <4>1. txn[t].at = "idle" /\ owner' = owner
        BY <3>2 DEF Request, BeginCreate, BeginDrop, BeginEdit, BeginCancel, BeginConfirm,
             BeginPromote, Begin
      <4>2. ~Holds(t, r)
        BY <4>1 DEF Holds, HasGuestLock, HasListingLock, HasBookingLock
      <4>. QED
        BY <2>2, <4>1, <4>2 DEF NoStrayLock
    <3>3. CASE TxnStep(t) /\ ~End(t)
      BY <2>2, <3>3, OwnLocks
    <3>. QED
      BY <1>3, <3>1, <3>2, <3>3 DEF Rollback, DeadlockAbort, Leave
  <2>. QED
    BY <2>1, <2>2 DEF NoStrayLock
<1>. QED
  BY <1>2, <1>3 DEF Next, vars, SetModerationStatus, ScrubListings, Tick

\* A transaction that waits while it is waited for is cancelBooking waiting
\* for the listing row or cancelListing waiting for a booking row.
LEMMA WaitersThatHold ==
    ASSUME IInv, NoStrayLock, NEW t \in Txns, NEW u \in Txns, WaitsFor(t, u), WaitsFor(u, t)
    PROVE  txn[t].at \in {"cancel.restore", "drop.cascade"}
<1>. /\ Locked(t) /\ Locked(u) /\ t # u
     /\ Users \cap Listings = {} /\ Users \cap BookingIds = {} /\ Listings \cap BookingIds = {}
  BY ConstantsAssumption DEF IInv, NoStaleCommit, WaitsFor
<1>1. PICK r \in Wants(t) : owner[r] = u
  BY DEF WaitsFor
<1>2. PICK q \in Wants(u) : owner[q] = t
  BY DEF WaitsFor
<1>3. r \in Resources /\ q \in Resources
  <2>1. \A x \in {t, u} : Wants(x) \subseteq Resources
    BY DEF Wants, Locked, OnListing, OnBooking, Resources, Active, ActiveIn
  <2>. QED
    BY <2>1
<1>4. Holds(u, r) /\ Holds(t, q)
  BY <1>1, <1>2, <1>3 DEF NoStrayLock
<1>5. txn[t].at \in {"create.decrement", "cancel.restore", "drop.cascade"}
  BY <1>1, <1>4 DEF Holds, Wants, HasGuestLock, HasListingLock, HasBookingLock
<1>6. txn[u].at \in {"create.decrement", "cancel.restore", "drop.cascade"}
  BY <1>2, <1>4 DEF Holds, Wants, HasGuestLock, HasListingLock, HasBookingLock
<1>7. q \notin Users
  BY <1>2, <1>6 DEF Wants, Locked, OnListing, OnBooking, Active, ActiveIn
<1>8. txn[t].at # "create.decrement"
  BY <1>4, <1>7 DEF Holds, HasGuestLock, HasListingLock, HasBookingLock
<1>. QED
  BY <1>5, <1>8

\* Lock order: a reservation takes guest then listing, a cancellation booking
\* then listing, cancelListing listing then bookings.  So two transactions
\* block each other only as cancelBooking against cancelListing, and no other
\* call can be the victim of a deadlock, for any number of connections.
THEOREM OnlyCancelMeetsDrop == Spec => []DeadlockOnlyCancelVsDrop
<1>1. Init => NoStrayLock
  BY ConstantsAssumption DEF Init, NoStrayLock
<1>2. IInv /\ NoStrayLock => DeadlockOnlyCancelVsDrop
  <2>. SUFFICES ASSUME IInv, NoStrayLock, NEW t \in Txns, NEW u \in Txns,
                       WaitsFor(t, u), WaitsFor(u, t)
                PROVE  {txn[t].at, txn[u].at} = {"cancel.restore", "drop.cascade"}
    BY DEF DeadlockOnlyCancelVsDrop
  <2>1. /\ txn[t].at \in {"cancel.restore", "drop.cascade"}
        /\ txn[u].at \in {"cancel.restore", "drop.cascade"}
    BY WaitersThatHold
  <2>2. /\ Locked(t) /\ Locked(u) /\ t # u /\ Listings \cap BookingIds = {}
        /\ Users \cap Listings = {} /\ Users \cap BookingIds = {}
    BY ConstantsAssumption DEF IInv, NoStaleCommit, WaitsFor
  <2>3. PICK r \in Wants(t) : owner[r] = u
    BY DEF WaitsFor
  <2>4. PICK q \in Wants(u) : owner[q] = t
    BY DEF WaitsFor
  <2>5. r \in Resources /\ q \in Resources
    BY <2>1, <2>2, <2>3, <2>4
       DEF Wants, Locked, OnListing, OnBooking, Resources, Active, ActiveIn
  <2>6. Holds(u, r) /\ Holds(t, q)
    BY <2>3, <2>4, <2>5 DEF NoStrayLock
  <2>7. ~(txn[t].at = "cancel.restore" /\ txn[u].at = "cancel.restore")
    BY <2>2, <2>3, <2>6 DEF Wants, Holds, HasGuestLock, HasListingLock, HasBookingLock,
         Locked, OnBooking
  <2>8. ~(txn[t].at = "drop.cascade" /\ txn[u].at = "drop.cascade")
    <3>. SUFFICES ASSUME txn[t].at = "drop.cascade", txn[u].at = "drop.cascade"
                  PROVE  FALSE
      OBVIOUS
    <3>1. r \in BookingIds /\ booking[r].l = txn[t].l
      BY <2>3 DEF Wants, Active, ActiveIn
    <3>2. booking[r].l = txn[u].l
      BY <2>2, <2>6, <3>1 DEF Holds, HasGuestLock, HasListingLock, HasBookingLock
    <3>3. owner[txn[t].l] = t /\ owner[txn[u].l] = u
      BY <2>2 DEF Locked, HasListingLock
    <3>. QED
      BY <2>2, <3>1, <3>2, <3>3
  <2>. QED
    BY <2>1, <2>7, <2>8
<1>3. Spec => []NoStrayLock
  BY <1>1, NextNoStrayLock, Invariance, PTL DEF Spec
<1>. QED
  BY <1>2, <1>3, Invariance, PTL
=============================================================================
