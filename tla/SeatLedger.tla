----------------------------- MODULE SeatLedger -----------------------------
(***************************************************************************)
(* What the booking service promises about seats, with every service call  *)
(* atomic and no database in sight: a ledger of listings with a capacity,  *)
(* a number of free seats and the set of bookings that hold a seat.        *)
(***************************************************************************)
EXTENDS Naturals, FiniteSets

CONSTANTS Listings, BookingIds, Capacities

VARIABLES open,    \* listing -> it takes bookings
          cap,     \* listing -> capacity
          free,    \* listing -> seats a guest can reserve now
          holds,   \* listing -> bookings that hold a seat
          used     \* booking ids given out so far

ledger == <<open, cap, free, holds, used>>

LedgerInit ==
    /\ open = [l \in Listings |-> TRUE]
    /\ cap \in [Listings -> Capacities]
    /\ free = cap
    /\ holds = [l \in Listings |-> {}]
    /\ used = {}

\* A guest gets one free seat of an open listing, under a new booking id.
Reserve(l, b) ==
    /\ open[l] /\ free[l] > 0 /\ b \notin used
    /\ free' = [free EXCEPT ![l] = @ - 1]
    /\ holds' = [holds EXCEPT ![l] = @ \cup {b}]
    /\ used' = used \cup {b}
    /\ UNCHANGED <<open, cap>>

\* A booking is cancelled and its seat is free again.
GiveBack(l, b) ==
    /\ b \in holds[l]
    /\ free' = [free EXCEPT ![l] = @ + 1]
    /\ holds' = [holds EXCEPT ![l] = @ \ {b}]
    /\ UNCHANGED <<open, cap, used>>

\* A meal is over: its booking no longer holds a seat, the seat stays taken.
Finish(l, b) ==
    /\ b \in holds[l]
    /\ holds' = [holds EXCEPT ![l] = @ \ {b}]
    /\ UNCHANGED <<open, cap, free, used>>

\* The host changes the capacity; live bookings keep their seats.
Resize(l, c, f) ==
    /\ open[l]
    /\ f + Cardinality(holds[l]) <= c
    /\ cap' = [cap EXCEPT ![l] = c]
    /\ free' = [free EXCEPT ![l] = f]
    /\ UNCHANGED <<open, holds, used>>

\* The host cancels the meal: every live booking goes with it.
Close(l) ==
    /\ open[l]
    /\ open' = [open EXCEPT ![l] = FALSE]
    /\ holds' = [holds EXCEPT ![l] = {}]
    /\ UNCHANGED <<cap, free, used>>

\* A host's account is erased: its meals are off, the bookings are left as they are.
Withdraw(gone) ==
    /\ open' = [l \in Listings |-> open[l] /\ l \notin gone]
    /\ UNCHANGED <<cap, free, holds, used>>

LedgerNext ==
    \/ \E gone \in SUBSET Listings : Withdraw(gone)
    \/ \E l \in Listings :
          \/ \E b \in BookingIds : Reserve(l, b) \/ GiveBack(l, b) \/ Finish(l, b)
          \/ \E c \in Capacities : \E f \in 0..c : Resize(l, c, f)
          \/ Close(l)

LedgerSpec == LedgerInit /\ [][LedgerNext]_ledger
=============================================================================
