----------------------------- MODULE MCBookings -----------------------------
(* Small instances of Bookings for TLC.                                    *)
EXTENDS Bookings, TLC

CONSTANTS host, g1, g2, l1

\* One host with one listing.
MCHostOf == (l1 :> host)

\* Connections, booking ids and the two guests are interchangeable.
Interchangeable ==
    {p @@ q @@ r : p \in Permutations(Txns), q \in Permutations(BookingIds),
                   r \in Permutations(Users \ {host})}
=============================================================================
