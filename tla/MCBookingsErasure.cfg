CONSTANTS
    host = host
    g1 = g1
    g2 = g2
    l1 = l1
    Users = {host, g1}
    Listings = {l1}
    BookingIds = {b1}
    Txns = {t1, t2}
    None = None
    HostOf <- MCHostOf
    Capacities = {1, 2}
    MaxPending = 1
    MaxTime = 1
    MaxEdits = 0
    MayErase = TRUE
SPECIFICATION Spec
SYMMETRY Interchangeable
INVARIANT CancelledListingHasNoLiveBooking
