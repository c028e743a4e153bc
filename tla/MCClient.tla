------------------------------ MODULE MCClient ------------------------------
(* A small instance of Client for TLC: the links a user follows.           *)
EXTENDS Client, TLC

MCJourneys ==
    {<<"search", "search">>, <<"search", "listing">>, <<"listing", "host">>,
     <<"listing", "reserve">>, <<"host", "listing">>, <<"bookings", "booking">>, <<"booking", "messages">>,
     <<"booking", "bookings">>, <<"messages", "booking">>, <<"mymeals", "edit">>, <<"edit", "listing">>,
     <<"queue", "queue">>, <<"queue", "alerts">>, <<"account", "bookings">>,
     <<"login", "bookings">>, <<"home", "search">>}

=============================================================================
