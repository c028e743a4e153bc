---------------------------- MODULE MCDiscovery -----------------------------
(* A small instance of Discovery for TLC.                                  *)
EXTENDS Discovery, TLC

\* One spot is 1 km from the place, the other one 9 km.
Kilometres == [l \in {"la jolla"} |-> [g \in Spots |-> IF g = "near" THEN 1 ELSE 9]]

\* The requests are interchangeable.
AnyRequest == Permutations(Searchers)
=============================================================================
