------------------------------ MODULE MCMehko -------------------------------
(* A small instance of Mehko for TLC.                                      *)
EXTENDS Mehko, TLC

\* The weekends of 1970 on which daylight saving time began, in Los Angeles on
\* 26 April at 10:00 UTC, and ended, on 25 October at 09:00 UTC.
spring == 24 * 115 + 10
autumn == 24 * 297 + 9

MCOffset == [s \in spring - 58..spring + 34 |-> IF s < spring THEN 8 ELSE 7]
            @@ [s \in autumn - 33..autumn + 38 |-> IF s < autumn THEN 7 ELSE 8]

\* Of spring, noon of Friday, the last hour of Saturday, which is already Sunday in UTC,
\* and five o'clock of the Sunday the clock was put forward.
MCSpring == {24 * 113 + 12, 24 * 114 + 23, 24 * 115 + 5}

\* Of autumn, the hour of Sunday after the one the clock showed twice and the first of
\* Monday.
MCAutumn == {24 * 297 + 2, 24 * 298}

MCTyped == MCSpring \cup MCAutumn

\* None of them is skipped when the clock is put forward.
ASSUME MCTypedExist == \A w \in MCTyped : Exists(w)

\* Listing ids and connections are interchangeable.
Interchangeable == {p @@ q : p \in Permutations(Ids), q \in Permutations(Txns)}
=============================================================================
