--------------------------- MODULE AccountsProofs ---------------------------
(***************************************************************************)
(* Proofs about Accounts, for any number of requests served at once and    *)
(* any limits.                                                             *)
(*                                                                         *)
(* The two counting properties follow from sums over the requests under    *)
(* way: a login that was let through is a guess to come, or one that was   *)
(* made and is not recorded yet (GuessesCounted), and one that found the   *)
(* account alive is a session to come (SessionsCounted).  The flags are    *)
(* right because a recomputation that was not overtaken sees at its commit *)
(* what it has read (FlagsCurrent).                                        *)
(***************************************************************************)
EXTENDS Accounts, FiniteSetTheorems, TLAPS

\* The requests that are at one of the given steps.
At(steps) == {p \in Procs : req[p].step \in steps}

\* Every request has a known step; only verifications and updates come to
\* write, and what they write are attributes of the account.
Steps == {"idle", "mark", "columns", "host", "evaluate", "persist",
          "password", "record", "reset", "session", "sweep"}

WriteSets == UNION {[A -> BOOLEAN] : A \in SUBSET Attributes}

AccountRow == [registered : BOOLEAN, deleted : BOOLEAN, verified : BOOLEAN,
               basic : BOOLEAN, host : BOOLEAN]

ReqRow == [op : {"none", "verify", "update", "login", "delete"},
           step : Steps,
           patch : Patches \cup {"none"},
           writes : WriteSets,
           reserve : BOOLEAN, publish : BOOLEAN]

Types ==
    /\ account \in AccountRow
    /\ flags \in [reserve : BOOLEAN, publish : BOOLEAN]
    /\ req \in [Procs -> ReqRow]
    /\ rowLock \in Procs \cup {NoOne}
    /\ hostLock \in Procs \cup {NoOne}
    /\ fails \in Nat /\ ipFails \in Nat /\ guesses \in Nat /\ sessions \in Nat
    /\ started \in Nat /\ expired \in Nat
    /\ swept \in BOOLEAN /\ racing \in Nat
    /\ jobs \in [pending : Nat, dead : Nat]
    /\ resends \in 0..ResendMax
    /\ token \in [Tokens -> {"unborn", "live", "used", "expired"}]
    /\ overtaken \in BOOLEAN

\* Before there is an account there is no link to it, and nobody writes it.
NothingBefore ==
    ~account.registered =>
        /\ ~account.deleted
        /\ sessions = 0
        /\ jobs.pending = 0
        /\ \A t \in Tokens : token[t] = "unborn"
        /\ At({"mark", "columns", "host", "evaluate", "persist", "reset", "session", "sweep"}) = {}

\* What has been guessed was recorded or is about to be, and every login that
\* was let through counts against the limit it was checked against.
GuessesCounted ==
    /\ guesses <= fails + Cardinality(At({"record", "reset"}))
    /\ fails + Cardinality(At({"password", "record", "reset"}))
         <= LoginMax + Cardinality(Procs) - 1

\* After a deletion no login comes to make a session but those that were
\* under way; after a sweep, what they have made is all there is.
SessionsCounted ==
    /\ ~account.deleted => ~swept /\ At({"sweep"}) = {}
    /\ account.deleted => Cardinality(At({"reset", "session"})) <= racing
    /\ swept => sessions + Cardinality(At({"reset", "session"})) <= racing

\* The persisted flags fit the persisted account, and what a transaction is
\* about to persist fits the account as it will be then.
FlagsCurrent ==
    account.registered /\ ~account.deleted /\ ~overtaken =>
        /\ flags.reserve = CanReserveSeat(account)
        /\ flags.publish = CanPublishListing(account)
        /\ \A p \in Procs : req[p].step = "persist" =>
              /\ req[p].reserve = CanReserveSeat(Seen(p))
              /\ req[p].publish = CanPublishListing(Seen(p))

\* The inductive invariant.
AInv == Types /\ NothingBefore /\ GuessesCounted /\ SessionsCounted /\ FlagsCurrent

-----------------------------------------------------------------------------
(* Counting requests                                                       *)

\* There are finitely many requests at any steps, no more than are served.
LEMMA Counts ==
    ASSUME NEW steps
    PROVE  /\ IsFiniteSet(At(steps))
           /\ Cardinality(At(steps)) \in Nat
           /\ Cardinality(Procs) \in Nat
           /\ Cardinality(At(steps)) <= Cardinality(Procs)
BY ProcsAssumption, FS_Subset, FS_CardinalityType DEF At

\* A request that comes to some steps, or leaves them, changes the count of
\* those by one.
LEMMA MovedIn ==
    ASSUME Types, NEW p \in Procs, NEW r \in ReqRow, req' = [req EXCEPT ![p] = r],
           NEW steps, r.step \in steps, req[p].step \notin steps
    PROVE  Cardinality(At(steps)') = Cardinality(At(steps)) + 1
<1>1. At(steps)' = At(steps) \cup {p} /\ p \notin At(steps)
  BY DEF At, Types
<1>. QED
  BY <1>1, Counts, FS_AddElement

\* The other way round.
LEMMA MovedOut ==
    ASSUME Types, NEW p \in Procs, NEW r \in ReqRow, req' = [req EXCEPT ![p] = r],
           NEW steps, r.step \notin steps, req[p].step \in steps
    PROVE  Cardinality(At(steps)') = Cardinality(At(steps)) - 1
<1>1. At(steps)' = At(steps) \ {p} /\ p \in At(steps)
  BY DEF At, Types
<1>. QED
  BY <1>1, Counts, FS_RemoveElement

\* A step from outside to outside, or from inside to inside, changes none.
LEMMA AtSame ==
    ASSUME Types, NEW p \in Procs, NEW r \in ReqRow, req' = [req EXCEPT ![p] = r],
           NEW steps, r.step \in steps <=> req[p].step \in steps
    PROVE  At(steps)' = At(steps)
BY DEF At, Types

-----------------------------------------------------------------------------
(* Rows and what a request sees                                            *)

Under(writes) ==
    [a \in DOMAIN account |-> IF a \in DOMAIN writes THEN writes[a] ELSE account[a]]

\* A request sees the committed row under its own writes, a row of the same
\* type in which the account is as registered and deleted as it is.
LEMMA SeenType ==
    ASSUME Types, NEW p \in Procs
    PROVE  /\ Seen(p) = Under(req[p].writes)
           /\ Seen(p) \in AccountRow
           /\ Seen(p).registered = account.registered
           /\ Seen(p).deleted = account.deleted
<1>1. /\ account \in AccountRow
      /\ req[p] \in ReqRow
  BY DEF Types
<1>2. PICK A \in SUBSET Attributes : req[p].writes \in [A -> BOOLEAN]
  BY <1>1 DEF ReqRow, WriteSets
<1>. QED
  BY <1>1, <1>2 DEF Seen, Under, Attributes, AccountRow

\* The policy gives a truth value.
LEMMA PolicyType ==
    ASSUME NEW a
    PROVE  CanReserveSeat(a) \in BOOLEAN /\ CanPublishListing(a) \in BOOLEAN
BY DEF CanReserveSeat, CanPublishListing

\* A request that writes an attribute still writes attributes only.
LEMMA WriteType ==
    ASSUME Types, NEW p \in Procs, NEW a \in Attributes, NEW v \in BOOLEAN
    PROVE  Write(p, a, v) \in WriteSets
<1>1. req[p] \in ReqRow
  BY DEF Types
<1>2. PICK A \in SUBSET Attributes : req[p].writes \in [A -> BOOLEAN]
  BY <1>1 DEF ReqRow, WriteSets
<1>3. Write(p, a, v) \in [A \cup {a} -> BOOLEAN] /\ A \cup {a} \in SUBSET Attributes
  BY <1>2 DEF Write
<1>. QED
  BY <1>3 DEF WriteSets

\* A request that begins has no writes.
LEMMA Fresh ==
    ASSUME NEW op \in {"none", "verify", "update", "login", "delete"}, NEW step \in Steps,
           NEW patch \in Patches \cup {"none"}
    PROVE  [NoRequest EXCEPT !.op = op, !.step = step, !.patch = patch] \in ReqRow
<1>1. <<>> \in [{} -> BOOLEAN]
  OBVIOUS
<1>2. <<>> \in WriteSets
  BY <1>1 DEF WriteSets
<1>. QED
  BY <1>2 DEF NoRequest, ReqRow

\* A request that is over is none.
LEMMA Gone == NoRequest \in ReqRow /\ NoRequest.step = "idle"
<1>1. <<>> \in [{} -> BOOLEAN]
  OBVIOUS
<1>2. <<>> \in WriteSets
  BY <1>1 DEF WriteSets
<1>. QED
  BY <1>2 DEF NoRequest, ReqRow, Steps

\* The flags stay right while the rows stay as they are and no request is
\* about to persist anything else than what it sees.
LEMMA FlagsKept ==
    ASSUME AInv, UNCHANGED row, NEW p \in Procs, NEW r \in ReqRow,
           req' = [req EXCEPT ![p] = r],
           r.step = "persist" => /\ r.reserve = CanReserveSeat(Under(r.writes))
                                 /\ r.publish = CanPublishListing(Under(r.writes))
    PROVE  FlagsCurrent'
<1>1. \A q \in Procs : req'[q] = IF q = p THEN r ELSE req[q]
  BY DEF AInv, Types
<1>2. \A q \in Procs : Seen(q)' = IF q = p THEN Under(r.writes) ELSE Seen(q)
  BY <1>1 DEF Seen, Under, row
<1>. QED
  BY <1>1, <1>2 DEF AInv, FlagsCurrent, row, CanReserveSeat, CanPublishListing, Reasons, Snapshot

\* Neither do they change when no row and no request does.
LEMMA FlagsIdle ==
    ASSUME AInv, UNCHANGED row, UNCHANGED req
    PROVE  FlagsCurrent'
<1>1. \A q \in Procs : Seen(q)' = Seen(q)
  BY DEF Seen, row
<1>. QED
  BY <1>1 DEF AInv, FlagsCurrent, row, CanReserveSeat, CanPublishListing, Reasons, Snapshot

\* The steps of requests that the limiter and the sessions do not see.
Writing == {"idle", "mark", "columns", "host", "evaluate", "persist"}

\* Such a step changes no sum.
LEMMA SumsKept ==
    ASSUME AInv, UNCHANGED <<limiter, sess>>, account'.deleted = account.deleted,
           NEW p \in Procs, NEW r \in ReqRow, req' = [req EXCEPT ![p] = r],
           req[p].step \in Writing, r.step \in Writing
    PROVE  GuessesCounted' /\ SessionsCounted'
<1>1. ASSUME NEW steps, steps \cap Writing = {}
      PROVE  At(steps)' = At(steps)
  BY <1>1 DEF At, AInv, Types
<1>2. At({"record", "reset"})' = At({"record", "reset"})
  BY <1>1, Zenon DEF Writing
<1>3. At({"password", "record", "reset"})' = At({"password", "record", "reset"})
  BY <1>1, Zenon DEF Writing
<1>4. At({"sweep"})' = At({"sweep"})
  BY <1>1, Zenon DEF Writing
<1>5. At({"reset", "session"})' = At({"reset", "session"})
  BY <1>1, Zenon DEF Writing
<1>. QED
  BY <1>2, <1>3, <1>4, <1>5 DEF AInv, GuessesCounted, SessionsCounted, limiter, sess

-----------------------------------------------------------------------------
(* One lemma per action                                                    *)

\* What no request is involved in: registration, mails, links and windows.
LEMMA MailKeeps ==
    ASSUME AInv, UNCHANGED <<row, locks, limiter, req, sess, started>>,
           jobs' \in [pending : Nat, dead : Nat], resends' \in 0..ResendMax,
           token' \in [Tokens -> {"unborn", "live", "used", "expired"}], expired' \in Nat,
           ~account.registered => jobs'.pending = 0 /\ \A t \in Tokens : token'[t] = "unborn"
    PROVE  AInv'
<1>. USE DEF row, locks, limiter, sess
<1>1. Types'
  BY DEF AInv, Types
<1>2. NothingBefore'
  BY DEF AInv, NothingBefore, At
<1>3. GuessesCounted' /\ SessionsCounted'
  BY DEF AInv, GuessesCounted, SessionsCounted, At
<1>4. FlagsCurrent'
  BY FlagsIdle
<1>. QED
  BY <1>1, <1>2, <1>3, <1>4 DEF AInv

\* A new account may do nothing yet, and nobody was there before it.
LEMMA RegisterKeeps ==
    ASSUME AInv, Register
    PROVE  AInv'
<1>1. /\ ~account.registered
      /\ account' = [NoAccount EXCEPT !.registered = TRUE]
      /\ flags' = [reserve |-> FALSE, publish |-> FALSE]
      /\ jobs' = [jobs EXCEPT !.pending = @ + 1]
      /\ UNCHANGED <<locks, limiter, req, resends, sess, token, overtaken, started, expired>>
  BY DEF Register
<1>2. /\ account' \in AccountRow
      /\ account'.registered /\ ~account'.deleted /\ ~account'.verified
  <2>1. account' = [registered |-> TRUE, deleted |-> FALSE, verified |-> FALSE,
                    basic |-> FALSE, host |-> FALSE]
    BY <1>1 DEF NoAccount
  <2>. QED
    BY <2>1 DEF AccountRow
<1>3. Types'
  BY <1>1, <1>2 DEF AInv, Types, locks, limiter, sess
<1>4. NothingBefore'
  BY <1>2 DEF NothingBefore
<1>5. GuessesCounted' /\ SessionsCounted'
  <2>1. ~account.deleted
    BY <1>1 DEF AInv, NothingBefore
  <2>. QED
    BY <1>1, <1>2, <2>1 DEF AInv, GuessesCounted, SessionsCounted, At, limiter, sess
<1>6. FlagsCurrent'
  <2>1. ~CanReserveSeat(account') /\ ~CanPublishListing(account')
    BY <1>2 DEF CanReserveSeat, CanPublishListing, Reasons, Snapshot, Attributes
  <2>2. \A p \in Procs : req'[p].step # "persist"
    BY <1>1 DEF AInv, NothingBefore, At
  <2>. QED
    BY <1>1, <2>1, <2>2 DEF FlagsCurrent, CanReserveSeat, CanPublishListing, Reasons, Snapshot
<1>. QED
  BY <1>3, <1>4, <1>5, <1>6 DEF AInv

\* Fewer recorded failures mean fewer guesses counted; a session that ends
\* makes room.
LEMMA LimiterKeeps ==
    ASSUME AInv, LoginWindowEnds \/ EndSession
    PROVE  AInv'
<1>. USE DEF row, locks, limiter, mail, sess
<1>1. Types'
  BY DEF AInv, Types, LoginWindowEnds, EndSession
<1>2. NothingBefore'
  BY DEF AInv, NothingBefore, At, LoginWindowEnds, EndSession
<1>3. /\ \A S : At(S)' = At(S)
      /\ fails' \in Nat /\ fails' <= fails
      /\ guesses' \in Nat
      /\ guesses' = 0 \/ (guesses' = guesses /\ fails' = fails)
      /\ sessions' \in Nat /\ sessions' <= sessions
      /\ account' = account /\ swept' = swept /\ racing' = racing
  BY DEF AInv, Types, At, LoginWindowEnds, EndSession
<1>4. GuessesCounted'
  BY <1>3, Counts, AccountsAssumption DEF AInv, Types, GuessesCounted
<1>5. SessionsCounted'
  BY <1>3, Counts DEF AInv, Types, SessionsCounted
<1>6. FlagsCurrent'
  BY FlagsIdle DEF LoginWindowEnds, EndSession
<1>. QED
  BY <1>1, <1>2, <1>4, <1>5, <1>6 DEF AInv

\* The steps of verifications and updates up to their write of the flags.
LEMMA WriterKeeps ==
    ASSUME AInv, NEW p \in Procs, NEW r \in ReqRow, req' = [req EXCEPT ![p] = r],
           account.registered,
           req[p].step \in Writing, r.step \in Writing,
           r.step = "persist" => /\ r.reserve = CanReserveSeat(Under(r.writes))
                                 /\ r.publish = CanPublishListing(Under(r.writes)),
           UNCHANGED <<row, limiter, resends, jobs, expired, sess>>,
           rowLock' \in Procs \cup {NoOne}, hostLock' \in Procs \cup {NoOne},
           started' \in Nat,
           token' \in [Tokens -> {"unborn", "live", "used", "expired"}]
    PROVE  AInv'
<1>1. Types'
  BY DEF AInv, Types, row, limiter, sess
<1>2. NothingBefore'
  BY DEF NothingBefore, row
<1>3. GuessesCounted' /\ SessionsCounted'
  BY SumsKept DEF row
<1>4. FlagsCurrent'
  BY FlagsKept
<1>. QED
  BY <1>1, <1>2, <1>3, <1>4 DEF AInv

\* A request that writes has an account to write.
LEMMA HasAccount ==
    ASSUME AInv, NEW p \in Procs,
           req[p].step \in {"mark", "columns", "host", "evaluate", "persist", "reset",
                            "session", "sweep"}
    PROVE  account.registered
BY DEF AInv, NothingBefore, At

\* A link that is followed or a patch of the profile finds an account.
LEMMA BeginKeeps ==
    ASSUME AInv, NEW p \in Procs,
           (\E t \in Tokens : ConsumeToken(p, t)) \/ (\E patch \in Patches : BeginUpdate(p, patch))
    PROVE  AInv'
<1>. USE DEF row, locks, limiter, mail
<1>1. CASE \E t \in Tokens : ConsumeToken(p, t)
  <2>. DEFINE r == [NoRequest EXCEPT !.op = "verify", !.step = "mark"]
  <2>1. r \in ReqRow /\ r.step = "mark"
    <3>1. r = [NoRequest EXCEPT !.op = "verify", !.step = "mark", !.patch = NoRequest.patch]
      BY DEF NoRequest
    <3>2. NoRequest.patch = "none" /\ "mark" \in Steps
      BY DEF NoRequest, Steps
    <3>3. r.step = "mark"
      BY DEF NoRequest
    <3>. QED
      BY <3>1, <3>2, <3>3, Fresh
  <2>2. PICK t \in Tokens : /\ token[t] = "live"
                            /\ token' = [token EXCEPT ![t] = "used"]
                            /\ req[p].step = "idle"
                            /\ req' = [req EXCEPT ![p] = r]
                            /\ UNCHANGED <<row, locks, limiter, resends, sess, jobs,
                                           started, expired>>
    BY <1>1 DEF ConsumeToken
  <2>. HIDE DEF r
  <2>3. account.registered
    BY <2>2 DEF AInv, NothingBefore
  <2>. QED
    BY <2>1, <2>2, <2>3, WriterKeeps DEF AInv, Types, Writing
<1>2. CASE \E patch \in Patches : BeginUpdate(p, patch)
  <2>1. PICK patch \in Patches : BeginUpdate(p, patch)
    BY <1>2
  <2>. DEFINE step == IF HasColumns(patch) THEN "columns" ELSE "host"
              r == [NoRequest EXCEPT !.op = "update", !.step = step, !.patch = patch]
  <2>. step \in {"columns", "host"}
    OBVIOUS
  <2>2. r \in ReqRow /\ r.step = step
    <3>. HIDE DEF step
    <3>1. step \in Steps
      BY DEF Steps
    <3>2. r \in ReqRow
      BY <3>1, Fresh
    <3>. QED BY <3>2 DEF NoRequest
  <2>3. /\ req[p].step = "idle" /\ account.registered
        /\ req' = [req EXCEPT ![p] = r]
        /\ started' = started + 1
        /\ UNCHANGED <<row, locks, limiter, mail, sess>>
    <3>1. /\ req[p].step = "idle" /\ LiveAccount /\ started' = started + 1
          /\ req' = [req EXCEPT ![p] = [NoRequest EXCEPT !.op = "update", !.patch = patch,
                                                        !.step = step]]
          /\ UNCHANGED <<row, locks, limiter, mail, sess>>
      BY <2>1 DEF BeginUpdate
    <3>2. [NoRequest EXCEPT !.op = "update", !.patch = patch, !.step = step] = r
      BY DEF NoRequest
    <3>. QED BY <3>1, <3>2 DEF LiveAccount
  <2>. HIDE DEF r
  <2>4. r.step \in Writing \ {"persist"} /\ req[p].step \in Writing
    BY <2>2, <2>3 DEF Writing
  <2>5. /\ rowLock' \in Procs \cup {NoOne} /\ hostLock' \in Procs \cup {NoOne}
        /\ started' \in Nat
        /\ token' \in [Tokens -> {"unborn", "live", "used", "expired"}]
        /\ UNCHANGED <<row, limiter, resends, jobs, expired, sess>>
    BY <2>3 DEF AInv, Types
  <2>. HIDE DEF row, locks, limiter, mail
  <2>. QED
    BY <2>2, <2>3, <2>4, <2>5, WriterKeeps
<1>. QED
  BY <1>1, <1>2

\* An attribute is written, under the lock of its row.
LEMMA WriteKeeps ==
    ASSUME AInv, NEW p \in Procs,
           MarkEmailVerified(p) \/ UpdateColumns(p) \/ UpsertHostProfile(p)
    PROVE  AInv'
<1>. USE DEF row, locks, limiter, mail
<1>1. Types /\ rowLock \in Procs \cup {NoOne} /\ hostLock \in Procs \cup {NoOne}
  BY DEF AInv, Types
<1>2. /\ req[p].step \in {"mark", "columns", "host"}
      /\ UNCHANGED <<row, limiter, mail, sess, started>>
      /\ rowLock' \in Procs \cup {NoOne} /\ hostLock' \in Procs \cup {NoOne}
  BY <1>1 DEF MarkEmailVerified, UpdateColumns, UpsertHostProfile
<1>3. \E step \in {"host", "evaluate"}, a \in Attributes, v \in BOOLEAN :
         \/ req' = [req EXCEPT ![p].step = step, ![p].writes = Write(p, a, v)]
         \/ req' = [req EXCEPT ![p].writes = Write(p, a, v), ![p].step = step]
  <2>1. CASE MarkEmailVerified(p)
    BY <2>1 DEF MarkEmailVerified, Attributes
  <2>2. CASE UpdateColumns(p)
    BY <2>2 DEF UpdateColumns, Attributes
  <2>3. CASE UpsertHostProfile(p)
    BY <2>3 DEF UpsertHostProfile, Attributes
  <2>. QED
    BY <2>1, <2>2, <2>3
<1>4. PICK step \in {"host", "evaluate"}, a \in Attributes, v \in BOOLEAN :
         \/ req' = [req EXCEPT ![p].step = step, ![p].writes = Write(p, a, v)]
         \/ req' = [req EXCEPT ![p].writes = Write(p, a, v), ![p].step = step]
  BY <1>3
<1>5. PICK w \in WriteSets : w = Write(p, a, v)
  BY <1>1, WriteType
<1>6. req \in [Procs -> ReqRow] /\ req[p] \in ReqRow
  BY <1>1 DEF Types
<1>. DEFINE r == [req[p] EXCEPT !.step = step, !.writes = w]
<1>7. r \in ReqRow /\ r.step = step /\ req' = [req EXCEPT ![p] = r]
  BY <1>4, <1>5, <1>6 DEF ReqRow, Steps
<1>. HIDE DEF r
<1>. QED
  BY <1>2, <1>7, HasAccount, WriterKeeps DEF AInv, Types, Writing

\* The flags to be persisted are those of the row as the request sees it.
LEMMA EvaluateKeeps ==
    ASSUME AInv, NEW p \in Procs, Evaluate(p)
    PROVE  AInv'
<1>. DEFINE r == [req[p] EXCEPT !.reserve = CanReserveSeat(Seen(p)),
                                !.publish = CanPublishListing(Seen(p)), !.step = "persist"]
<1>1. Types /\ req \in [Procs -> ReqRow] /\ req[p] \in ReqRow
  BY DEF AInv, Types
<1>2. /\ req[p].step = "evaluate"
      /\ req' = [req EXCEPT ![p] = r]
      /\ UNCHANGED <<row, locks, limiter, mail, sess, started>>
  BY <1>1 DEF Evaluate
<1>3. /\ r \in ReqRow /\ r.step = "persist" /\ r.writes = req[p].writes
      /\ r.reserve = CanReserveSeat(Seen(p)) /\ r.publish = CanPublishListing(Seen(p))
  BY <1>1, PolicyType DEF ReqRow, Steps
<1>4. Seen(p) = Under(r.writes)
  BY <1>1, <1>3, SeenType
<1>. HIDE DEF r
<1>. QED
  BY <1>2, <1>3, <1>4, HasAccount, WriterKeeps DEF AInv, Types, Writing, locks, mail

\* A commit makes of the account what the request saw when it computed the
\* flags; whoever else is about to persist has been overtaken.
LEMMA PersistKeeps ==
    ASSUME AInv, NEW p \in Procs, PersistFlags(p)
    PROVE  AInv'
<1>1. /\ req[p].step = "persist" /\ rowLock \in {NoOne, p}
      /\ account' = Seen(p)
      /\ flags' = [reserve |-> req[p].reserve, publish |-> req[p].publish]
      /\ overtaken' = (overtaken \/ Overtakes(p))
      /\ rowLock' = NoOne
      /\ hostLock' = IF hostLock = p THEN NoOne ELSE hostLock
      /\ req' = [req EXCEPT ![p] = NoRequest]
      /\ UNCHANGED <<limiter, mail, sess, started>>
  BY DEF PersistFlags, Free
<1>2. Types /\ account.registered
  BY <1>1, HasAccount DEF AInv
<1>3. /\ account' \in AccountRow
      /\ account'.registered = account.registered /\ account'.deleted = account.deleted
  BY <1>1, <1>2, SeenType
<1>4. NoRequest \in ReqRow /\ NoRequest.step = "idle"
  BY Gone
<1>5. Types'
  <2>1. req[p] \in ReqRow /\ Overtakes(p) \in BOOLEAN
    BY <1>2 DEF Types, Overtakes
  <2>. QED
    BY <1>1, <1>2, <1>3, <1>4, <2>1 DEF Types, ReqRow, limiter, mail, sess
<1>6. NothingBefore'
  BY <1>2, <1>3 DEF NothingBefore
<1>7. GuessesCounted' /\ SessionsCounted'
  BY <1>1, <1>3, <1>4, SumsKept DEF Writing
<1>8. FlagsCurrent'
  <2>. SUFFICES ASSUME account'.registered, ~account'.deleted, ~overtaken'
                PROVE  /\ flags'.reserve = CanReserveSeat(account')
                       /\ flags'.publish = CanPublishListing(account')
                       /\ \A q \in Procs : req'[q].step # "persist"
    BY DEF FlagsCurrent, CanReserveSeat, CanPublishListing, Reasons, Snapshot
  <2>1. /\ req[p].reserve = CanReserveSeat(Seen(p))
        /\ req[p].publish = CanPublishListing(Seen(p))
    BY <1>1, <1>3 DEF AInv, FlagsCurrent
  <2>2. ASSUME NEW q \in Procs, req'[q].step = "persist" PROVE FALSE
    <3>1. q # p /\ req[q].step = "persist"
      BY <1>1, <1>2, <1>4, <2>2 DEF Types
    <3>2. rowLock # q
      BY <1>1, <3>1, ProcsAssumption
    <3>. QED
      BY <1>1, <3>1, <3>2 DEF Overtakes
  <2>. QED
    BY <1>1, <2>1, <2>2
<1>. QED
  BY <1>5, <1>6, <1>7, <1>8 DEF AInv

\* The victim of a deadlock is gone as if it had never come.
LEMMA DeadlockKeeps ==
    ASSUME AInv, NEW p \in Procs, NEW q \in Procs, DeadlockAbort(p, q)
    PROVE  AInv'
<1>1. PICK victim \in {p, q} :
         /\ rowLock' = IF victim = p THEN NoOne ELSE rowLock
         /\ hostLock' = IF victim = q THEN NoOne ELSE hostLock
         /\ req' = [req EXCEPT ![victim] = NoRequest]
         /\ req[victim].step \in {"host", "persist"}
         /\ UNCHANGED <<row, limiter, mail, sess, started>>
  BY DEF DeadlockAbort
<1>2. NoRequest \in ReqRow /\ NoRequest.step = "idle"
  BY Gone
<1>3. /\ rowLock' \in Procs \cup {NoOne} /\ hostLock' \in Procs \cup {NoOne}
      /\ started' \in Nat
      /\ token' \in [Tokens -> {"unborn", "live", "used", "expired"}]
      /\ UNCHANGED <<row, limiter, resends, jobs, expired, sess>>
  BY <1>1 DEF AInv, Types, mail
<1>4. account.registered
  BY <1>1, HasAccount
<1>. QED
  BY <1>1, <1>2, <1>3, <1>4, WriterKeeps DEF Writing

\* The steps of logins and of deletions but for the sums.
LEMMA LoginStep ==
    ASSUME AInv, NEW p \in Procs, NEW r \in ReqRow, req' = [req EXCEPT ![p] = r],
           UNCHANGED <<row, locks, mail>>,
           fails' \in Nat, ipFails' \in Nat, guesses' \in Nat, sessions' \in Nat,
           started' \in Nat, swept' \in BOOLEAN, racing' \in Nat,
           \/ r.step \in {"idle", "password", "record"} /\ sessions' = sessions
           \/ account.registered /\ r.step # "persist"
    PROVE  Types' /\ NothingBefore' /\ FlagsCurrent'
<1>1. Types'
  BY DEF AInv, Types, row, locks, mail
<1>2. NothingBefore'
  BY DEF AInv, Types, NothingBefore, At, row, mail
<1>3. FlagsCurrent'
  BY FlagsKept
<1>. QED
  BY <1>1, <1>2, <1>3

\* A login that is let through counts against the limit: there are fewer
\* recorded failures than the limit, and no more requests than there are.
LEMMA BeginLoginKeeps ==
    ASSUME AInv, NEW p \in Procs, BeginLogin(p)
    PROVE  AInv'
<1>. DEFINE r == [NoRequest EXCEPT !.op = "login", !.step = "password"]
<1>1. r \in ReqRow /\ r.step = "password"
  <2>1. r = [NoRequest EXCEPT !.op = "login", !.step = "password", !.patch = NoRequest.patch]
    BY DEF NoRequest
  <2>2. NoRequest.patch = "none" /\ r.step = "password" /\ "password" \in Steps
    BY DEF NoRequest, Steps
  <2>. QED
    BY <2>1, <2>2, Fresh
<1>2. /\ req[p].step = "idle" /\ fails < LoginMax
      /\ started' = started + 1
      /\ req' = [req EXCEPT ![p] = r]
      /\ UNCHANGED <<row, locks, limiter, mail, sess>>
  BY AccountsAssumption DEF BeginLogin, Limited, AInv, Types
<1>. HIDE DEF r
<1>3. Types' /\ NothingBefore' /\ FlagsCurrent'
  <2>1. /\ fails' \in Nat /\ ipFails' \in Nat /\ guesses' \in Nat /\ started' \in Nat
        /\ sessions' \in Nat /\ sessions' = sessions
        /\ swept' \in BOOLEAN /\ racing' \in Nat
        /\ UNCHANGED <<row, locks, mail>>
    BY <1>2 DEF AInv, Types, limiter, sess
  <2>. QED
    BY <1>1, <1>2, <2>1, LoginStep
<1>4. GuessesCounted'
  <2>1. /\ Cardinality(At({"record", "reset"})') = Cardinality(At({"record", "reset"}))
        /\ Cardinality(At({"password", "record", "reset"})') <= Cardinality(Procs)
        /\ Cardinality(At({"password", "record", "reset"})') \in Nat
        /\ Cardinality(At({"record", "reset"})) \in Nat /\ Cardinality(Procs) \in Nat
    <3>1. At({"record", "reset"})' = At({"record", "reset"})
      BY <1>1, <1>2 DEF At, AInv, Types
    <3>2. At({"password", "record", "reset"})' \subseteq Procs
      BY DEF At
    <3>3. /\ IsFiniteSet(At({"password", "record", "reset"})')
          /\ Cardinality(At({"password", "record", "reset"})') <= Cardinality(Procs)
      BY <3>2, ProcsAssumption, FS_Subset
    <3>. QED
      BY <3>1, <3>3, Counts, FS_CardinalityType
  <2>. QED
    BY <1>2, <2>1, AccountsAssumption DEF AInv, Types, GuessesCounted, limiter
<1>5. SessionsCounted'
  <2>1. /\ At({"sweep"})' = At({"sweep"})
        /\ At({"reset", "session"})' = At({"reset", "session"})
    BY <1>1, <1>2 DEF At, AInv, Types
  <2>. QED
    BY <1>2, <2>1 DEF AInv, SessionsCounted, row, sess
<1>. QED
  BY <1>3, <1>4, <1>5 DEF AInv

\* A guess is counted once it is made: its failure will be recorded, or its
\* success will clear the count.
LEMMA VerifyPasswordKeeps ==
    ASSUME AInv, NEW p \in Procs, NEW right \in BOOLEAN, VerifyPassword(p, right)
    PROVE  AInv'
<1>. DEFINE step == IF right THEN "reset" ELSE "record"
            r == [req[p] EXCEPT !.step = step]
<1>1. Types /\ req \in [Procs -> ReqRow] /\ req[p] \in ReqRow
  BY DEF AInv, Types
<1>2. /\ req[p].step = "password"
      /\ right => LiveAccount
      /\ guesses' = guesses + 1
      /\ req' = [req EXCEPT ![p] = r]
      /\ UNCHANGED <<row, locks, mail, fails, ipFails, sess, started>>
  BY <1>1 DEF VerifyPassword
<1>3. r \in ReqRow /\ r.step = step
  BY <1>1 DEF ReqRow, Steps
<1>. HIDE DEF r
<1>4. Types' /\ NothingBefore' /\ FlagsCurrent'
  <2>1. /\ fails' \in Nat /\ ipFails' \in Nat /\ guesses' \in Nat /\ started' \in Nat
        /\ sessions' \in Nat /\ sessions' = sessions
        /\ swept' \in BOOLEAN /\ racing' \in Nat
        /\ UNCHANGED <<row, locks, mail>>
    BY <1>1, <1>2 DEF Types, sess
  <2>2. right => account.registered
    BY <1>2 DEF LiveAccount
  <2>. QED
    BY <1>2, <1>3, <2>1, <2>2, LoginStep
<1>5. GuessesCounted'
  <2>1. step \in {"record", "reset"} /\ req[p].step \notin {"record", "reset"}
    BY <1>2
  <2>2. Cardinality(At({"record", "reset"})') = Cardinality(At({"record", "reset"})) + 1
    BY <1>1, <1>2, <1>3, <2>1, MovedIn
  <2>3. At({"password", "record", "reset"})' = At({"password", "record", "reset"})
    BY <1>1, <1>2, <1>3, AtSame
  <2>. QED
    BY <1>1, <1>2, <2>2, <2>3, Counts DEF AInv, Types, GuessesCounted
<1>6. SessionsCounted'
  <2>1. CASE right
    <3>1. At({"sweep"})' = At({"sweep"})
      BY <1>1, <1>2, <1>3, <2>1, AtSame
    <3>. QED
      BY <1>2, <2>1, <3>1 DEF AInv, SessionsCounted, LiveAccount, row, sess
  <2>2. CASE ~right
    <3>1. At({"sweep"})' = At({"sweep"})
      BY <1>1, <1>2, <1>3, <2>2, AtSame
    <3>2. At({"reset", "session"})' = At({"reset", "session"})
      BY <1>1, <1>2, <1>3, <2>2, AtSame
    <3>. QED
      BY <1>2, <3>1, <3>2 DEF AInv, SessionsCounted, row, sess
  <2>. QED
    BY <2>1, <2>2
<1>. QED
  BY <1>4, <1>5, <1>6 DEF AInv

\* A failure that was about to be recorded is recorded.
LEMMA RecordFailureKeeps ==
    ASSUME AInv, NEW p \in Procs, RecordFailure(p)
    PROVE  AInv'
<1>1. /\ Types /\ req[p].step = "record"
      /\ fails' = fails + 1 /\ ipFails' = ipFails + 1
      /\ req' = [req EXCEPT ![p] = NoRequest]
      /\ UNCHANGED <<row, locks, mail, guesses, sess, started>>
  BY DEF AInv, RecordFailure
<1>2. Types' /\ NothingBefore' /\ FlagsCurrent'
  <2>1. /\ fails' \in Nat /\ ipFails' \in Nat /\ guesses' \in Nat /\ started' \in Nat
        /\ sessions' \in Nat /\ sessions' = sessions
        /\ swept' \in BOOLEAN /\ racing' \in Nat
        /\ UNCHANGED <<row, locks, mail>>
    BY <1>1 DEF Types, sess
  <2>. QED
    BY <1>1, <2>1, Gone, LoginStep
<1>3. GuessesCounted'
  <2>1. /\ Cardinality(At({"record", "reset"})')
             = Cardinality(At({"record", "reset"})) - 1
        /\ Cardinality(At({"password", "record", "reset"})')
             = Cardinality(At({"password", "record", "reset"})) - 1
    <3>1. Cardinality(At({"record", "reset"})') = Cardinality(At({"record", "reset"})) - 1
      BY <1>1, Gone, MovedOut
    <3>2. Cardinality(At({"password", "record", "reset"})')
            = Cardinality(At({"password", "record", "reset"})) - 1
      BY <1>1, Gone, MovedOut
    <3>. QED
      BY <3>1, <3>2
  <2>. QED
    BY <1>1, <2>1, Counts DEF AInv, Types, GuessesCounted
<1>4. SessionsCounted'
  <2>1. /\ At({"sweep"})' = At({"sweep"})
        /\ At({"reset", "session"})' = At({"reset", "session"})
    BY <1>1, Gone DEF At, Types
  <2>. QED
    BY <1>1, <2>1 DEF AInv, SessionsCounted, row, sess
<1>. QED
  BY <1>2, <1>3, <1>4 DEF AInv

\* A success clears both counts at once, and is still a session to come.
LEMMA ResetAccountKeeps ==
    ASSUME AInv, NEW p \in Procs, ResetAccount(p)
    PROVE  AInv'
<1>. DEFINE r == [req[p] EXCEPT !.step = "session"]
<1>1. Types /\ req \in [Procs -> ReqRow] /\ req[p] \in ReqRow
  BY DEF AInv, Types
<1>2. /\ req[p].step = "reset"
      /\ fails' = 0 /\ guesses' = 0
      /\ req' = [req EXCEPT ![p] = r]
      /\ UNCHANGED <<row, locks, mail, ipFails, sess, started>>
  BY <1>1 DEF ResetAccount
<1>3. r \in ReqRow /\ r.step = "session"
  BY <1>1 DEF ReqRow, Steps
<1>. HIDE DEF r
<1>4. account.registered
  BY <1>2, HasAccount
<1>5. Types' /\ NothingBefore' /\ FlagsCurrent'
  BY <1>1, <1>2, <1>3, <1>4, LoginStep DEF Types, sess
<1>6. GuessesCounted'
  <2>1. /\ Cardinality(At({"record", "reset"})')
             = Cardinality(At({"record", "reset"})) - 1
        /\ Cardinality(At({"password", "record", "reset"})')
             = Cardinality(At({"password", "record", "reset"})) - 1
    <3>1. Cardinality(At({"record", "reset"})') = Cardinality(At({"record", "reset"})) - 1
      BY <1>1, <1>2, <1>3, MovedOut
    <3>2. Cardinality(At({"password", "record", "reset"})')
            = Cardinality(At({"password", "record", "reset"})) - 1
      BY <1>1, <1>2, <1>3, MovedOut
    <3>. QED
      BY <3>1, <3>2
  <2>2. /\ Cardinality(At({"record", "reset"})') >= 0
        /\ Cardinality(At({"record", "reset"})') \in Int
    <3>1. IsFiniteSet(At({"record", "reset"})')
      BY ProcsAssumption, FS_Subset DEF At
    <3>. QED
      BY <3>1, FS_CardinalityType
  <2>. QED
    BY <1>1, <1>2, <2>1, <2>2, Counts, AccountsAssumption DEF AInv, Types, GuessesCounted
<1>7. SessionsCounted'
  <2>1. At({"sweep"})' = At({"sweep"})
    BY <1>1, <1>2, <1>3 DEF At
  <2>2. At({"reset", "session"})' = At({"reset", "session"})
    BY <1>1, <1>2, <1>3 DEF At
  <2>. QED
    BY <1>2, <2>1, <2>2 DEF AInv, SessionsCounted, row, sess
<1>. QED
  BY <1>5, <1>6, <1>7 DEF AInv

\* The session that was to come is there.
LEMMA CreateSessionKeeps ==
    ASSUME AInv, NEW p \in Procs, CreateSession(p)
    PROVE  AInv'
<1>1. /\ Types /\ req[p].step = "session"
      /\ sessions' = sessions + 1
      /\ req' = [req EXCEPT ![p] = NoRequest]
      /\ UNCHANGED <<row, locks, limiter, mail, swept, racing, started>>
  BY DEF AInv, CreateSession
<1>2. account.registered
  BY <1>1, HasAccount
<1>3. Types' /\ NothingBefore' /\ FlagsCurrent'
  <2>1. /\ fails' \in Nat /\ ipFails' \in Nat /\ guesses' \in Nat /\ started' \in Nat
        /\ sessions' \in Nat /\ swept' \in BOOLEAN /\ racing' \in Nat
        /\ UNCHANGED <<row, locks, mail>>
    BY <1>1 DEF Types, limiter
  <2>. QED
    BY <1>1, <1>2, <2>1, Gone, LoginStep
<1>4. GuessesCounted'
  <2>1. /\ At({"record", "reset"})' = At({"record", "reset"})
        /\ At({"password", "record", "reset"})' = At({"password", "record", "reset"})
    BY <1>1, Gone DEF At, Types
  <2>. QED
    BY <1>1, <2>1 DEF AInv, GuessesCounted, limiter
<1>5. SessionsCounted'
  <2>1. At({"sweep"})' = At({"sweep"})
    BY <1>1, Gone DEF At, Types
  <2>2. Cardinality(At({"reset", "session"})') = Cardinality(At({"reset", "session"})) - 1
    BY <1>1, Gone, MovedOut
  <2>. QED
    BY <1>1, <2>1, <2>2, Counts DEF AInv, Types, SessionsCounted, row
<1>. QED
  BY <1>3, <1>4, <1>5 DEF AInv

\* With the mark, the sessions are still to be destroyed.
LEMMA MarkDeletedKeeps ==
    ASSUME AInv, NEW p \in Procs, MarkDeleted(p)
    PROVE  AInv'
<1>. DEFINE r == [NoRequest EXCEPT !.op = "delete", !.step = "sweep"]
<1>1. r \in ReqRow /\ r.step = "sweep"
  <2>1. r = [NoRequest EXCEPT !.op = "delete", !.step = "sweep", !.patch = NoRequest.patch]
    BY DEF NoRequest
  <2>2. NoRequest.patch = "none" /\ r.step = "sweep" /\ "sweep" \in Steps
    BY DEF NoRequest, Steps
  <2>. QED
    BY <2>1, <2>2, Fresh
<1>2. /\ Types /\ req[p].step = "idle" /\ account.registered
      /\ account' = [account EXCEPT !.deleted = TRUE]
      /\ req' = [req EXCEPT ![p] = r]
      /\ started' = started + 1
      /\ racing' = IF account.deleted THEN racing ELSE Cardinality(At({"reset", "session"}))
      /\ UNCHANGED <<locks, limiter, mail, flags, sessions, swept, overtaken>>
  BY DEF AInv, MarkDeleted, Entering, At
<1>. HIDE DEF r
<1>3. account' \in AccountRow /\ account'.registered /\ account'.deleted
  BY <1>2 DEF Types, AccountRow
<1>4. Types'
  BY <1>1, <1>2, <1>3, Counts DEF Types, locks, limiter, mail
<1>5. NothingBefore' /\ FlagsCurrent'
  BY <1>3 DEF NothingBefore, FlagsCurrent
<1>6. GuessesCounted'
  <2>1. /\ At({"record", "reset"})' = At({"record", "reset"})
        /\ At({"password", "record", "reset"})' = At({"password", "record", "reset"})
    BY <1>1, <1>2 DEF At, Types
  <2>. QED
    BY <1>2, <2>1 DEF AInv, GuessesCounted, limiter
<1>7. SessionsCounted'
  <2>1. At({"reset", "session"})' = At({"reset", "session"})
    BY <1>1, <1>2 DEF At, Types
  <2>. QED
    BY <1>2, <1>3, <2>1, Counts DEF AInv, SessionsCounted
<1>. QED
  BY <1>4, <1>5, <1>6, <1>7 DEF AInv

\* A sweep that comes to its end leaves the logins that may still make a
\* session; one that fails leaves some of the sessions besides.
LEMMA SweepKeeps ==
    ASSUME AInv, NEW p \in Procs, DestroySessions(p) \/ SweepFails(p)
    PROVE  AInv'
<1>1. /\ Types /\ req[p].step = "sweep"
      /\ sessions' \in Nat /\ sessions' <= sessions
      /\ \/ sessions' = 0 /\ swept' = TRUE
         \/ swept' = swept
      /\ req' = [req EXCEPT ![p] = NoRequest]
      /\ UNCHANGED <<row, locks, limiter, mail, racing, started>>
  BY DEF AInv, Types, DestroySessions, SweepFails
<1>2. account.registered /\ account.deleted
  BY <1>1, HasAccount DEF AInv, SessionsCounted, At
<1>3. Types' /\ NothingBefore' /\ FlagsCurrent'
  <2>1. /\ fails' \in Nat /\ ipFails' \in Nat /\ guesses' \in Nat /\ started' \in Nat
        /\ sessions' \in Nat /\ swept' \in BOOLEAN /\ racing' \in Nat
        /\ UNCHANGED <<row, locks, mail>>
    BY <1>1 DEF Types, limiter
  <2>. QED
    BY <1>1, <1>2, <2>1, Gone, LoginStep
<1>4. GuessesCounted'
  <2>1. /\ At({"record", "reset"})' = At({"record", "reset"})
        /\ At({"password", "record", "reset"})' = At({"password", "record", "reset"})
    BY <1>1, Gone DEF At, Types
  <2>. QED
    BY <1>1, <2>1 DEF AInv, GuessesCounted, limiter
<1>5. SessionsCounted'
  <2>1. At({"reset", "session"})' = At({"reset", "session"})
    BY <1>1, Gone DEF At, Types
  <2>. QED
    BY <1>1, <1>2, <2>1, Counts DEF AInv, Types, SessionsCounted, row
<1>. QED
  BY <1>3, <1>4, <1>5 DEF AInv

-----------------------------------------------------------------------------
(* The invariant and the theorems                                          *)

\* Nobody is there at first.
LEMMA InitiallyNobody == Init => AInv
<1>. SUFFICES ASSUME Init PROVE AInv
  OBVIOUS
<1>1. Types
  <2>1. account \in AccountRow
    BY DEF Init, NoAccount, AccountRow
  <2>2. /\ flags \in [reserve : BOOLEAN, publish : BOOLEAN]
        /\ jobs \in [pending : Nat, dead : Nat]
    BY DEF Init
  <2>3. req \in [Procs -> ReqRow]
    BY Gone DEF Init
  <2>4. resends \in 0..ResendMax
    BY AccountsAssumption DEF Init
  <2>. QED
    BY <2>1, <2>2, <2>3, <2>4 DEF Init, Types
<1>2. \A steps : "idle" \notin steps => At(steps) = {}
  BY Gone DEF Init, At
<1>3. NothingBefore /\ FlagsCurrent
  BY <1>2 DEF Init, NoAccount, NothingBefore, FlagsCurrent
<1>4. GuessesCounted /\ SessionsCounted
  <2>1. Cardinality(At({"record", "reset"})) = 0
        /\ Cardinality(At({"password", "record", "reset"})) = 0
    BY <1>2, FS_EmptySet
  <2>2. Cardinality(Procs) \in Nat
    BY Counts
  <2>3. At({"sweep"}) = {}
    BY <1>2
  <2>. QED
    BY <2>1, <2>2, <2>3, AccountsAssumption
       DEF Init, NoAccount, GuessesCounted, SessionsCounted
<1>. QED
  BY <1>1, <1>3, <1>4 DEF AInv

\* Every step keeps the invariant.
LEMMA NextKeeps == AInv /\ [Next]_vars => AInv'
<1>. SUFFICES ASSUME AInv, [Next]_vars PROVE AInv'
  OBVIOUS
<1>1. Types
  BY DEF AInv
<1>2. ASSUME Resend \/ ResendWindowEnds \/ DeadLetter
             \/ (\E t \in Tokens : DeliverLink(t) \/ Expire(t)) \/ UNCHANGED vars
      PROVE  AInv'
  <2>1. UNCHANGED <<row, locks, limiter, req, sess, started>>
    BY <1>2 DEF Resend, ResendWindowEnds, DeadLetter, DeliverLink, Expire, vars, mail, row,
       locks, limiter, sess
  <2>2. resends' \in 0..ResendMax /\ expired' \in Nat
    BY <1>1, <1>2, AccountsAssumption DEF Types, Resend, ResendLimited, ResendWindowEnds,
       DeadLetter, DeliverLink, Expire, vars, mail
  <2>3. token' \in [Tokens -> {"unborn", "live", "used", "expired"}]
    BY <1>1, <1>2 DEF Types, Resend, ResendWindowEnds, DeadLetter, DeliverLink, Expire, vars, mail
  <2>4. jobs' \in [pending : Nat, dead : Nat]
    BY <1>1, <1>2 DEF Types, Resend, ResendWindowEnds, DeadLetter, DeliverLink, Expire, vars, mail
  <2>5. ~account.registered => jobs'.pending = 0 /\ \A t \in Tokens : token'[t] = "unborn"
    BY <1>1, <1>2 DEF AInv, Types, NothingBefore, Resend, LiveAccount, ResendWindowEnds,
       DeadLetter, DeliverLink, Expire, vars, mail
  <2>. QED
    BY <2>1, <2>2, <2>3, <2>4, <2>5, MailKeeps
<1>3. ASSUME NEW p \in Procs, Arrive(p) \/ Serve(p) \/ \E t \in Tokens : ConsumeToken(p, t)
      PROVE  AInv'
  BY <1>3, BeginKeeps, BeginLoginKeeps, MarkDeletedKeeps, WriteKeeps, EvaluateKeeps, PersistKeeps,
     VerifyPasswordKeeps, RecordFailureKeeps, ResetAccountKeeps, CreateSessionKeeps,
     SweepKeeps DEF Arrive, Serve
<1>. QED
  BY <1>2, <1>3, RegisterKeeps, LimiterKeeps, DeadlockKeeps DEF Next

\* The account, the requests, the limiter and the sessions stay within their
\* types and sums.
THEOREM AccountsInvariance == Spec => []AInv
<1>. QED
  BY InitiallyNobody, NextKeeps, PTL DEF Spec

\* The rows, the locks and the counters always have their types.
THEOREM AccountsTyped == Spec => []TypeOK
<1>1. AInv => TypeOK
  <2>. SUFFICES ASSUME Types PROVE TypeOK
    BY DEF AInv
  <2>1. ASSUME NEW p \in Procs PROVE DOMAIN req[p].writes \subseteq Attributes
    <3>1. req[p].writes \in WriteSets
      BY DEF Types, ReqRow
    <3>. QED
      BY <3>1 DEF WriteSets
  <2>2. account \in [{"registered", "deleted", "verified", "basic", "host"} -> BOOLEAN]
    BY DEF Types, AccountRow
  <2>3. {fails, ipFails, guesses, sessions, jobs.pending, jobs.dead} \subseteq Nat
    BY DEF Types
  <2>. QED
    BY <2>1, <2>2, <2>3 DEF Types, TypeOK
<1>. QED
  BY <1>1, AccountsInvariance, PTL

\* NFR-05: whatever logins run together, the guesses in a window exceed the
\* limit by less than the number of requests served at once.
THEOREM GuessingIsBounded == Spec => []GuessesBounded
<1>1. AInv => GuessesBounded
  <2>1. At({"record", "reset"}) \subseteq At({"password", "record", "reset"})
    BY DEF At
  <2>2. Cardinality(At({"record", "reset"})) <= Cardinality(At({"password", "record", "reset"}))
    BY <2>1, Counts, FS_Subset
  <2>. QED
    BY <2>2, Counts, AccountsAssumption DEF AInv, Types, GuessesCounted, GuessesBounded
<1>. QED
  BY <1>1, AccountsInvariance, PTL

\* NFR-06: the persisted flags are what the policy says of the persisted
\* account, unless a recomputation without the row was overtaken.
THEOREM FlagsAreCurrent == Spec => []FlagsMatchPolicy
<1>1. AInv => FlagsMatchPolicy
  BY DEF AInv, FlagsCurrent, FlagsMatchPolicy
<1>. QED
  BY <1>1, AccountsInvariance, PTL

\* AB-05: however sweeps fail and users ask again, the sessions of a deleted
\* account that are alive once a sweep has come to its end are those of logins
\* that were under way when it was marked.
THEOREM DeletionEndsSessions == Spec => []NoSessionSurvives
<1>1. AInv => NoSessionSurvives
  BY Counts DEF AInv, Types, SessionsCounted, NoSessionSurvives
<1>. QED
  BY <1>1, AccountsInvariance, PTL
=============================================================================
