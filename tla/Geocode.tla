------------------------------ MODULE Geocode -------------------------------
(***************************************************************************)
(* Deferred geocoding of a listing: createListing and every address change *)
(* enqueue a listing.geocode job; the handler reads the address, calls the *)
(* Maps service and stores the coordinates with an UPDATE by id.  The two  *)
(* database accesses are separate statements without a lock, and the       *)
(* address may change while the Maps call is awaited                       *)
(* (src/outbox/handlers/listingGeocode.js, listings/service.js).           *)
(*                                                                         *)
(* An address is a number; geo is the address the stored coordinates were  *)
(* computed from.                                                          *)
(***************************************************************************)
EXTENDS Naturals, FiniteSets

CONSTANTS Workers,     \* outbox workers
          Unknown,     \* addresses the Maps service has no result for
          None,        \* no coordinates stored; a worker without job
          MaxMoves,    \* bound on the address changes
          MaxAttempts, \* config.outbox.maxAttempts
          MaxCrashes   \* bound on worker crashes

ASSUME GeocodeAssumption ==
    /\ Unknown \subseteq Nat
    /\ None \notin Nat
    /\ MaxMoves \in Nat
    /\ MaxAttempts \in Nat \ {0}
    /\ MaxCrashes \in Nat

VARIABLES address,  \* address columns of the listing
          geo,      \* lat, lng, coarse_lat, coarse_lng, area_label
          active,   \* listings.status = 'active'
          jobs,     \* listing.geocode jobs, one per address the listing has had
          run,      \* the delivery each worker is in
          overlap,  \* since the last move a delivery began while another was under way
          crashes

vars == <<address, geo, active, jobs, run, overlap, crashes>>

-----------------------------------------------------------------------------
JobIds == 1..(MaxMoves + 1)

JobRow == [status : {"none", "pending", "delivered", "dead"}, attempts : 0..MaxAttempts]

NewJob == [status |-> "pending", attempts |-> 0]

\* "read": claimed; "call": address read, Maps call awaited; "done": handler
\* returned, outcome not yet committed.
RunRow == [at : {"read", "call", "done"}, job : JobIds, from : Nat]

GeocodeInit ==
    /\ address = 1
    /\ geo = None
    /\ active = TRUE
    /\ jobs = [i \in JobIds |-> IF i = 1 THEN NewJob ELSE [status |-> "none", attempts |-> 0]]
    /\ run = [w \in Workers |-> None]
    /\ overlap = FALSE
    /\ crashes = 0

-----------------------------------------------------------------------------
\* Mutant: the location is cleared and no job is enqueued.
ChangeNoEnqueue ==
    /\ active
    /\ address <= MaxMoves
    /\ address' = address + 1
    /\ geo' = None
    /\ overlap' = FALSE
    /\ UNCHANGED <<active, jobs, run, crashes>>

\* updateListing with a changed address: the location is cleared and the job
\* enqueued in the same transaction.
ChangeAddress ==
    /\ active
    /\ address <= MaxMoves
    /\ address' = address + 1
    /\ geo' = None
    /\ overlap' = FALSE
    /\ jobs' = [jobs EXCEPT ![address + 1] = NewJob]
    /\ UNCHANGED <<active, run, crashes>>

Cancel ==
    /\ active
    /\ active' = FALSE
    /\ UNCHANGED <<address, geo, jobs, run, overlap, crashes>>

-----------------------------------------------------------------------------
(* The handler                                                             *)

UnderWay == {w \in Workers : run[w] # None}

Claimed(i) == \E w \in UnderWay : run[w].job = i

Claim(w, i) ==
    /\ run[w] = None
    /\ jobs[i].status = "pending"
    /\ ~Claimed(i)
    /\ run' = [run EXCEPT ![w] = [at |-> "read", job |-> i, from |-> 0]]
    /\ overlap' = (overlap \/ UnderWay # {})
    /\ UNCHANGED <<address, geo, active, jobs, crashes>>

At(w, step) == run[w] # None /\ run[w].at = step

\* The handler reads the address; a cancelled listing is skipped.
ReadAddress(w) ==
    /\ At(w, "read")
    /\ run' = [run EXCEPT ![w].at = IF active THEN "call" ELSE "done", ![w].from = address]
    /\ UNCHANGED <<address, geo, active, jobs, overlap, crashes>>

\* setGeocode: an UPDATE by id, whatever the address is by now.
StoreGeocode(w) ==
    /\ At(w, "call")
    /\ run[w].from \notin Unknown
    /\ geo' = run[w].from
    /\ run' = [run EXCEPT ![w].at = "done"]
    /\ UNCHANGED <<address, active, jobs, overlap, crashes>>

\* Maps has no result for the address: the job is complete, nothing is stored.
NoResults(w) ==
    /\ At(w, "call")
    /\ run[w].from \in Unknown
    /\ run' = [run EXCEPT ![w].at = "done"]
    /\ UNCHANGED <<address, geo, active, jobs, overlap, crashes>>

\* The poll commits the delivery.
Deliver(w) ==
    /\ At(w, "done")
    /\ jobs' = [jobs EXCEPT ![run[w].job].status = "delivered", ![run[w].job].attempts = @ + 1]
    /\ run' = [run EXCEPT ![w] = None]
    /\ UNCHANGED <<address, geo, active, overlap, crashes>>

\* Mutant: a failed Maps call completes the job.
MapsFailsQuietly(w) ==
    /\ At(w, "call")
    /\ jobs' = [jobs EXCEPT ![run[w].job].status = "delivered", ![run[w].job].attempts = @ + 1]
    /\ run' = [run EXCEPT ![w] = None]
    /\ UNCHANGED <<address, geo, active, overlap, crashes>>

\* Timeout, quota or outage of Maps, or a database error: the delivery is
\* retried until its budget is used up.
MapsFails(w) ==
    LET i == run[w].job
        attempt == jobs[i].attempts + 1
    IN
    /\ At(w, "read") \/ At(w, "call")
    /\ jobs' = [jobs EXCEPT ![i].attempts = attempt,
                            ![i].status = IF attempt >= MaxAttempts THEN "dead" ELSE @]
    /\ run' = [run EXCEPT ![w] = None]
    /\ UNCHANGED <<address, geo, active, overlap, crashes>>

Crash(w) ==
    /\ run[w] # None
    /\ crashes < MaxCrashes
    /\ crashes' = crashes + 1
    /\ run' = [run EXCEPT ![w] = None]
    /\ UNCHANGED <<address, geo, active, jobs, overlap>>

\* requeueDeadLetter, by an operator.
Requeue(i) ==
    /\ jobs[i].status = "dead"
    /\ jobs' = [jobs EXCEPT ![i] = NewJob]
    /\ UNCHANGED <<address, geo, active, run, overlap, crashes>>

-----------------------------------------------------------------------------
Work(w) ==
    \/ \E i \in JobIds : Claim(w, i)
    \/ ReadAddress(w) \/ StoreGeocode(w) \/ NoResults(w) \/ Deliver(w)

GeocodeNext ==
    \/ ChangeAddress
    \/ Cancel
    \/ \E w \in Workers : Work(w) \/ MapsFails(w) \/ Crash(w)
    \/ \E i \in JobIds : Requeue(i)

GeocodeSpec == GeocodeInit /\ [][GeocodeNext]_vars

(* The polling loop never dies; nothing makes Maps fail or a host act.     *)
FairSpec == GeocodeSpec /\ \A w \in Workers : WF_vars(Work(w))

-----------------------------------------------------------------------------
(* Properties                                                              *)

\* The listing, the jobs and the deliveries have their types.
GeocodeTypeOK ==
    /\ address \in Nat
    /\ geo \in Nat \cup {None}
    /\ active \in BOOLEAN
    /\ jobs \in [JobIds -> JobRow]
    /\ run \in [Workers -> RunRow \cup {None}]
    /\ overlap \in BOOLEAN
    /\ crashes \in Nat

\* No geocoding is waiting, running or dead-lettered.
Quiet == \A i \in JobIds : jobs[i].status \in {"none", "delivered"}

\* FR-11, NFR-09: once all geocoding of an active listing is done it is on the map, if
\* Maps knows the address; and on the map where it is, however late the answer to an
\* earlier address came, if no deliveries overlapped since it moved there.
LocationCatchesUp ==
    active /\ Quiet /\ address \notin Unknown =>
        /\ geo # None
        /\ ~overlap => geo = address

\* ADR-010, listings/service.js:478: "Stale precise/coarse location must not survive an
\* address change".  The code clears the location, but a delivery that read the address
\* before may still store it, after the delivery of the new address has come and gone.
NoStaleLocation == active /\ Quiet => geo \in {None, address}

\* The jobs as a ledger.
Ledger == INSTANCE JobLedger WITH
    Jobs  <- JobIds,
    fate  <- [i \in JobIds |-> IF jobs[i].status = "none" THEN "absent" ELSE jobs[i].status],
    tries <- [i \in JobIds |-> jobs[i].attempts]

\* RT-02, NFR-09: the jobs of this module, claimed one by one, are those of the
\* outbox: each delivery has one outcome, however the workers overlap and crash.
FollowsJobLedger == Ledger!LedgerSpec

\* NFR-09: an active listing that stays at a known address is located there in the end,
\* or where it was if deliveries overlap, or has a dead letter.
LocatedEventually ==
    \A a \in JobIds \ Unknown :
        (active /\ address = a)
          ~> \/ geo = a
             \/ overlap /\ geo # None
             \/ address # a \/ ~active
             \/ \E i \in JobIds : jobs[i].status = "dead"
=============================================================================
