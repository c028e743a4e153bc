------------------------------ MODULE Privacy ------------------------------
(***************************************************************************)
(* The end of an account (modules/privacy and modules/media): deletion at  *)
(* the user's request, erasure after two years of inactivity and a notice, *)
(* the export of the user's data, and the media the user uploaded.  The    *)
(* two outbox handlers (accountErasure, dataExport) run statement by       *)
(* statement in the workers, against the requests of one user and against  *)
(* whoever else writes what is known of the user.                          *)
(*                                                                         *)
(* A tick is a day or more.  Every job that is due is over, retries        *)
(* included, before the next tick.                                         *)
(***************************************************************************)
EXTENDS Naturals, Sequences, FiniteSets

CONSTANTS Workers,      \* worker processes
          Keys,         \* storage keys the user may be given
          Window,       \* config.privacy.erasureDays
          Inactivity,   \* config.privacy.inactivityMonths
          MaxAttempts,  \* config.outbox.maxAttempts
          MaxRequests,  \* bound on the data requests
          MaxTime,      \* bound on the clock
          MaxLate,      \* bound on what is written behind an erasure's back
          MaxFaults     \* bound on crashes, refusals and failures together

ASSUME PrivacyAssumption ==
    /\ Window \in Nat \ {0}
    /\ Inactivity \in Nat \ {0}
    /\ MaxAttempts \in Nat \ {0}
    /\ MaxRequests \in Nat
    /\ MaxTime \in Nat
    /\ MaxLate \in Nat
    /\ MaxFaults \in Nat

VARIABLES user,     \* the users row
          held,     \* where the database holds personal data of the user
          media,    \* objects in the storage and their media_objects rows
          session,  \* a session of the user is live
          web,      \* what a request of the user, or a delivery of another
                    \* handler, is in the middle of
          reqs,     \* data_requests, by id
          jobs,     \* outbox rows, by dedupe key
          run,      \* the handler each worker is in
          late,     \* what was written behind an erasure's back
          cut,      \* the deliveries cut short where it tells, and at which step
          now,
          faults

vars == <<user, held, media, session, web, reqs, jobs, run, late, cut, now, faults>>
store == <<user, held, media>>

-----------------------------------------------------------------------------
(* The tables                                                              *)

Stores == {"account", "host", "authored", "listings", "tokens"}
Never == MaxTime + 1
Ids == DOMAIN reqs
Open == {"pending", "processing"}

\* One dedupe key for the deletion of the user; the others name the request.
DeletionKey == <<"deletion", 0>>
JobKeys == ({"notice", "final", "export"} \X (1..MaxRequests)) \cup {DeletionKey}
NoJob == [status |-> "absent", request |-> 0, at |-> 0, attempts |-> 0]

\* createRequest
NewRequest(kind) ==
    [kind |-> kind, status |-> "pending", at |-> now, since |-> FALSE,
     notice |-> FALSE, sent |-> Never, copy |-> FALSE]

\* enqueue: a key that exists keeps its row, whatever became of it.
Enqueued(key, request, at) ==
    IF jobs[key].status # "absent" THEN jobs
    ELSE [jobs EXCEPT ![key] = [status |-> "pending", request |-> request,
                                at |-> at, attempts |-> 0]]

\* findOpenRequest
OpenRequests(kind) == {r \in Ids : reqs[r].kind = kind /\ reqs[r].status \in Open}

\* removed: the row is gone, the storage was told to delete the object.
NoMedia == [object |-> FALSE, row |-> "none"]

NoRun == [step |-> "idle", key |-> DeletionKey, todo |-> {}, object |-> {},
          failed |-> FALSE, notice |-> FALSE, copy |-> FALSE, ok |-> FALSE]

Init ==
    /\ user = [active |-> 0, deleted |-> FALSE, erased |-> FALSE]
    /\ held = Stores
    /\ media = [k \in Keys |-> NoMedia]
    /\ session = FALSE
    /\ web = "idle"
    /\ reqs = <<>>
    /\ jobs = [k \in JobKeys |-> NoJob]
    /\ run = [w \in Workers |-> NoRun]
    /\ late = {}
    /\ cut = {}
    /\ now = 0
    /\ faults = 0

\* What is written after the erasure, it does not see.
Written(what) == late' = IF user.erased THEN late \cup what ELSE late

\* Nor a media row that is added after a handler has listed them.
Attached(k) ==
    late' = IF user.erased \/ \E w \in Workers : run[w].step \in {"object", "row", "erase"}
            THEN late \cup {<<"media", k>>} ELSE late

-----------------------------------------------------------------------------
(* The user                                                                *)

\* Others write what is known of the user by id, after they have read that they
\* may: a login that its account is alive, a profile update too, a new listing
\* that its host is eligible, a mail that its addressee is alive, a geocode job
\* that the listing is not cancelled.  A message, a review or a safety alert asks
\* for no more than a session.
Writers == {"login", "patch", "post", "publish", "mail", "locate"}

May(writer) ==
    CASE writer = "login"   -> ~user.deleted
      [] writer = "patch"   -> session /\ ~user.deleted
      [] writer = "post"    -> session
      [] writer = "publish" -> session /\ ~user.deleted
      [] writer = "mail"    -> ~user.deleted
      [] writer = "locate"  -> "listings" \in held

Writes(writer) ==
    CASE writer = "login"   -> {}
      [] writer = "patch"   -> {"account", "host"}
      [] writer = "post"    -> {"authored"}
      [] writer = "publish" -> {"listings"}
      [] writer = "mail"    -> {"tokens"}
      [] writer = "locate"  -> {"listings"}

\* The check is passed ...  Bound: before the erasure all stores hold something
\* anyway, so but for a login only those are taken that are under way when a
\* handler is about to erase, or come later; a user signs in with no session left.
Begin(writer) ==
    /\ web = "idle"
    /\ May(writer)
    /\ Cardinality(late) < MaxLate
    /\ (writer = "login" /\ ~session) \/ user.erased \/ \E w \in Workers : run[w].step = "erase"
    /\ web' = writer
    /\ UNCHANGED <<store, session, reqs, jobs, run, late, cut, now, faults>>

\* ... and the rows are written, or a verification link is stored.
Write ==
    /\ web \in Writers \ {"login"}
    /\ web' = "idle"
    /\ held' = held \cup Writes(web)
    /\ Written(Writes(web) \X {0})
    /\ UNCHANGED <<user, media, session, reqs, jobs, run, cut, now, faults>>

\* createSession and touchLastActive: last_active_at is now.
Login ==
    /\ web = "login"
    /\ web' = "idle"
    /\ session' = TRUE
    /\ user' = [user EXCEPT !.active = now]
    /\ reqs' = [r \in Ids |-> [reqs[r] EXCEPT !.since = TRUE]]
    /\ Written({<<"session", 0>>})
    /\ UNCHANGED <<held, media, jobs, run, cut, now, faults>>

EndSession ==
    /\ session
    /\ session' = FALSE
    /\ UNCHANGED <<store, web, reqs, jobs, run, late, cut, now, faults>>

\* POST /uploads hands out a key of the user's own, the client puts the
\* object there itself, and attach adds the row: a key has at most one.  An
\* object that is never attached is left out.
Attach(k) ==
    /\ session
    /\ media[k].row = "none"
    /\ media' = [media EXCEPT ![k] = [object |-> TRUE, row |-> "live"]]
    /\ Attached(k)
    /\ UNCHANGED <<user, held, session, web, reqs, jobs, run, cut, now, faults>>

\* Mutant: the row is dropped and the object forgotten.
HideAndForget(k) ==
    /\ session
    /\ media[k].row = "live"
    /\ media' = [media EXCEPT ![k].row = "removed"]
    /\ UNCHANGED <<user, held, session, web, reqs, jobs, run, late, cut, now, faults>>

\* DELETE /api/media/:id only marks the row.
Hide(k) ==
    /\ session
    /\ media[k].row = "live"
    /\ media' = [media EXCEPT ![k].row = "hidden"]
    /\ UNCHANGED <<user, held, session, web, reqs, jobs, run, late, cut, now, faults>>

\* requestDeletion: the mark, the request and its job in one transaction.
\* Bound: only while the clock can still reach the due date.
RequestDeletion ==
    \E r \in 1..MaxRequests :
        LET open == OpenRequests("erasure")
        IN  /\ session
            /\ web = "idle"
            /\ ~user.erased
            /\ now + Window <= MaxTime
            /\ user' = [user EXCEPT !.deleted = TRUE]
            /\ \/ open = {} /\ r = Len(reqs) + 1 /\ reqs' = Append(reqs, NewRequest("erasure"))
               \/ r \in open /\ (\A other \in open : other <= r) /\ reqs' = reqs
            /\ jobs' = Enqueued(DeletionKey, r, now + Window)
            /\ web' = "sessions"
            /\ UNCHANGED <<held, media, session, run, late, cut, now, faults>>

\* After the commit every session of the user is destroyed.
DeletionEndsSessions ==
    /\ web = "sessions"
    /\ web' = "idle"
    /\ session' = FALSE
    /\ UNCHANGED <<store, reqs, jobs, run, late, cut, now, faults>>

\* Redis fails, or the server dies: the cookies live on until they expire.
DeletionCutShort ==
    /\ web = "sessions"
    /\ faults < MaxFaults
    /\ faults' = faults + 1
    /\ web' = "idle"
    /\ UNCHANGED <<store, session, reqs, jobs, run, late, cut, now>>

RequestExport ==
    /\ session
    /\ ~user.deleted
    /\ Len(reqs) < MaxRequests
    /\ reqs' = Append(reqs, NewRequest("export"))
    /\ jobs' = Enqueued(<<"export", Len(reqs) + 1>>, Len(reqs) + 1, now)
    /\ UNCHANGED <<store, session, web, run, late, cut, now, faults>>

\* findInactiveUsers
Inactive ==
    /\ ~user.deleted /\ ~user.erased
    /\ user.active + Inactivity <= now
    /\ OpenRequests("inactivity_notice") = {}

\* runInactivitySweep, by an operator.
InactivitySweep ==
    /\ Inactive
    /\ Len(reqs) < MaxRequests
    /\ now + Window <= MaxTime
    /\ reqs' = Append(reqs, NewRequest("inactivity_notice"))
    /\ jobs' = Enqueued(<<"notice", Len(reqs) + 1>>, Len(reqs) + 1, now)
    /\ UNCHANGED <<store, session, web, run, late, cut, now, faults>>

-----------------------------------------------------------------------------
(* The worker                                                              *)

Running(key) == \E w \in Workers : run[w].step # "idle" /\ run[w].key = key

Due == {k \in JobKeys : jobs[k].status = "pending" /\ jobs[k].at <= now /\ ~Running(k)}

Mine(w) == jobs[run[w].key].request
Step(w, step) == run' = [run EXCEPT ![w].step = step]
Done(w, ok) == run' = [run EXCEPT ![w].step = "end", ![w].ok = ok]

Claim(w, key) ==
    /\ run[w].step = "idle"
    /\ key \in Due
    /\ run' = [run EXCEPT ![w] = [NoRun EXCEPT !.step = "load", !.key = key]]
    /\ UNCHANGED <<store, session, web, reqs, jobs, late, cut, now, faults>>

\* The outcome of the handler is committed.
Finish(w) ==
    LET used == jobs[run[w].key].attempts + 1
    IN  /\ run[w].step = "end"
        /\ jobs' = [jobs EXCEPT ![run[w].key].status =
                                    IF run[w].ok THEN "delivered"
                                    ELSE IF used >= MaxAttempts THEN "dead" ELSE "pending",
                                ![run[w].key].attempts = used]
        /\ run' = [run EXCEPT ![w] = NoRun]
        /\ UNCHANGED <<store, session, web, reqs, late, cut, now, faults>>

\* After the notice was recorded, and before the sessions are ended.
Telling == ({"notice"} \X (1..MaxRequests)) \X {"final", "end"} \cup JobKeys \X {"sessions"}

\* The process dies and the job is claimed again, even when its handler has
\* come to an end but its poll has not committed; or a statement fails, and the
\* job is retried while its budget lasts.
Fault(w) ==
    /\ run[w].step # "idle"
    /\ faults < MaxFaults
    /\ faults' = faults + 1
    /\ cut' = cut \cup ({<<run[w].key, run[w].step>>} \cap Telling)
    /\ \/ run' = [run EXCEPT ![w] = NoRun]
       \/ run[w].step # "end" /\ Done(w, FALSE)
    /\ UNCHANGED <<store, session, web, reqs, jobs, late, now>>

-----------------------------------------------------------------------------
(* processErasure and processExport                                        *)

\* findRequestById: a request that is over needs nothing.
LoadRequest(w) ==
    /\ run[w].step = "load"
    /\ IF reqs[Mine(w)].status \in Open
       THEN run' = [run EXCEPT ![w].step = "user", ![w].notice = reqs[Mine(w)].notice]
       ELSE Done(w, TRUE)
    /\ UNCHANGED <<store, session, web, reqs, jobs, late, cut, now, faults>>

\* Mutant: the second phase does not look at the last activity.
PhaseUnaware(w) ==
    LET kind == run[w].key[1]
    IN  IF user.erased THEN "close"
        ELSE IF kind = "export" THEN "collect"
        ELSE IF kind # "deletion" /\ ~run[w].notice THEN "notice"
        ELSE "processing"

\* An erased user closes the request.  An inactive one is sent a notice
\* first, and is spared if it was active since it was flagged.
Phase(w) ==
    LET kind == run[w].key[1]
    IN  IF user.erased THEN "close"
        ELSE IF kind = "export" THEN "collect"
        ELSE IF kind # "deletion" /\ ~run[w].notice THEN "notice"
        ELSE IF kind # "deletion" /\ reqs[Mine(w)].since THEN "cancel"
        ELSE "processing"

\* getUser
LoadUser(w) ==
    /\ run[w].step = "user"
    /\ Step(w, Phase(w))
    /\ UNCHANGED <<store, session, web, reqs, jobs, late, cut, now, faults>>

\* completeRequest, failRequest, markRequestProcessing: none looks at the
\* status that is there.
SetStatus(r, status) == reqs' = [reqs EXCEPT ![r].status = status]

\* Mutant: the request of a user who is gone is left as it is.
CloseNothing(w) ==
    /\ run[w].step = "close"
    /\ Done(w, TRUE)
    /\ UNCHANGED <<store, session, web, reqs, jobs, late, cut, now, faults>>

\* The user was erased in the meantime.
CloseRequest(w) ==
    /\ run[w].step = "close"
    /\ SetStatus(Mine(w), IF run[w].key[1] = "export" THEN "failed" ELSE "completed")
    /\ Done(w, TRUE)
    /\ UNCHANGED <<store, session, web, jobs, late, cut, now, faults>>

CancelErasure(w) ==
    /\ run[w].step = "cancel"
    /\ SetStatus(Mine(w), "completed")
    /\ Done(w, TRUE)
    /\ UNCHANGED <<store, session, web, jobs, late, cut, now, faults>>

\* The transport sends the notice once per request, however often it is asked.
SendNotice(w) ==
    /\ run[w].step = "notice"
    /\ reqs' = [reqs EXCEPT ![Mine(w)].sent = IF @ = Never THEN now ELSE @]
    /\ Step(w, "merge")
    /\ UNCHANGED <<store, session, web, jobs, late, cut, now, faults>>

\* mergeRequestDetail commits that the notice was sent ...
MergeDetail(w) ==
    /\ run[w].step = "merge"
    /\ reqs' = [reqs EXCEPT ![Mine(w)].notice = TRUE]
    /\ Step(w, "final")
    /\ UNCHANGED <<store, session, web, jobs, late, cut, now, faults>>

\* Mutant: the second job is due at once.
EnqueueFinalNow(w) ==
    /\ run[w].step = "final"
    /\ jobs' = Enqueued(<<"final", Mine(w)>>, Mine(w), now)
    /\ Done(w, TRUE)
    /\ UNCHANGED <<store, session, web, reqs, late, cut, now, faults>>

\* ... before another transaction enqueues the job that will erase.
EnqueueFinal(w) ==
    /\ run[w].step = "final"
    /\ jobs' = Enqueued(<<"final", Mine(w)>>, Mine(w), now + Window)
    /\ Done(w, TRUE)
    /\ UNCHANGED <<store, session, web, reqs, late, cut, now, faults>>

MarkRequestProcessing(w) ==
    /\ run[w].step \in {"processing", "collect"}
    /\ SetStatus(Mine(w), "processing")
    /\ Step(w, IF run[w].step = "collect" THEN "read" ELSE "list")
    /\ UNCHANGED <<store, session, web, jobs, late, cut, now, faults>>

-----------------------------------------------------------------------------
(* The erasure                                                             *)

\* deleteForUser lists the rows of the user, the hidden ones too ...
ListMedia(w) ==
    /\ run[w].step = "list"
    /\ run' = [run EXCEPT ![w].step = "object",
                          ![w].todo = {k \in Keys : media[k].row \in {"live", "hidden"}}]
    /\ UNCHANGED <<store, session, web, reqs, jobs, late, cut, now, faults>>

\* ... deletes each object by its key ...
DeleteByKey(w, k) ==
    /\ run[w].step = "object"
    /\ k \in run[w].todo
    /\ media' = [media EXCEPT ![k].object = FALSE]
    /\ run' = [run EXCEPT ![w].step = "row", ![w].todo = @ \ {k}, ![w].object = {k}]
    /\ UNCHANGED <<user, held, session, web, reqs, jobs, late, cut, now, faults>>

\* ... and then its row; a second handler may have removed it.
RemoveById(w) ==
    /\ run[w].step = "row"
    /\ media' = [k \in Keys |-> IF k \in run[w].object THEN [media[k] EXCEPT !.row = "removed"]
                                ELSE media[k]]
    /\ run' = [run EXCEPT ![w].step = "object", ![w].object = {}]
    /\ UNCHANGED <<user, held, session, web, reqs, jobs, late, cut, now, faults>>

\* The storage refuses, or is down for all retries: the row is kept and the
\* other objects are deleted before the handler throws.
DeleteFails(w, k) ==
    /\ run[w].step = "object"
    /\ k \in run[w].todo
    /\ faults < MaxFaults
    /\ faults' = faults + 1
    /\ run' = [run EXCEPT ![w].todo = @ \ {k}, ![w].failed = TRUE]
    /\ UNCHANGED <<store, session, web, reqs, jobs, late, cut, now>>

MediaDone(w) ==
    /\ run[w].step = "object"
    /\ run[w].todo = {}
    /\ IF run[w].failed THEN Done(w, FALSE) ELSE Step(w, "erase")
    /\ UNCHANGED <<store, session, web, reqs, jobs, late, cut, now, faults>>

EraseUserRow(stores) == stores \ {"account"}
SeverAuthorReferences(stores) == stores \ {"authored"}
ScrubListings(stores) == stores \ {"listings"}
ClearHostProfile(stores) == stores \ {"host"}
DeleteVerificationTokens(stores) == stores \ {"tokens"}

\* Mutant: copies that were handed out are kept.
WipeNoExport(requests) == requests

WipeExportDetails(requests) ==
    [r \in DOMAIN requests |->
        IF requests[r].kind = "export" THEN [requests[r] EXCEPT !.copy = FALSE] ELSE requests[r]]

\* One transaction.
EraseAccount(w) ==
    /\ run[w].step = "erase"
    /\ user' = [user EXCEPT !.deleted = TRUE, !.erased = TRUE]
    /\ held' = DeleteVerificationTokens(ClearHostProfile(ScrubListings(
                   SeverAuthorReferences(EraseUserRow(held)))))
    /\ reqs' = [WipeExportDetails(reqs) EXCEPT ![Mine(w)].status = "completed"]
    /\ Step(w, "sessions")
    /\ UNCHANGED <<media, session, web, jobs, late, cut, now, faults>>

\* Mutant: sessions are ended by deletion requests only.
EndNoSessions(w) ==
    /\ run[w].step = "sessions"
    /\ Done(w, TRUE)
    /\ UNCHANGED <<store, session, web, reqs, jobs, late, cut, now, faults>>

\* destroySessionsForUser
DestroySessions(w) ==
    /\ run[w].step = "sessions"
    /\ session' = FALSE
    /\ Done(w, TRUE)
    /\ UNCHANGED <<store, web, reqs, jobs, late, cut, now, faults>>

-----------------------------------------------------------------------------
(* The export                                                              *)

\* collectExport: a copy of what there is.
CollectExport(w) ==
    /\ run[w].step = "read"
    /\ run' = [run EXCEPT ![w].step = "store", ![w].copy = held # {}]
    /\ UNCHANGED <<store, session, web, reqs, jobs, late, cut, now, faults>>

\* completeRequest merges the copy into the request.
StoreExport(w) ==
    /\ run[w].step = "store"
    /\ reqs' = [reqs EXCEPT ![Mine(w)].status = "completed", ![Mine(w)].copy = run[w].copy]
    /\ Written({<<"export", Mine(w)>>})
    /\ Done(w, TRUE)
    /\ UNCHANGED <<store, session, web, jobs, cut, now, faults>>

-----------------------------------------------------------------------------
Tick ==
    /\ now < MaxTime
    /\ web = "idle"
    /\ Due = {}
    /\ \A w \in Workers : run[w].step = "idle"
    /\ now' = now + 1
    /\ UNCHANGED <<store, session, web, reqs, jobs, run, late, cut, faults>>

Erase(w) ==
    \/ ListMedia(w)
    \/ \E k \in Keys : DeleteByKey(w, k)
    \/ RemoveById(w)
    \/ MediaDone(w)
    \/ EraseAccount(w)
    \/ DestroySessions(w)

Work(w) ==
    \/ \E key \in JobKeys : Claim(w, key)
    \/ LoadRequest(w)
    \/ LoadUser(w)
    \/ CloseRequest(w)
    \/ CancelErasure(w)
    \/ SendNotice(w)
    \/ MergeDetail(w)
    \/ EnqueueFinal(w)
    \/ MarkRequestProcessing(w)
    \/ Erase(w)
    \/ CollectExport(w)
    \/ StoreExport(w)
    \/ Finish(w)

Request ==
    \/ \E writer \in Writers : Begin(writer)
    \/ EndSession
    \/ \E k \in Keys : Attach(k) \/ Hide(k)
    \/ RequestDeletion
    \/ RequestExport
    \/ InactivitySweep

Respond == Write \/ Login \/ DeletionEndsSessions

Next ==
    \/ Request
    \/ Respond
    \/ DeletionCutShort
    \/ \E w \in Workers : Work(w) \/ Fault(w) \/ \E k \in Keys : DeleteFails(w, k)
    \/ Tick

Spec == Init /\ [][Next]_vars

(* Workers poll, requests that were taken up are answered, time passes.    *)
FairSpec ==
    /\ Spec
    /\ WF_vars(Respond)
    /\ SF_vars(Tick)
    /\ WF_vars(\E w \in Workers : Work(w))

-----------------------------------------------------------------------------
(* Properties                                                              *)

\* The tables, the handlers and the counters have their types.
TypeOK ==
    /\ user \in [active : 0..MaxTime, deleted : BOOLEAN, erased : BOOLEAN]
    /\ held \subseteq Stores
    /\ \A k \in Keys : media[k].row \in {"none", "live", "hidden", "removed"}
    /\ session \in BOOLEAN
    /\ \A r \in Ids : reqs[r].status \in Open \cup {"completed", "failed"}
    /\ \A k \in JobKeys : jobs[k].attempts \in 0..MaxAttempts
    /\ \A w \in Workers : run[w].step # "idle" => Mine(w) \in Ids
    /\ now \in 0..MaxTime

\* The jobs as a ledger.
Ledger == INSTANCE JobLedger WITH
    Jobs  <- JobKeys,
    fate  <- [k \in JobKeys |-> jobs[k].status],
    tries <- [k \in JobKeys |-> jobs[k].attempts]

\* RT-02, NFR-09: the jobs of a user's requests are those of the outbox: a request
\* repeated, a job enqueued by another and a redelivery leave each one outcome
\* per delivery, and a key that exists is not enqueued again.
FollowsJobLedger == Ledger!LedgerSpec

\* The step erases the user on behalf of inactivity request r.
ErasesFor(r) ==
    /\ ~user.erased /\ user'.erased
    /\ \E w \in Workers : /\ run[w].step = "erase"
                          /\ run'[w].step = "sessions"
                          /\ run[w].key \in {<<"notice", r>>, <<"final", r>>}

\* ADR-004: no object outlives its row: whatever fails or crashes between the
\* storage and the database, and whatever is attached meanwhile, an object whose
\* row is gone was deleted before it.
NoLostObject ==
    \A k \in Keys : media[k].row = "removed" => ~media[k].object

\* NFR-12: an inactive account is erased only after its notice and no earlier
\* than the notice window after it, unless a delivery of the first job was cut
\* short after it recorded the notice (service.js:217: its redelivery erases at
\* once); and a user who came back after the notice is spared, unless the login
\* fell on the very day of the erasure.
InactivityErasureIsDue ==
    [][\A r \in Ids : ErasesFor(r) =>
          /\ reqs[r].sent <= now
          /\ \/ reqs[r].sent + Window <= now
             \/ {<<<<"notice", r>>, "final">>, <<<<"notice", r>>, "end">>} \cap cut # {}
          /\ reqs[r].since => user.active = now]_vars

\* NFR-12, AB-05: after the erasure neither the database, nor an export that was
\* ready, nor a media row holds anything of the user but what was written behind
\* its back: by a profile update, a listing, a mail or a geocode job that had
\* passed its check before, by a message or an attachment through a session that
\* was still there, by an export that was being assembled.  And no session is
\* left but to the handler that is about to end them, unless that handler was cut
\* short there (a redelivery finds the user erased and does not come back to the
\* sessions, service.js:188) or a login had found the account alive before.
ErasureLeavesNothing ==
    user.erased =>
        /\ \A s \in held : <<s, 0>> \in late
        /\ \A r \in Ids : reqs[r].copy => <<"export", r>> \in late
        /\ \A k \in Keys : media[k].row \in {"live", "hidden"} => <<"media", k>> \in late
        /\ session => \/ \E w \in Workers : run[w].step = "sessions"
                      \/ \E key \in JobKeys : <<key, "sessions">> \in cut
                      \/ <<"session", 0>> \in late

\* NFR-12, NFR-13: no data request dangles: in the end it is completed or failed,
\* a deletion only with the user erased, or a job of it is in the dead-letter list.
EveryRequestSettles ==
    \A r \in 1..MaxRequests :
        (r \in Ids /\ reqs[r].status \in Open)
          ~> (r \in Ids /\ \/ /\ reqs[r].status \notin Open
                              /\ reqs[r].kind = "erasure" => user.erased
                           \/ \E k \in JobKeys : jobs[k].request = r /\ jobs[k].status = "dead")
=============================================================================
