----------------------------- MODULE Moderation -----------------------------
(***************************************************************************)
(* Content moderation (src/modules/moderation): every listing, review and  *)
(* message is written 'pending' together with a scan job.  The worker      *)
(* loads the text without a lock, awaits the classifier and then writes    *)
(* its verdict; what it cannot decide goes to the moderators' queue.  A    *)
(* material edit of a listing makes it pending again and enqueues another  *)
(* scan, while older scans and moderators may still be looking at the old  *)
(* text.  Reviews and messages belong to a booking, which their writers    *)
(* (modules reviews and messaging) read without a lock before the insert.  *)
(*                                                                         *)
(* A text is its version.  Delivery, retries and dead letters are those of *)
(* module Outbox, reduced to how many scan jobs wait and how many are dead.*)
(***************************************************************************)
EXTENDS Naturals, FiniteSets

CONSTANTS Contents,    \* content rows
          Editable,    \* the listings among them; nothing else is ever edited
          Workers,     \* outbox workers
          Moderators,  \* human moderators
          Blocked,     \* versions whose text the pre-filter blocks
          Idle,        \* a worker without job, a moderator without entry
          MaxVersion,  \* bound on the material edits
          MaxFails,    \* bound on failed scans
          MaxCrashes   \* bound on worker crashes

ASSUME ModerationAssumption ==
    /\ Editable \subseteq Contents
    /\ Blocked \subseteq Nat
    /\ MaxVersion \in Nat
    /\ MaxFails \in Nat
    /\ MaxCrashes \in Nat

VARIABLES form,      \* what each content is: listing, review or message
          booking,   \* status of the booking the reviews and messages are about
          found,     \* contents whose request has found its booking in order
          content,   \* version of the text and moderation_status
          queue,     \* moderation_queue: number of items so far, one open or none
          waiting,   \* pending moderation.scan jobs nobody has claimed
          dead,      \* dead-lettered scan jobs
          scan,      \* the scan each worker runs
          seen,      \* the queue entry each moderator looks at
          cleared,   \* versions whose text a classifier or a human approved
          again,     \* contents scanned by a worker that died before its poll was committed
          fails, crashes

texts == <<form, booking, found>>

vars == <<texts, content, queue, waiting, dead, scan, seen, cleared, fails, crashes, again>>

-----------------------------------------------------------------------------
ContentRow == [version : Nat, status : {"none", "pending", "approved", "rejected"}]

QueueRow == [items : Nat, open : BOOLEAN]

\* "load": claimed; "judge": text loaded, verdict awaited; "done": handled,
\* the outcome not yet committed by the poll.
ScanRow == [at : {"load", "judge", "done"}, c : Contents, version : Nat]

SeenRow == [c : Contents, item : Nat, version : Nat]

ASSUME IdleAssumption == Idle \notin ScanRow /\ Idle \notin SeenRow

\* The booking is of an earlier, approved listing; "live" is pending or in
\* progress, which neither writer tells apart.
Init ==
    /\ form \in [Contents -> {"listing", "review", "message"}]
    /\ \A c \in Contents : form[c] = "listing" <=> c \in Editable
    /\ booking = "live"
    /\ found = {}
    /\ content = [c \in Contents |-> [version |-> 0, status |-> "none"]]
    /\ queue = [c \in Contents |-> [items |-> 0, open |-> FALSE]]
    /\ waiting = [c \in Contents |-> 0]
    /\ dead = [c \in Contents |-> 0]
    /\ scan = [w \in Workers |-> Idle]
    /\ seen = [m \in Moderators |-> Idle]
    /\ cleared = [c \in Contents |-> {}]
    /\ again = {}
    /\ fails = 0
    /\ crashes = 0

-----------------------------------------------------------------------------
(* Writers of content                                                      *)

\* submitForReview: the new text is pending and its scan job commits with it.
Written(c) ==
    /\ content' = [content EXCEPT ![c] = [version |-> @.version + 1, status |-> "pending"]]
    /\ waiting' = [waiting EXCEPT ![c] = @ + 1]
    /\ UNCHANGED <<queue, dead, scan, seen, cleared, fails, crashes, again>>

CreateListing(c) ==
    /\ form[c] = "listing"
    /\ content[c].status = "none"
    /\ Written(c)
    /\ UNCHANGED texts

\* A review is about a meal that took place.
Reviewable == booking = "completed"

\* assertThreadOpen
ThreadOpen == booking # "cancelled"

\* findParticipantBooking, a read without a lock, and the checks on it.
FindBooking(c) ==
    /\ content[c].status = "none"
    /\ c \notin found
    /\ \/ form[c] = "review" /\ Reviewable
       \/ form[c] = "message" /\ ThreadOpen
    /\ found' = found \cup {c}
    /\ UNCHANGED <<form, booking, content, queue, waiting, dead, scan, seen, cleared, fails, crashes, again>>

\* createReview inserts; one per author and booking, by the unique index.
CreateReview(c) ==
    /\ form[c] = "review"
    /\ c \in found
    /\ content[c].status = "none"
    /\ Written(c)
    /\ UNCHANGED texts

\* postMessage inserts, whatever has become of the booking.
PostMessage(c) ==
    /\ form[c] = "message"
    /\ c \in found
    /\ content[c].status = "none"
    /\ Written(c)
    /\ UNCHANGED texts

\* The booking meanwhile: confirmCompletion, cancelBooking.
BookingEnds(s) ==
    /\ booking = "live"
    /\ booking' = s
    /\ UNCHANGED <<form, found, content, queue, waiting, dead, scan, seen, cleared, fails, crashes, again>>

\* Mutant: the edit relies on the scan job of the first version.
EditNoScan(c) ==
    /\ c \in Editable
    /\ content[c].status # "none"
    /\ content[c].version < MaxVersion
    /\ content' = [content EXCEPT ![c] = [version |-> @.version + 1, status |-> "pending"]]
    /\ UNCHANGED <<texts, queue, waiting, dead, scan, seen, cleared, fails, crashes, again>>

\* updateListing with a change of a material field.
MaterialEdit(c) ==
    /\ c \in Editable
    /\ content[c].status # "none"
    /\ content[c].version < MaxVersion
    /\ Written(c)
    /\ UNCHANGED texts

-----------------------------------------------------------------------------
(* processScan                                                             *)

Claim(w, c) ==
    /\ scan[w] = Idle
    /\ waiting[c] > 0
    /\ waiting' = [waiting EXCEPT ![c] = @ - 1]
    /\ scan' = [scan EXCEPT ![w] = [at |-> "load", c |-> c, version |-> 0]]
    /\ UNCHANGED <<texts, content, queue, dead, seen, cleared, fails, crashes, again>>

\* loadContent, without a lock; a decided content is skipped.
LoadContent(w) ==
    LET c == scan[w].c IN
    /\ scan[w] # Idle
    /\ scan[w].at = "load"
    /\ scan' = [scan EXCEPT ![w].at = IF content[c].status = "pending" THEN "judge" ELSE "done",
                            ![w].version = content[c].version]
    /\ UNCHANGED <<texts, content, queue, waiting, dead, seen, cleared, fails, crashes, again>>

Judging(w) == scan[w] # Idle /\ scan[w].at = "judge"

\* prefilter.check passes the text on to the later stages.
Passed(w) == Judging(w) /\ scan[w].version \notin Blocked

\* setModerationStatus: an UPDATE by id, whatever the status is by now.
SetStatus(c, s) == content' = [content EXCEPT ![c].status = s]

\* The pre-filter blocks the text.
ScanRejects(w) ==
    /\ Judging(w)
    /\ scan[w].version \in Blocked
    /\ SetStatus(scan[w].c, "rejected")
    /\ scan' = [scan EXCEPT ![w].at = "done"]
    /\ UNCHANGED <<texts, queue, waiting, dead, seen, cleared, fails, crashes, again>>

\* The classifier calls the text benign with enough confidence.
ScanApproves(w) ==
    /\ Passed(w)
    /\ SetStatus(scan[w].c, "approved")
    /\ cleared' = [cleared EXCEPT ![scan[w].c] = @ \cup {scan[w].version}]
    /\ scan' = [scan EXCEPT ![w].at = "done"]
    /\ UNCHANGED <<texts, queue, waiting, dead, seen, fails, crashes, again>>

\* Mutant: the decision is recorded but no queue item is made.
EscalateRecordOnly(w) ==
    /\ Passed(w)
    /\ scan' = [scan EXCEPT ![w].at = "done"]
    /\ UNCHANGED <<texts, content, queue, waiting, dead, seen, cleared, fails, crashes, again>>

\* insertQueueItem keeps the open item when there is one.
InsertQueueItem(q) == IF q.open THEN q ELSE [items |-> q.items + 1, open |-> TRUE]

\* Rate limit, data-use gate, low confidence or a violating category: the
\* text goes to the moderators.
ScanEscalates(w) ==
    LET c == scan[w].c IN
    /\ Passed(w)
    /\ queue' = [queue EXCEPT ![c] = InsertQueueItem(@)]
    /\ scan' = [scan EXCEPT ![w].at = "done"]
    /\ UNCHANGED <<texts, content, waiting, dead, seen, cleared, fails, crashes, again>>

\* The poll commits: the job is delivered.
Deliver(w) ==
    /\ scan[w] # Idle
    /\ scan[w].at = "done"
    /\ scan' = [scan EXCEPT ![w] = Idle]
    /\ UNCHANGED <<texts, content, queue, waiting, dead, seen, cleared, fails, crashes, again>>

\* Mutant: an outage of the provider lets the content through.
FailsOpen(w) ==
    /\ Passed(w)
    /\ fails < MaxFails
    /\ fails' = fails + 1
    /\ SetStatus(scan[w].c, "approved")
    /\ scan' = [scan EXCEPT ![w].at = "done"]
    /\ UNCHANGED <<texts, queue, waiting, dead, seen, cleared, crashes, again>>

\* ModerationProviderError or a database error: the job is retried, or
\* dead-lettered at the end of its budget; the content stays as it is.
ScanFails(w) ==
    /\ scan[w] # Idle
    /\ scan[w].at \in {"load", "judge"}
    /\ fails < MaxFails
    /\ fails' = fails + 1
    /\ scan' = [scan EXCEPT ![w] = Idle]
    /\ \/ waiting' = [waiting EXCEPT ![scan[w].c] = @ + 1] /\ UNCHANGED dead
       \/ dead' = [dead EXCEPT ![scan[w].c] = @ + 1] /\ UNCHANGED waiting
    /\ UNCHANGED <<texts, content, queue, seen, cleared, crashes, again>>

\* The worker dies: the job is claimed again, even when the verdict is in.
Crash(w) ==
    /\ scan[w] # Idle
    /\ crashes < MaxCrashes
    /\ crashes' = crashes + 1
    /\ waiting' = [waiting EXCEPT ![scan[w].c] = @ + 1]
    /\ scan' = [scan EXCEPT ![w] = Idle]
    /\ again' = IF scan[w].at = "done" THEN again \cup {scan[w].c} ELSE again
    /\ UNCHANGED <<texts, content, queue, dead, seen, cleared, fails>>

\* requeueDeadLetter
Requeue(c) ==
    /\ dead[c] > 0
    /\ dead' = [dead EXCEPT ![c] = @ - 1]
    /\ waiting' = [waiting EXCEPT ![c] = @ + 1]
    /\ UNCHANGED <<texts, content, queue, scan, seen, cleared, fails, crashes, again>>

-----------------------------------------------------------------------------
(* Moderators                                                              *)

\* listQueue shows an open entry with an excerpt of the text as it is now.
ListQueue(m, c) ==
    /\ seen[m] = Idle
    /\ queue[c].open
    /\ seen' = [seen EXCEPT ![m] = [c |-> c, item |-> queue[c].items,
                                    version |-> content[c].version]]
    /\ UNCHANGED <<texts, content, queue, waiting, dead, scan, cleared, fails, crashes, again>>

\* decide refuses an item that somebody resolved before (409).
StillOpen(m) == queue[seen[m].c].open /\ queue[seen[m].c].items = seen[m].item

\* Mutant: the entry is left open.
DecideUnresolved(m, verdict) ==
    LET c == seen[m].c IN
    /\ seen[m] # Idle
    /\ StillOpen(m)
    /\ SetStatus(c, verdict)
    /\ cleared' = [cleared EXCEPT ![c] = IF verdict = "approved"
                                         THEN @ \cup {seen[m].version} ELSE @]
    /\ seen' = [seen EXCEPT ![m] = Idle]
    /\ UNCHANGED <<texts, queue, waiting, dead, scan, fails, crashes, again>>

\* decide: the verdict, and the entry resolved, in one transaction.
Decide(m, verdict) ==
    LET c == seen[m].c IN
    /\ seen[m] # Idle
    /\ StillOpen(m)
    /\ SetStatus(c, verdict)
    /\ queue' = [queue EXCEPT ![c].open = FALSE]
    /\ cleared' = [cleared EXCEPT ![c] = IF verdict = "approved"
                                         THEN @ \cup {seen[m].version} ELSE @]
    /\ seen' = [seen EXCEPT ![m] = Idle]
    /\ UNCHANGED <<texts, waiting, dead, scan, fails, crashes, again>>

DecideRefused(m) ==
    /\ seen[m] # Idle
    /\ ~StillOpen(m)
    /\ seen' = [seen EXCEPT ![m] = Idle]
    /\ UNCHANGED <<texts, content, queue, waiting, dead, scan, cleared, fails, crashes, again>>

-----------------------------------------------------------------------------
(* Readers                                                                 *)

\* The host's public profile and its rating count approved reviews only.
PublicReview(c) == form[c] = "review" /\ content[c].status = "approved"

\* A thread delivers a message before its scan and hides a rejected one.
InThread(c) ==
    /\ form[c] = "message"
    /\ ThreadOpen
    /\ content[c].status \in {"pending", "approved"}

-----------------------------------------------------------------------------
\* What a worker does by itself.
Scan(w) ==
    \/ \E c \in Contents : Claim(w, c)
    \/ LoadContent(w)
    \/ ScanRejects(w) \/ ScanApproves(w) \/ ScanEscalates(w)
    \/ Deliver(w)

Next ==
    \/ \E c \in Contents :
          \/ CreateListing(c) \/ MaterialEdit(c) \/ Requeue(c)
          \/ FindBooking(c) \/ CreateReview(c) \/ PostMessage(c)
    \/ \E s \in {"completed", "cancelled"} : BookingEnds(s)
    \/ \E w \in Workers : Scan(w) \/ ScanFails(w) \/ Crash(w)
    \/ \E m \in Moderators :
          \/ \E c \in Contents : ListQueue(m, c)
          \/ \E v \in {"approved", "rejected"} : Decide(m, v)
          \/ DecideRefused(m)

Spec == Init /\ [][Next]_vars

(* The polling loop never dies; nothing makes a moderator act.             *)
FairSpec == Spec /\ \A w \in Workers : WF_vars(Scan(w))

-----------------------------------------------------------------------------
(* Properties                                                              *)

\* The tables and the actors have their types.
TypeOK ==
    /\ booking \in {"live", "completed", "cancelled"}
    /\ found \in SUBSET (Contents \ Editable)
    /\ content \in [Contents -> ContentRow]
    /\ queue \in [Contents -> QueueRow]
    /\ waiting \in [Contents -> Nat]
    /\ dead \in [Contents -> Nat]
    /\ scan \in [Workers -> ScanRow \cup {Idle}]
    /\ seen \in [Moderators -> SeenRow \cup {Idle}]
    /\ cleared \in [Contents -> SUBSET Nat]
    /\ again \in SUBSET Contents
    /\ fails \in Nat /\ crashes \in Nat

BeingScanned(c) == \E w \in Workers : /\ scan[w] # Idle
                                      /\ scan[w].c = c
                                      /\ scan[w].at \in {"load", "judge"}

\* FR-08: pending content is never forgotten: a scan is waiting, running or
\* dead-lettered, or a moderator has an open item for it.
NeverForgotten ==
    \A c \in Contents :
        content[c].status = "pending"
          => waiting[c] > 0 \/ dead[c] > 0 \/ BeingScanned(c) \/ queue[c].open

\* FR-05, FR-08, ADR-002: what other users read of a review or message, which
\* cannot be edited, was approved as it stands, and a review is about a meal that
\* took place, although the booking is read without a lock before the insert.
PublishedIsSound ==
    \A c \in Contents \ Editable :
        content[c].status = "approved" =>
            /\ content[c].version \in cleared[c]
            /\ form[c] = "review" => booking = "completed"

\* AB-04: what was rejected is not shown again, whichever scan or moderator is
\* still at work on it and whatever failed or died, unless the worker that died had
\* just handled its scan and the COMMIT of the poll was lost: then the job runs again,
\* and may approve what a moderator rejected from the entry of its first run.
RejectedStaysHidden ==
    [][\A c \in Contents \ Editable :
          content[c].status = "rejected" /\ c \notin again
            => ~(PublicReview(c) \/ InThread(c))']_vars

\* NFR-09: a provider that recovers lets every pending content reach a
\* decision, a moderator or the dead letters.
PendingIsHandled ==
    \A c \in Contents :
        content[c].status = "pending"
          ~> (content[c].status # "pending" \/ queue[c].open \/ dead[c] > 0)
=============================================================================
