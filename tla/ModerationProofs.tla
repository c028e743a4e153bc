-------------------------- MODULE ModerationProofs --------------------------
(***************************************************************************)
(* Proofs about Moderation, for any number of contents, workers and        *)
(* moderators.                                                             *)
(*                                                                         *)
(* NeverForgotten is inductive with the types.  What is published is sound *)
(* because a review or message is written once, about a booking that is    *)
(* already in its last state, and everybody who is still at work on it     *)
(* looks at that one text (WrittenOnce).  A rejected one stays hidden      *)
(* because one thing only is at work on it, its scan job or its queue      *)
(* entry, until the decision and never after it (OneDecider), unless a     *)
(* worker dies between handling the scan and the COMMIT of its poll.       *)
(***************************************************************************)
EXTENDS Moderation, TLAPS

\* Forms are given once and for all; only listings are ever edited.
Forms ==
    /\ form \in [Contents -> {"listing", "review", "message"}]
    /\ \A c \in Contents : form[c] = "listing" <=> c \in Editable

\* A review or message that exists is at its first version, was written
\* after its booking was found, and is all that scans and moderators see.
WrittenOnce ==
    /\ \A c \in found : form[c] = "review" => booking = "completed"
    /\ \A c \in Contents : queue[c].open => content[c].status # "none"
    /\ \A w \in Workers : Judging(w) => content[scan[w].c].status # "none"
    /\ \A c \in Contents \ Editable :
          /\ content[c].status # "none" => c \in found
          /\ content[c].status = "approved" => content[c].version \in cleared[c]
          /\ \A w \in Workers : Judging(w) /\ scan[w].c = c
                => scan[w].version = content[c].version
          /\ \A m \in Moderators : seen[m] # Idle /\ seen[m].c = c
                => seen[m].version = content[c].version /\ content[c].status # "none"

\* Worker w has content c before its verdict takes effect.
Scanning(w, c) == scan[w] # Idle /\ scan[w].c = c /\ scan[w].at \in {"load", "judge"}

\* At most one scan job, run by at most one worker; none while the queue
\* entry is open, and neither unless the content is pending.
OneAtWork(c) ==
    /\ waiting[c] + dead[c] <= 1
    /\ \A w \in Workers : Scanning(w, c) =>
          /\ waiting[c] = 0 /\ dead[c] = 0
          /\ ~queue[c].open
          /\ content[c].status = "pending"
          /\ \A v \in Workers : Scanning(v, c) => v = w
    /\ queue[c].open => content[c].status = "pending"
    /\ queue[c].open \/ content[c].status # "pending" => waiting[c] = 0 /\ dead[c] = 0

\* True of every review and message whose scan is not run again after it was handled.
OneDecider == \A c \in Contents \ Editable : c \notin again => OneAtWork(c)

\* The inductive invariant.
MInv == TypeOK /\ Forms /\ NeverForgotten /\ WrittenOnce /\ OneDecider

-----------------------------------------------------------------------------
(* Rows                                                                    *)

\* A busy worker has a scan of an existing content.
LEMMA ScanRows ==
    ASSUME TypeOK, NEW w \in Workers, scan[w] # Idle
    PROVE  /\ scan[w] \in ScanRow
           /\ scan[w].c \in Contents
           /\ scan[w].version \in Nat
           /\ scan[w].at \in {"load", "judge", "done"}
BY DEF TypeOK, ScanRow

\* A busy moderator has an entry about an existing content.
LEMMA SeenRows ==
    ASSUME TypeOK, NEW m \in Moderators, seen[m] # Idle
    PROVE  /\ seen[m].c \in Contents
           /\ seen[m].version \in Nat
BY DEF TypeOK, SeenRow

\* A scan that ends is still a scan of the same content.
LEMMA ScanEnds ==
    ASSUME TypeOK, NEW w \in Workers, scan[w] # Idle
    PROVE  \E r \in ScanRow :
              /\ [scan EXCEPT ![w].at = "done"] = [scan EXCEPT ![w] = r]
              /\ r.at = "done" /\ r.c = scan[w].c
<1>1. scan[w] \in ScanRow
  BY ScanRows
<1>2. [scan[w] EXCEPT !.at = "done"] \in ScanRow
  BY <1>1 DEF ScanRow
<1>. QED
  BY <1>1, <1>2 DEF ScanRow

\* setModerationStatus keeps the text.
LEMMA StatusSet ==
    ASSUME TypeOK, NEW c \in Contents, NEW s \in {"approved", "rejected"}, SetStatus(c, s)
    PROVE  \E k \in ContentRow :
              /\ content' = [content EXCEPT ![c] = k]
              /\ k.version = content[c].version /\ k.status = s
<1>1. content[c] \in ContentRow
  BY DEF TypeOK
<1>2. [content[c] EXCEPT !.status = s] \in ContentRow
  BY <1>1 DEF ContentRow
<1>. QED
  BY <1>1, <1>2 DEF ContentRow, SetStatus

-----------------------------------------------------------------------------
(* One lemma per action                                                    *)

\* A new content is pending with one scan job; nothing was at work on it.
LEMMA Created ==
    ASSUME MInv, NEW c \in Contents, CreateListing(c) \/ CreateReview(c) \/ PostMessage(c)
    PROVE  MInv'
<1>1. /\ content[c].status = "none"
      /\ Written(c) /\ UNCHANGED texts
      /\ form[c] = "listing" \/ c \in found
  BY DEF CreateListing, CreateReview, PostMessage
<1>2. PICK k \in ContentRow : content' = [content EXCEPT ![c] = k] /\ k.status = "pending"
  <2>1. content[c] \in ContentRow
    BY DEF MInv, TypeOK
  <2>2. [version |-> content[c].version + 1, status |-> "pending"] \in ContentRow
    BY <2>1 DEF ContentRow
  <2>. QED
    BY <1>1, <2>2 DEF MInv, TypeOK, Written
<1>3. /\ waiting' = [waiting EXCEPT ![c] = @ + 1]
      /\ UNCHANGED <<queue, dead, scan, seen, cleared, fails, crashes, again>>
  BY <1>1 DEF Written
<1>. USE <1>1, <1>2, <1>3 DEF texts
<1>4. TypeOK'
  BY DEF MInv, TypeOK
<1>5. Forms'
  BY DEF MInv, Forms
<1>6. NeverForgotten'
  BY DEF MInv, NeverForgotten, TypeOK, BeingScanned
<1>7. WrittenOnce'
  BY DEF MInv, WrittenOnce, TypeOK, Forms, Judging
<1>8. OneDecider'
  <2>. SUFFICES ASSUME NEW x \in Contents \ Editable, x \notin again' PROVE OneAtWork(x)'
    BY DEF OneDecider
  <2>1. OneAtWork(x)
    BY DEF MInv, OneDecider
  <2>2. CASE x = c
    <3>1. /\ ~queue[c].open /\ waiting[c] = 0 /\ dead[c] = 0
          /\ \A v \in Workers : ~Scanning(v, c)
      BY <2>1, <2>2 DEF OneAtWork
    <3>2. \A v \in Workers : ~Scanning(v, c)'
      BY <3>1 DEF Scanning
    <3>. QED
      BY <2>2, <3>1, <3>2 DEF MInv, TypeOK, OneAtWork
  <2>3. CASE x # c
    BY <2>1, <2>3 DEF MInv, TypeOK, OneAtWork, Scanning
  <2>. QED
    BY <2>2, <2>3
<1>. QED
  BY <1>4, <1>5, <1>6, <1>7, <1>8 DEF MInv

\* A booking that makes a review possible is completed, for good.
LEMMA BookingFound ==
    ASSUME MInv, NEW c \in Contents, FindBooking(c)
    PROVE  MInv'
<1>. USE IdleAssumption DEF MInv, FindBooking, Reviewable, ThreadOpen, texts
<1>1. TypeOK'
  BY DEF TypeOK, ContentRow, QueueRow, ScanRow, SeenRow, Forms
<1>2. Forms'
  BY DEF Forms
<1>3. NeverForgotten'
  BY DEF TypeOK, NeverForgotten, BeingScanned, ContentRow, QueueRow, ScanRow, SeenRow
<1>4. WrittenOnce'
  BY DEF TypeOK, Forms, WrittenOnce, Judging, ContentRow, QueueRow, ScanRow, SeenRow
<1>5. OneDecider'
  BY DEF TypeOK, Forms, OneDecider, OneAtWork, Scanning, ContentRow, QueueRow, ScanRow, SeenRow
<1>. QED
  BY <1>1, <1>2, <1>3, <1>4, <1>5

\* The booking ends once; no review was found to be about it before.
LEMMA BookingEnded ==
    ASSUME MInv, NEW s \in {"completed", "cancelled"}, BookingEnds(s)
    PROVE  MInv'
<1>. USE IdleAssumption DEF MInv, BookingEnds, texts
<1>1. TypeOK'
  BY DEF TypeOK, ContentRow, QueueRow, ScanRow, SeenRow, Forms
<1>2. Forms'
  BY DEF Forms
<1>3. NeverForgotten'
  BY DEF TypeOK, NeverForgotten, BeingScanned, ContentRow, QueueRow, ScanRow, SeenRow
<1>4. WrittenOnce'
  BY DEF TypeOK, Forms, WrittenOnce, Judging, ContentRow, QueueRow, ScanRow, SeenRow
<1>5. OneDecider'
  BY DEF TypeOK, Forms, OneDecider, OneAtWork, Scanning, ContentRow, QueueRow, ScanRow, SeenRow
<1>. QED
  BY <1>1, <1>2, <1>3, <1>4, <1>5

\* Only a listing is edited, and a new scan job comes with the edit.
LEMMA Edited ==
    ASSUME MInv, NEW c \in Contents, MaterialEdit(c)
    PROVE  MInv'
<1>. USE IdleAssumption DEF MInv, MaterialEdit, Written, texts
<1>1. TypeOK'
  BY DEF TypeOK, ContentRow, QueueRow, ScanRow, SeenRow, Forms
<1>2. Forms'
  BY DEF Forms
<1>3. NeverForgotten'
  BY DEF TypeOK, NeverForgotten, BeingScanned, ContentRow, QueueRow, ScanRow, SeenRow
<1>4. WrittenOnce'
  BY DEF TypeOK, Forms, WrittenOnce, Judging, ContentRow, QueueRow, ScanRow, SeenRow
<1>5. OneDecider'
  BY DEF TypeOK, Forms, OneDecider, OneAtWork, Scanning, ContentRow, QueueRow, ScanRow, SeenRow
<1>. QED
  BY <1>1, <1>2, <1>3, <1>4, <1>5

\* A claimed job goes on as the scan of its worker.
LEMMA Claimed ==
    ASSUME MInv, NEW w \in Workers, NEW c \in Contents, Claim(w, c)
    PROVE  MInv'
<1>. DEFINE r == [at |-> "load", c |-> c, version |-> 0]
<1>1. /\ scan[w] = Idle /\ waiting[c] > 0
      /\ waiting' = [waiting EXCEPT ![c] = @ - 1]
      /\ scan' = [scan EXCEPT ![w] = r]
      /\ UNCHANGED <<texts, content, queue, dead, seen, cleared, fails, crashes, again>>
  BY DEF Claim
<1>2. r \in ScanRow /\ r.at = "load" /\ r.c = c
  BY DEF ScanRow
<1>. HIDE DEF r
<1>. USE IdleAssumption, <1>1, <1>2 DEF texts
<1>3. TypeOK'
  BY DEF MInv, TypeOK
<1>4. Forms'
  BY DEF MInv, Forms
<1>5. NeverForgotten'
  BY DEF MInv, NeverForgotten, TypeOK, BeingScanned
<1>6. WrittenOnce'
  BY DEF MInv, WrittenOnce, TypeOK, Forms, Judging
<1>7. OneDecider'
  <2>. SUFFICES ASSUME NEW x \in Contents \ Editable, x \notin again' PROVE OneAtWork(x)'
    BY DEF OneDecider
  <2>1. OneAtWork(x)
    BY DEF MInv, OneDecider
  <2>2. CASE x = c
    <3>1. /\ content[c].status = "pending" /\ ~queue[c].open
          /\ waiting'[c] = 0 /\ dead[c] = 0
          /\ \A v \in Workers : ~Scanning(v, c)
      BY <2>1, <2>2 DEF MInv, TypeOK, OneAtWork
    <3>2. \A v \in Workers : Scanning(v, c)' => v = w
      BY <3>1 DEF MInv, TypeOK, Scanning
    <3>. QED
      BY <2>2, <3>1, <3>2 DEF OneAtWork
  <2>3. CASE x # c
    BY <2>1, <2>3 DEF MInv, TypeOK, OneAtWork, Scanning
  <2>. QED
    BY <2>2, <2>3
<1>. QED
  BY <1>3, <1>4, <1>5, <1>6, <1>7 DEF MInv

\* A pending content stays in the hands of the scan that loads it, with the
\* version it has.
LEMMA Loaded ==
    ASSUME MInv, NEW w \in Workers, LoadContent(w)
    PROVE  MInv'
<1>. DEFINE c == scan[w].c
            at == IF content[c].status = "pending" THEN "judge" ELSE "done"
<1>1. /\ scan[w] # Idle /\ scan[w].at = "load" /\ c \in Contents
      /\ scan[w] \in ScanRow
      /\ content[c].version \in Nat
  BY ScanRows DEF MInv, LoadContent, TypeOK, ContentRow
<1>2. PICK r \in ScanRow : /\ scan' = [scan EXCEPT ![w] = r]
                           /\ r.at = at /\ r.c = c /\ r.version = content[c].version
  <2>1. scan' = [scan EXCEPT ![w] = [scan[w] EXCEPT !.at = at, !.version = content[c].version]]
    BY <1>1 DEF MInv, LoadContent, TypeOK, ScanRow
  <2>2. [scan[w] EXCEPT !.at = at, !.version = content[c].version] \in ScanRow
    BY <1>1 DEF ScanRow
  <2>. QED
    BY <1>1, <2>1, <2>2 DEF ScanRow
<1>3. UNCHANGED <<texts, content, queue, waiting, dead, seen, cleared, fails, crashes, again>>
  BY DEF LoadContent
<1>. USE IdleAssumption, <1>1, <1>2, <1>3 DEF texts
<1>4. TypeOK'
  BY DEF MInv, TypeOK
<1>5. Forms'
  BY DEF MInv, Forms
<1>6. NeverForgotten'
  BY DEF MInv, NeverForgotten, TypeOK, BeingScanned
<1>7. WrittenOnce'
  BY DEF MInv, WrittenOnce, TypeOK, Forms, Judging
<1>8. OneDecider'
  BY DEF MInv, OneDecider, OneAtWork, TypeOK, Scanning
<1>. QED
  BY <1>4, <1>5, <1>6, <1>7, <1>8 DEF MInv

\* The verdict ends the only scan of a review or message.
LEMMA ScanRejected ==
    ASSUME MInv, NEW w \in Workers, ScanRejects(w)
    PROVE  MInv'
<1>. DEFINE c == scan[w].c
<1>1. /\ scan[w] # Idle /\ scan[w].at = "judge" /\ c \in Contents
      /\ scan[w].version \in Nat
  BY ScanRows DEF MInv, ScanRejects, Judging
<1>2. PICK r \in ScanRow : /\ scan' = [scan EXCEPT ![w] = r]
                           /\ r.at = "done" /\ r.c = c
  BY <1>1, ScanEnds DEF MInv, ScanRejects
<1>3. PICK k \in ContentRow : /\ content' = [content EXCEPT ![c] = k]
                              /\ k.version = content[c].version /\ k.status = "rejected"
  BY <1>1, StatusSet DEF MInv, ScanRejects
<1>4. /\ UNCHANGED <<texts, queue, waiting, dead, seen, fails, crashes, again>>
      /\ cleared' = cleared
  BY DEF ScanRejects
<1>. USE IdleAssumption, <1>1, <1>2, <1>3, <1>4 DEF texts
<1>5. TypeOK'
  BY DEF MInv, TypeOK
<1>6. Forms'
  BY DEF MInv, Forms
<1>7. NeverForgotten'
  BY DEF MInv, NeverForgotten, TypeOK, BeingScanned
<1>8. WrittenOnce'
  BY DEF MInv, WrittenOnce, TypeOK, Forms, Judging
<1>9. OneDecider'
  <2>. SUFFICES ASSUME NEW x \in Contents \ Editable, x \notin again' PROVE OneAtWork(x)'
    BY DEF OneDecider
  <2>1. OneAtWork(x)
    BY DEF MInv, OneDecider
  <2>2. \A v \in Workers : Scanning(v, x)' => v # w /\ Scanning(v, x)
    BY <2>1 DEF MInv, TypeOK, OneAtWork, Scanning
  <2>3. CASE x = c
    <3>1. \A v \in Workers : ~Scanning(v, x)'
      BY <2>1, <2>2, <2>3 DEF OneAtWork, Scanning
    <3>2. waiting[x] = 0 /\ dead[x] = 0 /\ ~queue[x].open
      BY <2>1, <2>3 DEF OneAtWork, Scanning
    <3>. QED
      BY <3>1, <3>2 DEF OneAtWork
  <2>4. CASE x # c
    <3>1. content'[x] = content[x]
      BY <2>4 DEF MInv, TypeOK
    <3>. QED
      BY <2>1, <2>2, <3>1 DEF OneAtWork
  <2>. QED
    BY <2>3, <2>4
<1>. QED
  BY <1>5, <1>6, <1>7, <1>8, <1>9 DEF MInv

\* The approved version is the one that was loaded, hence the only one.
LEMMA ScanApproved ==
    ASSUME MInv, NEW w \in Workers, ScanApproves(w)
    PROVE  MInv'
<1>. DEFINE c == scan[w].c
<1>1. /\ scan[w] # Idle /\ scan[w].at = "judge" /\ c \in Contents
      /\ scan[w].version \in Nat
  BY ScanRows DEF MInv, ScanApproves, Passed, Judging
<1>2. PICK r \in ScanRow : /\ scan' = [scan EXCEPT ![w] = r]
                           /\ r.at = "done" /\ r.c = c
  BY <1>1, ScanEnds DEF MInv, ScanApproves
<1>3. PICK k \in ContentRow : /\ content' = [content EXCEPT ![c] = k]
                              /\ k.version = content[c].version /\ k.status = "approved"
  BY <1>1, StatusSet DEF MInv, ScanApproves
<1>4. /\ UNCHANGED <<texts, queue, waiting, dead, seen, fails, crashes, again>>
      /\ cleared' = [cleared EXCEPT ![c] = @ \cup {scan[w].version}]
  BY DEF ScanApproves
<1>. USE IdleAssumption, <1>1, <1>2, <1>3, <1>4 DEF texts
<1>5. TypeOK'
  BY DEF MInv, TypeOK
<1>6. Forms'
  BY DEF MInv, Forms
<1>7. NeverForgotten'
  BY DEF MInv, NeverForgotten, TypeOK, BeingScanned
<1>8. WrittenOnce'
  BY DEF MInv, WrittenOnce, TypeOK, Forms, Judging
<1>9. OneDecider'
  <2>. SUFFICES ASSUME NEW x \in Contents \ Editable, x \notin again' PROVE OneAtWork(x)'
    BY DEF OneDecider
  <2>1. OneAtWork(x)
    BY DEF MInv, OneDecider
  <2>2. \A v \in Workers : Scanning(v, x)' => v # w /\ Scanning(v, x)
    BY <2>1 DEF MInv, TypeOK, OneAtWork, Scanning
  <2>3. CASE x = c
    <3>1. \A v \in Workers : ~Scanning(v, x)'
      BY <2>1, <2>2, <2>3 DEF OneAtWork, Scanning
    <3>2. waiting[x] = 0 /\ dead[x] = 0 /\ ~queue[x].open
      BY <2>1, <2>3 DEF OneAtWork, Scanning
    <3>. QED
      BY <3>1, <3>2 DEF OneAtWork
  <2>4. CASE x # c
    <3>1. content'[x] = content[x]
      BY <2>4 DEF MInv, TypeOK
    <3>. QED
      BY <2>1, <2>2, <3>1 DEF OneAtWork
  <2>. QED
    BY <2>3, <2>4
<1>. QED
  BY <1>5, <1>6, <1>7, <1>8, <1>9 DEF MInv

\* An open entry takes the place of the scan.
LEMMA ScanEscalated ==
    ASSUME MInv, NEW w \in Workers, ScanEscalates(w)
    PROVE  MInv'
<1>. DEFINE c == scan[w].c
<1>1. /\ scan[w] # Idle /\ scan[w].at = "judge" /\ c \in Contents
  BY ScanRows DEF MInv, ScanEscalates, Passed, Judging
<1>2. PICK r \in ScanRow : /\ scan' = [scan EXCEPT ![w] = r]
                           /\ r.at = "done" /\ r.c = c
  BY <1>1, ScanEnds DEF MInv, ScanEscalates
<1>3. PICK q \in QueueRow : queue' = [queue EXCEPT ![c] = q] /\ q.open
  <2>1. queue' = [queue EXCEPT ![c] = InsertQueueItem(queue[c])] /\ queue[c] \in QueueRow
    BY <1>1 DEF MInv, TypeOK, ScanEscalates
  <2>2. [items |-> queue[c].items + 1, open |-> TRUE] \in QueueRow
    BY <2>1 DEF QueueRow
  <2>. QED
    BY <2>1, <2>2 DEF InsertQueueItem
<1>4. UNCHANGED <<texts, content, waiting, dead, seen, cleared, fails, crashes, again>>
  BY DEF ScanEscalates
<1>. USE IdleAssumption, <1>1, <1>2, <1>3, <1>4 DEF texts
<1>5. TypeOK'
  BY DEF MInv, TypeOK
<1>6. Forms'
  BY DEF MInv, Forms
<1>7. NeverForgotten'
  BY DEF MInv, NeverForgotten, TypeOK, BeingScanned
<1>8. WrittenOnce'
  BY DEF MInv, WrittenOnce, TypeOK, Forms, Judging
<1>9. OneDecider'
  <2>. SUFFICES ASSUME NEW x \in Contents \ Editable, x \notin again' PROVE OneAtWork(x)'
    BY DEF OneDecider
  <2>1. OneAtWork(x)
    BY DEF MInv, OneDecider
  <2>2. CASE x = c
    <3>1. /\ content[c].status = "pending" /\ waiting[c] = 0 /\ dead[c] = 0
          /\ \A v \in Workers : Scanning(v, c) => v = w
      BY <2>1, <2>2 DEF OneAtWork, Scanning
    <3>2. \A v \in Workers : ~Scanning(v, c)'
      BY <3>1 DEF MInv, TypeOK, Scanning
    <3>. QED
      BY <2>2, <3>1, <3>2 DEF MInv, TypeOK, OneAtWork
  <2>3. CASE x # c
    BY <2>1, <2>3 DEF MInv, TypeOK, OneAtWork, Scanning
  <2>. QED
    BY <2>2, <2>3
<1>. QED
  BY <1>5, <1>6, <1>7, <1>8, <1>9 DEF MInv

\* A handled scan is no longer at work on anything.
LEMMA Delivered ==
    ASSUME MInv, NEW w \in Workers, Deliver(w)
    PROVE  MInv'
<1>. USE IdleAssumption DEF MInv, Deliver, texts
<1>1. TypeOK'
  BY DEF TypeOK, ContentRow, QueueRow, ScanRow, SeenRow, Forms
<1>2. Forms'
  BY DEF Forms
<1>3. NeverForgotten'
  BY DEF TypeOK, NeverForgotten, BeingScanned, ContentRow, QueueRow, ScanRow, SeenRow
<1>4. WrittenOnce'
  BY DEF TypeOK, Forms, WrittenOnce, Judging, ContentRow, QueueRow, ScanRow, SeenRow
<1>5. OneDecider'
  BY DEF TypeOK, Forms, OneDecider, OneAtWork, Scanning, ContentRow, QueueRow, ScanRow, SeenRow
<1>. QED
  BY <1>1, <1>2, <1>3, <1>4, <1>5

\* The content of a failed scan waits again or is dead-lettered.
LEMMA ScanFailed ==
    ASSUME MInv, NEW w \in Workers, ScanFails(w)
    PROVE  MInv'
<1>. DEFINE c == scan[w].c
<1>1. /\ scan[w] # Idle /\ scan[w].at \in {"load", "judge"} /\ c \in Contents
      /\ Scanning(w, c)
  BY ScanRows DEF MInv, ScanFails, Scanning
<1>2. /\ scan' = [scan EXCEPT ![w] = Idle]
      /\ fails' = fails + 1
      /\ UNCHANGED <<texts, content, queue, seen, cleared, crashes, again>>
      /\ \/ waiting' = [waiting EXCEPT ![c] = @ + 1] /\ dead' = dead
         \/ dead' = [dead EXCEPT ![c] = @ + 1] /\ waiting' = waiting
  BY DEF ScanFails
<1>. USE IdleAssumption, <1>1, <1>2 DEF texts
<1>3. TypeOK'
  BY DEF MInv, TypeOK
<1>4. Forms'
  BY DEF MInv, Forms
<1>5. NeverForgotten'
  BY DEF MInv, NeverForgotten, TypeOK, BeingScanned
<1>6. WrittenOnce'
  BY DEF MInv, WrittenOnce, TypeOK, Forms, Judging
<1>7. OneDecider'
  BY DEF MInv, OneDecider, OneAtWork, TypeOK, Scanning
<1>. QED
  BY <1>3, <1>4, <1>5, <1>6, <1>7 DEF MInv

\* The job of a dead worker waits again.
LEMMA Crashed ==
    ASSUME MInv, NEW w \in Workers, Crash(w)
    PROVE  MInv'
<1>. USE IdleAssumption DEF MInv, Crash, texts
<1>1. TypeOK'
  BY DEF TypeOK, ContentRow, QueueRow, ScanRow, SeenRow, Forms
<1>2. Forms'
  BY DEF Forms
<1>3. NeverForgotten'
  BY DEF TypeOK, NeverForgotten, BeingScanned, ContentRow, QueueRow, ScanRow, SeenRow
<1>4. WrittenOnce'
  BY DEF TypeOK, Forms, WrittenOnce, Judging, ContentRow, QueueRow, ScanRow, SeenRow
<1>5. OneDecider'
  BY DEF TypeOK, Forms, OneDecider, OneAtWork, Scanning, ContentRow, QueueRow, ScanRow, SeenRow
<1>. QED
  BY <1>1, <1>2, <1>3, <1>4, <1>5

\* A dead job that is requeued waits.
LEMMA Requeued ==
    ASSUME MInv, NEW c \in Contents, Requeue(c)
    PROVE  MInv'
<1>. USE IdleAssumption DEF MInv, Requeue, texts
<1>1. TypeOK'
  BY DEF TypeOK, ContentRow, QueueRow, ScanRow, SeenRow, Forms
<1>2. Forms'
  BY DEF Forms
<1>3. NeverForgotten'
  BY DEF TypeOK, NeverForgotten, BeingScanned, ContentRow, QueueRow, ScanRow, SeenRow
<1>4. WrittenOnce'
  BY DEF TypeOK, Forms, WrittenOnce, Judging, ContentRow, QueueRow, ScanRow, SeenRow
<1>5. OneDecider'
  BY DEF TypeOK, Forms, OneDecider, OneAtWork, Scanning, ContentRow, QueueRow, ScanRow, SeenRow
<1>. QED
  BY <1>1, <1>2, <1>3, <1>4, <1>5

\* A moderator looks at an open entry and at the text as it is.
LEMMA Listed ==
    ASSUME MInv, NEW m \in Moderators, NEW c \in Contents, ListQueue(m, c)
    PROVE  MInv'
<1>. USE IdleAssumption DEF MInv, ListQueue, texts
<1>1. TypeOK'
  BY DEF TypeOK, ContentRow, QueueRow, ScanRow, SeenRow, Forms
<1>2. Forms'
  BY DEF Forms
<1>3. NeverForgotten'
  BY DEF TypeOK, NeverForgotten, BeingScanned, ContentRow, QueueRow, ScanRow, SeenRow
<1>4. WrittenOnce'
  BY DEF TypeOK, Forms, WrittenOnce, Judging, ContentRow, QueueRow, ScanRow, SeenRow
<1>5. OneDecider'
  BY DEF TypeOK, Forms, OneDecider, OneAtWork, Scanning, ContentRow, QueueRow, ScanRow, SeenRow
<1>. QED
  BY <1>1, <1>2, <1>3, <1>4, <1>5

\* The decision and the end of the entry are one step.
LEMMA Decided ==
    ASSUME MInv, NEW m \in Moderators, NEW v \in {"approved", "rejected"}, Decide(m, v)
    PROVE  MInv'
<1>. DEFINE c == seen[m].c
<1>1. /\ seen[m] # Idle /\ c \in Contents /\ queue[c].open /\ seen[m].version \in Nat
  BY SeenRows DEF MInv, Decide, StillOpen
<1>2. PICK k \in ContentRow : /\ content' = [content EXCEPT ![c] = k]
                              /\ k.version = content[c].version /\ k.status = v
  BY <1>1, StatusSet DEF MInv, Decide
<1>3. PICK q \in QueueRow : queue' = [queue EXCEPT ![c] = q] /\ ~q.open
  <2>1. queue[c] \in QueueRow /\ queue' = [queue EXCEPT ![c] = [queue[c] EXCEPT !.open = FALSE]]
    BY <1>1 DEF MInv, TypeOK, Decide
  <2>2. [queue[c] EXCEPT !.open = FALSE] \in QueueRow
    BY <2>1 DEF QueueRow
  <2>. QED
    BY <2>1, <2>2 DEF QueueRow
<1>4. /\ UNCHANGED <<texts, waiting, dead, scan, fails, crashes, again>>
      /\ seen' = [seen EXCEPT ![m] = Idle]
      /\ cleared' = [cleared EXCEPT ![c] = IF v = "approved"
                                           THEN @ \cup {seen[m].version} ELSE @]
  BY DEF Decide
<1>. USE IdleAssumption, <1>1, <1>2, <1>3, <1>4 DEF texts
<1>5. TypeOK'
  BY DEF MInv, TypeOK
<1>6. Forms'
  BY DEF MInv, Forms
<1>7. NeverForgotten'
  BY DEF MInv, NeverForgotten, TypeOK, BeingScanned
<1>8. WrittenOnce'
  BY DEF MInv, WrittenOnce, TypeOK, Forms, Judging
<1>9. OneDecider'
  <2>. SUFFICES ASSUME NEW x \in Contents \ Editable, x \notin again' PROVE OneAtWork(x)'
    BY DEF OneDecider
  <2>1. OneAtWork(x)
    BY DEF MInv, OneDecider
  <2>2. CASE x = c
    <3>1. /\ waiting[x] = 0 /\ dead[x] = 0
          /\ \A w \in Workers : ~Scanning(w, x)
      BY <2>1, <2>2 DEF OneAtWork
    <3>2. \A w \in Workers : ~Scanning(w, x)'
      BY <3>1 DEF Scanning
    <3>. QED
      BY <2>2, <3>1, <3>2 DEF MInv, TypeOK, OneAtWork
  <2>3. CASE x # c
    BY <2>1, <2>3 DEF MInv, TypeOK, OneAtWork, Scanning
  <2>. QED
    BY <2>2, <2>3
<1>. QED
  BY <1>5, <1>6, <1>7, <1>8, <1>9 DEF MInv

\* A refused decision changes no content.
LEMMA Refused ==
    ASSUME MInv, NEW m \in Moderators, DecideRefused(m)
    PROVE  MInv'
<1>. USE IdleAssumption DEF MInv, DecideRefused, texts
<1>1. TypeOK'
  BY DEF TypeOK, ContentRow, QueueRow, ScanRow, SeenRow, Forms
<1>2. Forms'
  BY DEF Forms
<1>3. NeverForgotten'
  BY DEF TypeOK, NeverForgotten, BeingScanned, ContentRow, QueueRow, ScanRow, SeenRow
<1>4. WrittenOnce'
  BY DEF TypeOK, Forms, WrittenOnce, Judging, ContentRow, QueueRow, ScanRow, SeenRow
<1>5. OneDecider'
  BY DEF TypeOK, Forms, OneDecider, OneAtWork, Scanning, ContentRow, QueueRow, ScanRow, SeenRow
<1>. QED
  BY <1>1, <1>2, <1>3, <1>4, <1>5

-----------------------------------------------------------------------------
(* The invariant and the theorems                                          *)

\* Nothing is written at first.
LEMMA InitiallySound == Init => MInv
BY IdleAssumption, SMT DEF Init, MInv, TypeOK, ContentRow, QueueRow, Forms, NeverForgotten, WrittenOnce,
   Judging, OneDecider, OneAtWork, Scanning

\* Every step keeps the invariant.
LEMMA NextKeeps == MInv /\ [Next]_vars => MInv'
<1>. SUFFICES ASSUME MInv, [Next]_vars PROVE MInv'
  OBVIOUS
<1>1. CASE UNCHANGED vars
  BY <1>1 DEF vars, texts, MInv, TypeOK, Forms, NeverForgotten, BeingScanned, WrittenOnce,
     Judging, OneDecider, OneAtWork, Scanning
<1>2. ASSUME NEW w \in Workers, Scan(w) PROVE MInv'
  BY <1>2, Claimed, Loaded, ScanRejected, ScanApproved, ScanEscalated, Delivered DEF Scan
<1>. QED
  BY <1>1, <1>2, Created, BookingFound, BookingEnded, Edited, ScanFailed, Crashed, Requeued,
     Listed, Decided, Refused DEF Next

\* The tables and the actors always have their types, and what the
\* strengthenings say always holds.
THEOREM ModerationInvariance == Spec => []MInv
<1>. QED
  BY InitiallySound, NextKeeps, PTL DEF Spec

\* FR-08: no pending content is ever out of everybody's sight, whatever
\* fails, dies, is edited or decided meanwhile.
THEOREM PendingIsNeverForgotten == Spec => []NeverForgotten
<1>1. MInv => NeverForgotten
  BY DEF MInv
<1>. QED
  BY <1>1, ModerationInvariance, PTL

\* FR-05, FR-08: an approved review or message was cleared in the version
\* that is shown, and a review is about a meal that took place.
THEOREM PublishedAsCleared == Spec => []PublishedIsSound
<1>1. MInv => PublishedIsSound
  <2>. SUFFICES ASSUME MInv, NEW c \in Contents \ Editable, content[c].status = "approved"
                PROVE  /\ content[c].version \in cleared[c]
                       /\ form[c] = "review" => booking = "completed"
    BY DEF PublishedIsSound
  <2>. QED
    BY DEF MInv, WrittenOnce
<1>. QED
  BY <1>1, ModerationInvariance, PTL

\* AB-04: whatever fails or dies, what was rejected is not shown again, unless the worker
\* that handled its scan died before the COMMIT of the poll.
THEOREM RejectionIsFinal == Spec => RejectedStaysHidden
<1>1. ASSUME MInv, [Next]_vars, NEW c \in Contents \ Editable,
             content[c].status = "rejected", c \notin again
      PROVE  ~(PublicReview(c) \/ InThread(c))'
  <2>1. /\ content[c] \in ContentRow
        /\ ~queue[c].open /\ \A w \in Workers : ~Scanning(w, c)
    BY <1>1 DEF MInv, TypeOK, OneDecider, OneAtWork
  <2>2. content'[c] = content[c]
    <3>1. CASE \E d \in Contents : CreateListing(d) \/ CreateReview(d) \/ PostMessage(d)
      BY <1>1, <3>1 DEF MInv, TypeOK, CreateListing, CreateReview, PostMessage, Written
    <3>2. CASE \E d \in Contents : MaterialEdit(d)
      BY <1>1, <3>2 DEF MInv, TypeOK, MaterialEdit, Written
    <3>3. CASE \E w \in Workers : ScanRejects(w) \/ ScanApproves(w)
      BY <1>1, <2>1, <3>3 DEF MInv, TypeOK, ScanRejects, ScanApproves, Passed, Judging,
         SetStatus, Scanning
    <3>4. CASE \E m \in Moderators, v \in {"approved", "rejected"} : Decide(m, v)
      BY <1>1, <2>1, <3>4 DEF MInv, TypeOK, Decide, StillOpen, SetStatus
    <3>5. CASE UNCHANGED content
      BY <3>5
    <3>. QED
      BY <1>1, <3>1, <3>2, <3>3, <3>4, <3>5 DEF Next, vars, Scan, FindBooking, BookingEnds,
         Claim, LoadContent, ScanEscalates, Deliver, ScanFails, Crash, Requeue, ListQueue,
         DecideRefused
  <2>. QED
    BY <1>1, <2>2 DEF PublicReview, InThread
<1>2. MInv /\ [Next]_vars => \A c \in Contents \ Editable :
          content[c].status = "rejected" /\ c \notin again
            => ~(PublicReview(c) \/ InThread(c))'
  BY <1>1
<1>. QED
  BY <1>2, ModerationInvariance, PTL DEF Spec, RejectedStaysHidden
=============================================================================
