----------------------------- MODULE SafetyAlert -----------------------------
(***************************************************************************)
(* Safety alerts (modules/safety) and their outbox handler: one alert is   *)
(* raised, filed in the moderators' queue, announced to the moderators and *)
(* sent to the raiser's emergency contact.  The handler's legs are sends   *)
(* of module Notifications.                                                *)
(***************************************************************************)
EXTENDS Notifications

VARIABLES alert,    \* safety_alerts.delivery_status
          raiser,   \* raised_by is not NULL and its account is live
          contact,  \* the raiser's stored emergency-contact address
          queue     \* the alert's moderation_queue entry: none, open or resolved

avars == <<alert, raiser, contact, queue>>
vars == <<nvars, avars>>

Init ==
    /\ NotificationsInit
    /\ alert = "absent"
    /\ raiser = TRUE
    /\ contact \in {"none", "set", "garbled"}
    /\ kind # "alert" => contact = "none"
    /\ queue = "none"

-----------------------------------------------------------------------------
(* The requests                                                            *)

Callers == {"guest", "host", "moderator", "stranger"}

\* persistAlertWithJob: the alert and its job in one transaction.
PersistAlertWithJob ==
    /\ alert' = "pending"
    /\ job' = [status |-> "pending", attempts |-> 0]
    /\ UNCHANGED <<kind, owner, run, row, reachable, accepted, edits, faults, lost, denied, raiser, contact, queue>>

\* Either participant, in any state of the booking.
RaiseAlert(caller) ==
    /\ kind = "alert"
    /\ alert = "absent"
    /\ caller \in {"guest", "host"}
    /\ PersistAlertWithJob

EscalateAlert(caller) ==
    /\ kind = "alert"
    /\ alert = "absent"
    /\ caller = "moderator"
    /\ PersistAlertWithJob

NothingElse == UNCHANGED <<kind, job, owner, run, row, reachable, accepted, faults, lost, denied>>

\* PATCH /api/users/me sets the emergency contact or clears it.
UpdateContact ==
    /\ kind = "alert"
    /\ raiser
    /\ Edit
    /\ contact' = IF contact = "none" THEN "set" ELSE "none"
    /\ UNCHANGED <<alert, raiser, queue>>
    /\ NothingElse

\* The raiser's account is erased: raised_by NULL, no contact.
RaiserErased ==
    /\ kind = "alert"
    /\ raiser
    /\ Edit
    /\ raiser' = FALSE
    /\ contact' = "none"
    /\ UNCHANGED <<alert, queue>>
    /\ NothingElse

\* A moderator resolves the entry, whatever became of the delivery.
ModeratorResolves ==
    /\ queue = "open"
    /\ Edit
    /\ queue' = "resolved"
    /\ UNCHANGED <<alert, raiser, contact>>
    /\ NothingElse

-----------------------------------------------------------------------------
(* The handler                                                             *)

\* The statements of this handler that touch neither the transport's rows
\* nor the job.
Here == UNCHANGED <<kind, job, owner, row, reachable, accepted, edits, faults, lost, denied>>

\* loadForDelivery; an alert that is settled is not delivered again.
LoadAlert(w) ==
    /\ run[w].step = "load"
    /\ run' = [run EXCEPT ![w] =
                 IF alert \in {"delivered", "no_channel"}
                 THEN [@ EXCEPT !.step = "end", !.ok = TRUE]
                 ELSE [@ EXCEPT !.step = "file", !.contact = contact, !.raiser = raiser]]
    /\ Here
    /\ UNCHANGED avars

\* fileUnifiedQueueEntry: one open entry per alert; a resolved one is followed
\* by another.
FileEntry(w) ==
    /\ run[w].step = "file"
    /\ queue' = "open"
    /\ Go(w, "mods")
    /\ Here
    /\ UNCHANGED <<alert, raiser, contact>>

\* notifyModerators reads who they are; an erased account is not one.
ListModerators(w) ==
    /\ run[w].step = "mods"
    /\ run' = [run EXCEPT ![w].step = "pick", ![w].todo = IF reachable THEN Moderators ELSE {}]
    /\ Here
    /\ UNCHANGED avars

NotifyModerator(w, l) ==
    /\ run[w].step = "pick"
    /\ l \in run[w].todo
    /\ run' = [run EXCEPT ![w].step = "begin", ![w].leg = l, ![w].todo = @ \ {l}]
    /\ Here
    /\ UNCHANGED avars

\* Every moderator was tried before a failure is thrown.
ModeratorsFailed(w) ==
    /\ run[w].step = "pick"
    /\ run[w].todo = {}
    /\ run[w].bad
    /\ Go(w, "refuse")
    /\ Here
    /\ UNCHANGED avars

\* The mark* statements of the alert leave a delivered one alone.
Marked(status) == IF alert = "delivered" THEN alert ELSE status

\* createAttempt and markNoChannel of the emergency message.
ContactRow(r) == [row EXCEPT ![Contact] = r]
NoChannelRow == ContactRow([Created(Contact) EXCEPT !.status = "no_channel"])

\* deliverToEmergencyContact, up to its send: an address that cannot be
\* decrypted is a failure at once, none at all is recorded as such.
ToContact(w) ==
    /\ run[w].step = "pick"
    /\ run[w].todo = {}
    /\ ~run[w].bad
    /\ \/ /\ run[w].contact = "garbled"
          /\ alert' = Marked("failed")
          /\ GoWith(w, "end", FALSE)
          /\ UNCHANGED row
       \/ /\ run[w].contact = "none"
          /\ row' = IF run[w].raiser THEN NoChannelRow ELSE row
          /\ Go(w, "nochannel")
          /\ UNCHANGED alert
       \/ /\ run[w].contact = "set"
          /\ run' = [run EXCEPT ![w].step = "begin", ![w].leg = Contact]
          /\ UNCHANGED <<alert, row>>
    /\ UNCHANGED <<kind, job, owner, reachable, accepted, edits, faults, lost, denied, raiser, contact, queue>>

MarkNoChannel(w) ==
    /\ run[w].step = "nochannel"
    /\ alert' = Marked("no_channel")
    /\ GoWith(w, "end", TRUE)
    /\ Here
    /\ UNCHANGED <<raiser, contact, queue>>

\* A leg's send has returned.
LegReturned(w) ==
    /\ kind = "alert"
    /\ run[w].step = "returned"
    /\ run' = [run EXCEPT ![w] =
                 IF @.leg # Contact THEN [@ EXCEPT !.step = "pick", !.bad = run[w].bad \/ ~run[w].ok]
                 ELSE IF @.ok THEN [@ EXCEPT !.step = "deliver"]
                 ELSE [@ EXCEPT !.step = "refuse"]]
    /\ Here
    /\ UNCHANGED avars

MarkDelivered(w) ==
    /\ run[w].step = "deliver"
    /\ alert' = Marked("delivered")
    /\ GoWith(w, "end", TRUE)
    /\ Here
    /\ UNCHANGED <<raiser, contact, queue>>

\* Mutant: the failure is recorded but not thrown.
MarkDeliveryFailureSwallowed(w) ==
    /\ run[w].step = "refuse"
    /\ alert' = Marked(IF run[w].attempt >= MaxAttempts THEN "failed" ELSE "retrying")
    /\ GoWith(w, "end", TRUE)
    /\ Here
    /\ UNCHANGED <<raiser, contact, queue>>

\* markDeliveryFailure: 'failed' on the attempt that will dead-letter the
\* job, and the error goes on to the worker.
MarkDeliveryFailure(w) ==
    /\ run[w].step = "refuse"
    /\ alert' = Marked(IF run[w].attempt >= MaxAttempts THEN "failed" ELSE "retrying")
    /\ GoWith(w, "end", FALSE)
    /\ Here
    /\ UNCHANGED <<raiser, contact, queue>>

\* A statement on the way fails, its effect done or not, and the handler is
\* in its catch: the failure is still to be recorded on the alert.
StatementFails(w) ==
    /\ \/ /\ run[w].step = "file"
          /\ queue' \in {queue, "open"}
          /\ UNCHANGED <<row, alert>>
       \/ /\ run[w].step = "mods"
          /\ UNCHANGED <<row, alert, queue>>
       \/ /\ run[w].step = "pick" /\ run[w].todo = {} /\ ~run[w].bad
          /\ \/ /\ run[w].contact = "garbled"
                /\ alert' \in {alert, Marked("failed")}
                /\ UNCHANGED row
             \/ /\ run[w].contact = "none" /\ run[w].raiser
                /\ row' \in {row, ContactRow(Created(Contact)), NoChannelRow}
                /\ UNCHANGED alert
          /\ UNCHANGED queue
       \/ /\ run[w].step = "nochannel"
          /\ alert' \in {alert, Marked("no_channel")}
          /\ UNCHANGED <<row, queue>>
       \/ /\ run[w].step = "deliver"
          /\ alert' \in {alert, Marked("delivered")}
          /\ UNCHANGED <<row, queue>>
    /\ Go(w, "refuse")
    /\ Denied("statement")
    /\ UNCHANGED <<kind, job, owner, reachable, accepted, edits, lost, raiser, contact>>

\* The two statements outside the try: the alert is not read, or its failure
\* is not recorded, and the worker has the error all the same.
RecordFails(w) ==
    /\ \/ run[w].step = "load" /\ UNCHANGED alert
       \/ /\ run[w].step = "refuse"
          /\ alert' \in {alert, Marked(IF run[w].attempt >= MaxAttempts THEN "failed" ELSE "retrying")}
    /\ GoWith(w, "end", FALSE)
    /\ Denied("record")
    /\ UNCHANGED <<kind, job, owner, row, reachable, accepted, edits, lost, raiser,
                   contact, queue>>

-----------------------------------------------------------------------------
HandleAlert(w) ==
    \/ LoadAlert(w)
    \/ FileEntry(w)
    \/ ListModerators(w)
    \/ \E l \in Moderators : NotifyModerator(w, l)
    \/ ModeratorsFailed(w)
    \/ ToContact(w)
    \/ MarkNoChannel(w)
    \/ LegReturned(w)
    \/ MarkDelivered(w)
    \/ MarkDeliveryFailure(w)

Next ==
    \/ \E w \in Workers : HandleAlert(w) \/ (WorkerStep(w) /\ UNCHANGED avars)
    \/ Environment /\ UNCHANGED avars
    \/ \E w \in Workers : StatementFails(w) \/ RecordFails(w)
    \/ \E c \in Callers : RaiseAlert(c) \/ EscalateAlert(c)
    \/ UpdateContact
    \/ RaiserErased
    \/ ModeratorResolves

Spec == Init /\ [][Next]_vars

(* The workers keep polling and a handler is never stuck: every provider   *)
(* call is under a timeout and every write of a try settles.  Nothing      *)
(* makes a request or a fault happen.                                      *)
FairSpec ==
    Spec /\ \A w \in Workers : WF_vars(HandleAlert(w) \/ (WorkerStep(w) /\ UNCHANGED avars))

-----------------------------------------------------------------------------
(* Properties                                                              *)

\* The rows, the runs and the counters have their types.
TypeOK ==
    /\ kind \in Kinds
    /\ job \in [status : {"absent", "pending", "delivered", "dead"}, attempts : 0..MaxAttempts]
    /\ owner \in Workers \cup {Nobody}
    /\ \A w \in Workers : run[w].step \in Steps /\ run[w].leg \in Legs
    /\ \A l \in Legs : row[l].status \in {"absent", "pending", "retrying"} \cup Terminal
    /\ alert \in {"absent", "pending", "retrying", "delivered", "failed", "no_channel"}
    /\ queue \in {"none", "open", "resolved"}

\* ADR-011, FR-07: a row says 'sent', and an alert 'delivered', only if the
\* provider accepted the message, whatever was retried, abandoned or run twice.
SentWasAccepted ==
    /\ \A l \in Legs : row[l].status = "sent" => l \in accepted
    /\ alert = "delivered" => Contact \in accepted

\* RT-02, FR-07: success is final.  A message whose row says 'sent' is not
\* tried again, whatever is redelivered, unless a handler outlived its poll; and
\* not even such a handler marks a delivered alert anything else.
SuccessIsFinal ==
    [][/\ \A l \in Legs :
             row[l].status = "sent" /\ row'[l].status # "sent"
               => lost > 0 \/ row'[l].status = "no_channel"
       /\ alert = "delivered" => alert' = "delivered"]_vars

\* MTUT-02, NFR-09: once the job is over, what moderators read is an outcome.
\* No abandoned try and no redelivery leaves a row 'retrying', unless a
\* statement of the last delivery failed (or a handler outlived its poll:
\* nothing orders its writes with those of the next one; and a leg whose
\* addressee was erased in the meantime is not taken up again).  And whatever
\* failed, the alert of a dead-lettered job reads 'failed', safetyAlert.js:303-306,
\* unless the very statement that says so failed, or the one before that said
\* 'delivered' and was done although it failed.
OutcomeIsRecorded ==
    job.status \in {"delivered", "dead"} /\ lost = 0 =>
        /\ denied = "nothing" =>
              \A l \in Legs :
                 \/ row[l] = NoRow
                 \/ row[l].status \in Terminal
                 \/ l \in Moderators /\ ~reachable
                 \/ l = Contact /\ ~raiser
        /\ kind = "alert" /\ job.status = "dead" =>
              \/ alert = "failed"
              \/ denied = "record"
              \/ alert = "delivered" /\ denied = "statement"

\* FR-07: an alert that was raised is eventually delivered, recorded as without
\* channel, or failed, and whichever it is, it is in the moderators' queue: or
\* statements failed in the last delivery of its dead-lettered job, the one
\* that files the entry or the one that records the failure.
AlertSettles ==
    (alert = "pending")
      ~> \/ lost > 0
         \/ queue # "none" /\ alert \in {"delivered", "no_channel", "failed"}
         \/ job.status = "dead" /\ denied = "record"
         \/ job.status = "dead" /\ denied = "statement" /\ alert = "failed"
=============================================================================
