------------------------- MODULE SafetyAlertProofs --------------------------
(***************************************************************************)
(* Proofs about modules Notifications and SafetyAlert: a message that is   *)
(* recorded as sent was accepted and is not sent again, and when the job   *)
(* is over every message and the alert itself say what became of them; the *)
(* job is one of a ledger of jobs.                                         *)
(***************************************************************************)
EXTENDS SafetyAlert, TLAPS

-----------------------------------------------------------------------------
(* Types.                                                                  *)

Row == [status : {"absent", "pending", "retrying"} \cup Terminal, tried : BOOLEAN]

Run == [step : Steps, leg : Legs, todo : SUBSET Moderators, bad : BOOLEAN, try : Nat,
        late : Nat, attempt : Nat, contact : {"none", "set", "garbled"},
        raiser : BOOLEAN, link : BOOLEAN, ok : BOOLEAN]

Types ==
    /\ kind \in Kinds
    /\ job \in [status : {"absent", "pending", "delivered", "dead"}, attempts : Nat]
    /\ job.attempts <= MaxAttempts
    /\ job.status = "pending" => job.attempts < MaxAttempts
    /\ owner # Nobody => owner \in Workers /\ job.status = "pending"
    /\ run \in [Workers -> Run]
    /\ row \in [Legs -> Row]
    /\ reachable \in BOOLEAN
    /\ lost \in Nat
    /\ denied \in {"nothing", "statement", "record"}
    /\ alert \in {"absent", "pending", "retrying", "delivered", "failed", "no_channel"}
    /\ kind # "alert" => alert = "absent"
    /\ raiser \in BOOLEAN
    /\ contact \in {"none", "set", "garbled"}
    /\ queue \in {"none", "open", "resolved"}

-----------------------------------------------------------------------------
(* What is known of every handler, one that outlived its poll included.    *)

\* The steps of transport.send, and those in which its row exists.
Sending == {"begin", "resolve", "try", "flight", "settle", "returned"}
Trying == {"resolve", "try", "flight", "settle"}

\* The steps that only the handler of an alert takes.
AlertSteps == {"load", "file", "mods", "pick", "nochannel", "deliver", "refuse"}

\* A handler that has reached step r.step; what it says of the provider and of
\* the rows stays true whatever others do.
Known(r) ==
    /\ r.late > 0 => r.step \in {"try", "flight", "settle"}
    /\ r.step \in {"settle", "returned"} /\ r.ok => r.leg \in accepted
    /\ r.step = "deliver" => Contact \in accepted
    /\ r.step \in Trying \cup {"returned"} => row[r.leg].status # "absent"
    /\ r.step \in Sending => (kind = "alert" <=> r.leg # Own)
    /\ kind # "alert" => r.step \notin AlertSteps

\* Rows exist only for the messages of the job's kind, and are tried only then.
RowsOfKind ==
    \A l \in Legs : /\ row[l].status = "absent" => row[l] = NoRow
                    /\ row[l].status # "absent" => (kind = "alert" <=> l # Own)

-----------------------------------------------------------------------------
(* What is known while no poll has been lost: one handler at a time.       *)

\* The handler at work is the one whose poll holds the job.
OneHandler == \A w \in Workers : run[w].step # "idle" => owner = w

\* What the first conjunct of OutcomeIsRecorded says of one message.
Recorded(l) ==
    \/ row[l] = NoRow
    \/ row[l].status \in Terminal
    \/ l \in Moderators /\ ~reachable
    \/ l = Contact /\ ~raiser

AllSent == \A m \in Moderators : row[m].status = "sent"

\* Moderator m has been dealt with in this run.
Notified(m, bad) == ~reachable \/ row[m].status = "sent" \/ (bad /\ row[m].status = "failed")

\* The send under way has a row that is not final, and returns what it says.
SendIsOpen(r) ==
    /\ r.step \in Trying => row[r.leg].status # "sent"
    /\ r.step = "returned" => row[r.leg].status = IF r.ok THEN "sent" ELSE "failed"

\* Where the handler of an alert is: the moderators come before the emergency
\* contact, and a failure among them keeps the contact's leg from starting.
LegsInOrder(r) ==
    /\ r.step \in {"load", "file", "mods"} => r.todo = {} /\ ~r.bad
    /\ r.step \notin {"load", "refuse", "end"} => alert \notin {"delivered", "no_channel"}
    /\ r.step \notin {"load", "end"} => /\ r.contact = "garbled" => row[Contact] = NoRow
                                        /\ contact = "garbled" => r.contact = "garbled"
                                        /\ ~r.raiser => ~raiser
    /\ r.step \in Sending \cup {"pick"} =>
          /\ \A m \in Moderators : \/ m \in r.todo
                                   \/ r.step # "pick" /\ m = r.leg
                                   \/ Notified(m, r.bad)
          /\ r.bad => row[Contact] = NoRow
          /\ r.todo # {} \/ (r.step # "pick" /\ r.leg # Contact)
               => row[Contact] = NoRow \/ AllSent
          /\ r.step # "pick" /\ r.leg = Contact => r.todo = {} /\ ~r.bad /\ r.contact = "set"

\* What OutcomeIsRecorded says of the alert of a dead-lettered job.
AlertRecorded ==
    \/ alert = "failed"
    \/ denied = "record"
    \/ alert = "delivered" /\ denied = "statement"

\* What the handler of an alert has done when it comes to its end, by the way
\* through all legs or because a statement failed.
LegsAreDone(r) ==
    /\ r.step \in {"nochannel", "deliver"} => \A l \in Legs : Recorded(l)
    /\ r.step \in {"refuse", "end"} /\ denied = "nothing" => \A l \in Legs : Recorded(l)
    /\ r.step = "refuse" /\ alert = "delivered" => denied = "statement"
    /\ r.step = "end" /\ ~r.ok /\ r.attempt >= MaxAttempts => AlertRecorded

Alone(r) ==
    r.step # "idle" =>
        /\ r.attempt = job.attempts + 1
        /\ SendIsOpen(r)
        /\ kind = "alert" => LegsInOrder(r) /\ LegsAreDone(r)
        /\ kind # "alert" /\ r.step = "end" /\ denied = "nothing" => Recorded(Own)

\* What one handler leaves behind for the next one.
Between ==
    /\ row[Contact] = NoRow \/ AllSent \/ ~reachable
    /\ contact = "garbled" => row[Contact] = NoRow
    /\ alert \in {"delivered", "no_channel"} => \A l \in Legs : Recorded(l)
    /\ kind = "alert" /\ alert = "absent" => job.status = "absent"

\* As long as no poll was lost, handlers follow one another.
Undisturbed ==
    lost = 0 =>
        /\ OneHandler
        /\ Between
        /\ OutcomeIsRecorded
        /\ \A w \in Workers : Alone(run[w])

\* The inductive invariant.
SInv ==
    /\ Types
    /\ RowsOfKind
    /\ SentWasAccepted
    /\ \A w \in Workers : Known(run[w])
    /\ Undisturbed

-----------------------------------------------------------------------------
(* The pattern of a handler's step.                                        *)

\* A step of handler w, as far as the invariant is concerned: what has to be
\* shown is what the step itself establishes.
LEMMA HandlerStep ==
    ASSUME SInv, NEW w \in Workers, run[w].step # "idle",
           NEW r \in Run, run' = [run EXCEPT ![w] = r], r.step # "idle",
           UNCHANGED <<kind, job, owner, reachable, lost, raiser, contact>>,
           accepted \subseteq accepted',
           Types', RowsOfKind', SentWasAccepted', Known(r)',
           \A l \in Legs : row[l].status # "absent" => row'[l].status # "absent",
           lost = 0 => Between' /\ Alone(r)'
    PROVE  SInv'
  <1>1. run \in [Workers -> Run]
    BY DEF SInv, Types
  <1>2. \A v \in Workers : run'[v] = IF v = w THEN r ELSE run[v]
    BY <1>1
  <1>3. \A v \in Workers : Known(run[v])'
    <2>. SUFFICES ASSUME NEW v \in Workers, v # w PROVE Known(run[v])'
      BY <1>2
    <2>1. Known(run[v]) /\ run[v].leg \in Legs
      BY <1>1 DEF SInv, Run
    <2>. QED BY <2>1 DEF Known
  <1>4. ASSUME lost = 0 PROVE OneHandler' /\ OutcomeIsRecorded' /\ \A v \in Workers : Alone(run[v])'
    <2>1. \A v \in Workers : run[v].step # "idle" => owner = v
      BY <1>4 DEF SInv, Undisturbed, OneHandler
    <2>2. owner = w /\ job.status = "pending" /\ \A v \in Workers \ {w} : run[v].step = "idle"
      BY <2>1, NobodyAssumption DEF SInv, Types
    <2>3. OneHandler'
      BY <2>2, <1>2 DEF OneHandler
    <2>4. \A v \in Workers : Alone(run[v])'
      BY <2>2, <1>2, <1>4 DEF Alone
    <2>5. OutcomeIsRecorded'
      BY <2>2 DEF OutcomeIsRecorded
    <2>. QED BY <2>3, <2>4, <2>5
  <1>. QED BY <1>2, <1>3, <1>4 DEF SInv, Undisturbed

\* A step that changes nothing but the handler's own record.
LEMMA QuietStep ==
    ASSUME SInv, NEW w \in Workers, run[w].step # "idle",
           NEW r \in Run, run' = [run EXCEPT ![w] = r], r.step # "idle",
           UNCHANGED <<kind, job, owner, row, reachable, accepted, lost, denied, alert, raiser, contact>>,
           queue' \in {"none", "open", "resolved"},
           Known(r), lost = 0 => Alone(r)
    PROVE  SInv'
  <1>1. Types'
    BY DEF SInv, Types
  <1>2. RowsOfKind' /\ SentWasAccepted'
    BY DEF SInv, RowsOfKind, SentWasAccepted
  <1>3. Known(r)'
    BY DEF Known
  <1>4. lost = 0 => Between' /\ Alone(r)'
    BY DEF SInv, Undisturbed, Between, Recorded, AllSent, Alone, SendIsOpen, LegsInOrder,
           LegsAreDone, AlertRecorded, Notified
  <1>. QED BY <1>1, <1>2, <1>3, <1>4, HandlerStep

\* What the handler knows before its step.
LEMMA Before ==
    ASSUME SInv, NEW w \in Workers
    PROVE  /\ run[w] \in Run
           /\ run[w].step \in Steps /\ run[w].leg \in Legs
           /\ run[w].todo \in SUBSET Moderators /\ run[w].bad \in BOOLEAN
           /\ run[w].try \in Nat /\ run[w].late \in Nat /\ run[w].attempt \in Nat
           /\ run[w].contact \in {"none", "set", "garbled"}
           /\ run[w].raiser \in BOOLEAN /\ run[w].link \in BOOLEAN /\ run[w].ok \in BOOLEAN
           /\ Known(run[w])
           /\ (lost = 0 => Alone(run[w]))
           /\ run \in [Workers -> Run] /\ row \in [Legs -> Row]
           /\ row[run[w].leg] \in Row
  <1>1. run \in [Workers -> Run] /\ row \in [Legs -> Row] /\ run[w] \in Run
    BY DEF SInv, Types
  <1>. QED BY <1>1 DEF SInv, Run, Undisturbed

\* Going to another step changes nothing else in the handler's record.
LEMMA GoIs ==
    ASSUME SInv, NEW w \in Workers, NEW step \in Steps, Go(w, step)
    PROVE  \E r \in Run : /\ run' = [run EXCEPT ![w] = r]
                          /\ r = [run[w] EXCEPT !.step = step]
                          /\ r.step = step /\ r.leg = run[w].leg /\ r.todo = run[w].todo
                          /\ r.bad = run[w].bad /\ r.try = run[w].try /\ r.late = run[w].late
                          /\ r.attempt = run[w].attempt /\ r.contact = run[w].contact
                          /\ r.raiser = run[w].raiser /\ r.ok = run[w].ok
  <1>1. PICK q \in Run : q = run[w]
    BY Before
  <1>2. [q EXCEPT !.step = step] \in Run
    BY DEF Run
  <1>. QED BY <1>1, <1>2, Before DEF Go, Run

LEMMA GoWithIs ==
    ASSUME SInv, NEW w \in Workers, NEW step \in Steps, NEW ok \in BOOLEAN, GoWith(w, step, ok)
    PROVE  \E r \in Run : /\ run' = [run EXCEPT ![w] = r]
                          /\ r.step = step /\ r.leg = run[w].leg /\ r.todo = run[w].todo
                          /\ r.bad = run[w].bad /\ r.try = run[w].try /\ r.late = run[w].late
                          /\ r.attempt = run[w].attempt /\ r.contact = run[w].contact
                          /\ r.raiser = run[w].raiser /\ r.ok = ok
  <1>1. PICK q \in Run : q = run[w]
    BY Before
  <1>2. [q EXCEPT !.step = step, !.ok = ok] \in Run
    BY DEF Run
  <1>3. run' = [run EXCEPT ![w] = [q EXCEPT !.step = step, !.ok = ok]]
    BY <1>1, Before DEF GoWith
  <1>. QED BY ZenonT(60), <1>1, <1>2, <1>3, Before DEF Run

-----------------------------------------------------------------------------
(* The handler of an alert, statement by statement.                        *)

LEMMA LoadAlertKeeps ==
    ASSUME SInv, NEW w \in Workers, LoadAlert(w)
    PROVE  SInv'
  <1>1. /\ run[w].step = "load" /\ Known(run[w]) /\ (lost = 0 => Alone(run[w]))
        /\ alert' = alert /\ queue' = queue /\ raiser' = raiser /\ contact' = contact
        /\ UNCHANGED <<kind, job, owner, row, reachable, accepted, lost, denied>>
    BY Before DEF LoadAlert, Here, avars
  <1>2. CASE alert \in {"delivered", "no_channel"}
    <2>. DEFINE r == [run[w] EXCEPT !.step = "end", !.ok = TRUE]
    <2>1. /\ r \in Run /\ r.step = "end" /\ r.ok = TRUE /\ r.late = run[w].late
          /\ r.attempt = run[w].attempt /\ r.leg = run[w].leg
      BY ZenonT(60), Before DEF Run, Steps
    <2>2. run' = [run EXCEPT ![w] = r]
      BY <1>2, Before DEF LoadAlert
    <2>. HIDE DEF r
    <2>3. Known(r)
      BY <1>1, <2>1 DEF Known, AlertSteps, Sending, Trying
    <2>4. lost = 0 => Alone(r)
      BY <1>1, <1>2, <2>1
         DEF Known, AlertSteps, Alone, SendIsOpen, LegsInOrder, LegsAreDone, Sending, Trying,
             SInv, Undisturbed, Between
    <2>. QED BY <1>1, <2>1, <2>2, <2>3, <2>4, QuietStep DEF SInv, Types
  <1>3. CASE alert \notin {"delivered", "no_channel"}
    <2>. DEFINE r == [run[w] EXCEPT !.step = "file", !.contact = contact, !.raiser = raiser]
    <2>1. /\ r \in Run /\ r.step = "file" /\ r.late = run[w].late
          /\ r.attempt = run[w].attempt /\ r.leg = run[w].leg /\ r.todo = run[w].todo
          /\ r.bad = run[w].bad /\ r.contact = contact /\ r.raiser = raiser
      BY ZenonT(60), Before DEF Run, Steps, SInv, Types
    <2>2. run' = [run EXCEPT ![w] = r]
      BY <1>3, Before DEF LoadAlert
    <2>. HIDE DEF r
    <2>3. Known(r)
      BY <1>1, <2>1 DEF Known, AlertSteps, Sending, Trying
    <2>4. lost = 0 => Alone(r)
      BY <1>1, <1>3, <2>1
         DEF Known, AlertSteps, Alone, SendIsOpen, LegsInOrder, LegsAreDone, Sending, Trying,
             SInv, Undisturbed, Between
    <2>. QED BY <1>1, <2>1, <2>2, <2>3, <2>4, QuietStep DEF SInv, Types
  <1>. QED BY <1>2, <1>3

LEMMA FileEntryKeeps ==
    ASSUME SInv, NEW w \in Workers, FileEntry(w)
    PROVE  SInv'
  <1>1. /\ run[w].step = "file" /\ Known(run[w]) /\ (lost = 0 => Alone(run[w]))
        /\ alert' = alert /\ queue' = "open" /\ raiser' = raiser /\ contact' = contact
        /\ UNCHANGED <<kind, job, owner, row, reachable, accepted, lost, denied>>
    BY Before DEF FileEntry, Here
  <1>2. PICK r \in Run : /\ run' = [run EXCEPT ![w] = r]
                         /\ r.step = "mods" /\ r.leg = run[w].leg /\ r.todo = run[w].todo
                         /\ r.bad = run[w].bad /\ r.late = run[w].late
                         /\ r.attempt = run[w].attempt /\ r.contact = run[w].contact
                         /\ r.raiser = run[w].raiser
    BY GoIs DEF FileEntry, Steps
  <1>3. Known(r)
    BY <1>1, <1>2 DEF Known, AlertSteps, Sending, Trying
  <1>4. lost = 0 => Alone(r)
    BY <1>1, <1>2
       DEF Known, AlertSteps, Alone, SendIsOpen, LegsInOrder, LegsAreDone, Sending, Trying
  <1>. QED BY <1>1, <1>2, <1>3, <1>4, QuietStep

LEMMA ListModeratorsKeeps ==
    ASSUME SInv, NEW w \in Workers, ListModerators(w)
    PROVE  SInv'
  <1>1. /\ run[w].step = "mods" /\ Known(run[w]) /\ (lost = 0 => Alone(run[w]))
        /\ alert' = alert /\ queue' = queue /\ raiser' = raiser /\ contact' = contact
        /\ UNCHANGED <<kind, job, owner, row, reachable, accepted, lost, denied>>
    BY Before DEF ListModerators, Here, avars
  <1>2. PICK todo \in SUBSET Moderators : todo = IF reachable THEN Moderators ELSE {}
    OBVIOUS
  <1>. DEFINE r == [run[w] EXCEPT !.step = "pick", !.todo = todo]
  <1>3. /\ r \in Run /\ r.step = "pick" /\ r.late = run[w].late
        /\ r.attempt = run[w].attempt /\ r.leg = run[w].leg /\ r.todo = todo
        /\ r.bad = run[w].bad /\ r.contact = run[w].contact /\ r.raiser = run[w].raiser
    BY Before DEF Run, Steps
  <1>4. run' = [run EXCEPT ![w] = r]
    BY <1>2, Before DEF ListModerators
  <1>. HIDE DEF r
  <1>5. Known(r)
    BY <1>1, <1>3 DEF Known, AlertSteps, Sending, Trying
  <1>6. lost = 0 => Alone(r)
    BY <1>1, <1>2, <1>3
       DEF Known, AlertSteps, Alone, SendIsOpen, LegsInOrder, LegsAreDone, Sending, Trying,
           SInv, Undisturbed, Between, Notified
  <1>. QED BY <1>1, <1>3, <1>4, <1>5, <1>6, QuietStep DEF SInv, Types

LEMMA NotifyModeratorKeeps ==
    ASSUME SInv, NEW w \in Workers, NEW l \in Moderators, NotifyModerator(w, l)
    PROVE  SInv'
  <1>1. /\ run[w].step = "pick" /\ l \in run[w].todo
        /\ Known(run[w]) /\ (lost = 0 => Alone(run[w]))
        /\ alert' = alert /\ queue' = queue /\ raiser' = raiser /\ contact' = contact
        /\ UNCHANGED <<kind, job, owner, row, reachable, accepted, lost, denied>>
    BY Before DEF NotifyModerator, Here, avars
  <1>2. PICK todo \in SUBSET Moderators : todo = run[w].todo \ {l}
    BY Before
  <1>. DEFINE r == [run[w] EXCEPT !.step = "begin", !.leg = l, !.todo = todo]
  <1>3. /\ r \in Run /\ r.step = "begin" /\ r.late = run[w].late
        /\ r.attempt = run[w].attempt /\ r.leg = l /\ r.todo = todo
        /\ r.bad = run[w].bad /\ r.contact = run[w].contact /\ r.raiser = run[w].raiser
    BY ZenonT(60), Before DEF Run, Steps, Legs
  <1>4. run' = [run EXCEPT ![w] = r]
    BY <1>2, Before DEF NotifyModerator
  <1>. HIDE DEF r
  <1>5. Known(r)
    BY <1>1, <1>3, NotificationsAssumption DEF Known, AlertSteps, Sending, Trying
  <1>6. lost = 0 => Alone(r)
    BY <1>1, <1>2, <1>3, NotificationsAssumption
       DEF Known, AlertSteps, Alone, SendIsOpen, LegsInOrder, LegsAreDone, Sending, Trying, Notified
  <1>. QED BY <1>1, <1>3, <1>4, <1>5, <1>6, QuietStep DEF SInv, Types

\* A moderator's failure is one of a run that never reached the contact.
LEMMA ModeratorsFailedKeeps ==
    ASSUME SInv, NEW w \in Workers, ModeratorsFailed(w)
    PROVE  SInv'
  <1>1. /\ run[w].step = "pick" /\ run[w].todo = {} /\ run[w].bad
        /\ Known(run[w]) /\ (lost = 0 => Alone(run[w]))
        /\ alert' = alert /\ queue' = queue /\ raiser' = raiser /\ contact' = contact
        /\ UNCHANGED <<kind, job, owner, row, reachable, accepted, lost, denied>>
    BY Before DEF ModeratorsFailed, Here, avars
  <1>2. PICK r \in Run : /\ run' = [run EXCEPT ![w] = r]
                         /\ r.step = "refuse" /\ r.leg = run[w].leg /\ r.todo = run[w].todo
                         /\ r.bad = run[w].bad /\ r.late = run[w].late
                         /\ r.attempt = run[w].attempt /\ r.contact = run[w].contact
                         /\ r.raiser = run[w].raiser
    <2>1. Go(w, "refuse") /\ "refuse" \in Steps
      BY DEF ModeratorsFailed, Steps
    <2>. QED BY <2>1, GoIs
  <1>3. Known(r) /\ kind = "alert"
    BY <1>1, <1>2 DEF Known, AlertSteps, Sending, Trying
  <1>4. ASSUME lost = 0 PROVE \A l \in Legs : Recorded(l)
    <2>1. row[Contact] = NoRow /\ \A m \in Moderators : Notified(m, TRUE)
      BY <1>1, <1>3, <1>4 DEF Alone, LegsInOrder, Sending
    <2>. QED BY <2>1, <1>3 DEF SInv, RowsOfKind, Recorded, Notified, Terminal, Legs
  <1>5. lost = 0 => Alone(r)
    BY <1>1, <1>2, <1>3, <1>4
       DEF Alone, SendIsOpen, LegsInOrder, LegsAreDone, Sending, Trying
  <1>. QED BY <1>1, <1>2, <1>3, <1>5, QuietStep DEF SInv, Types

LEMMA LegReturnedKeeps ==
    ASSUME SInv, NEW w \in Workers, LegReturned(w)
    PROVE  SInv'
  <1>1. /\ kind = "alert" /\ run[w].step = "returned"
        /\ Known(run[w]) /\ (lost = 0 => Alone(run[w]))
        /\ alert' = alert /\ queue' = queue /\ raiser' = raiser /\ contact' = contact
        /\ UNCHANGED <<kind, job, owner, row, reachable, accepted, lost, denied>>
    BY Before DEF LegReturned, Here, avars
  <1>2. CASE run[w].leg # Contact
    <2>1. run[w].leg \in Moderators
      BY <1>1, <1>2, Before DEF Known, Sending, Legs
    <2>2. PICK bad \in BOOLEAN : bad = (run[w].bad \/ ~run[w].ok)
      OBVIOUS
    <2>. DEFINE r == [run[w] EXCEPT !.step = "pick", !.bad = bad]
    <2>3. /\ r \in Run /\ r.step = "pick" /\ r.late = run[w].late
          /\ r.attempt = run[w].attempt /\ r.leg = run[w].leg /\ r.todo = run[w].todo
          /\ r.bad = bad /\ r.contact = run[w].contact /\ r.raiser = run[w].raiser
      BY Before DEF Run, Steps
    <2>4. run' = [run EXCEPT ![w] = r]
      BY <1>2, <2>2, Before DEF LegReturned
    <2>. HIDE DEF r
    <2>5. Known(r)
      BY <1>1, <2>3 DEF Known, AlertSteps, Sending, Trying
    <2>6. ASSUME lost = 0 PROVE Alone(r)
      <3>1. /\ row[run[w].leg].status = IF run[w].ok THEN "sent" ELSE "failed"
            /\ LegsInOrder(run[w])
            /\ run[w].attempt = job.attempts + 1
        BY <1>1, <2>6 DEF Alone, SendIsOpen
      <3>2. \A m \in Moderators : m \in r.todo \/ Notified(m, bad)
        BY <3>1, <1>1, <2>2, <2>3 DEF LegsInOrder, Notified, Sending
      <3>3. bad => row[Contact] = NoRow
        BY <3>1, <1>1, <1>2, <2>1, <2>2 DEF LegsInOrder, AllSent, Sending
      <3>4. r.todo # {} => row[Contact] = NoRow \/ AllSent
        BY <3>1, <1>1, <2>3 DEF LegsInOrder, Sending
      <3>5. LegsInOrder(r)
        BY <3>1, <3>2, <3>3, <3>4, <1>1, <2>3 DEF LegsInOrder, Sending
      <3>. QED BY <3>1, <3>5, <2>3 DEF Alone, SendIsOpen, LegsAreDone, Trying
    <2>. QED BY <1>1, <2>3, <2>4, <2>5, <2>6, QuietStep DEF SInv, Types
  <1>3. CASE run[w].leg = Contact
    <2>1. PICK step \in {"deliver", "refuse"} :
              step = IF run[w].ok THEN "deliver" ELSE "refuse"
      OBVIOUS
    <2>. DEFINE r == [run[w] EXCEPT !.step = step]
    <2>2. /\ r \in Run /\ r.step = step /\ r.late = run[w].late
          /\ r.attempt = run[w].attempt /\ r.leg = run[w].leg /\ r.todo = run[w].todo
          /\ r.bad = run[w].bad /\ r.contact = run[w].contact /\ r.raiser = run[w].raiser
      BY Before DEF Run, Steps
    <2>3. run' = [run EXCEPT ![w] = r]
      BY <1>3, <2>1, Before DEF LegReturned
    <2>. HIDE DEF r
    <2>4. Known(r)
      BY <1>1, <1>3, <2>1, <2>2 DEF Known, AlertSteps, Sending, Trying
    <2>5. ASSUME lost = 0 PROVE Alone(r)
      <3>1. /\ row[Contact].status \in {"sent", "failed"}
            /\ LegsInOrder(run[w])
            /\ run[w].attempt = job.attempts + 1
            /\ alert \notin {"delivered", "no_channel"}
        BY <1>1, <1>3, <2>5 DEF Alone, SendIsOpen, LegsInOrder
      <3>2. \A m \in Moderators : Notified(m, FALSE)
        BY <3>1, <1>1, <1>3, NotificationsAssumption DEF LegsInOrder, Sending, Notified
      <3>3. \A l \in Legs : Recorded(l)
        BY <3>1, <3>2, <1>1 DEF SInv, RowsOfKind, Recorded, Notified, Terminal, Legs
      <3>4. LegsInOrder(r)
        BY <3>1, <1>1, <2>1, <2>2 DEF LegsInOrder, Sending
      <3>. QED BY <3>1, <3>3, <3>4, <2>1, <2>2 DEF Alone, SendIsOpen, LegsAreDone, Trying
    <2>. QED BY <1>1, <2>1, <2>2, <2>3, <2>4, <2>5, QuietStep DEF SInv, Types
  <1>. QED BY <1>2, <1>3

-----------------------------------------------------------------------------
(* transport.send.                                                         *)

\* The handler goes on with the message it was sending.
SameErrand(r, q) ==
    /\ r.leg = q.leg /\ r.todo = q.todo /\ r.bad = q.bad
    /\ r.contact = q.contact /\ r.raiser = q.raiser /\ r.attempt = q.attempt

\* A step of a send writes at most the row of its own message, which exists
\* from its first step on, and calls the provider for no other.
LEMMA SendStep ==
    ASSUME SInv, NEW w \in Workers, run[w].step \in Sending,
           NEW r \in Run, run' = [run EXCEPT ![w] = r], SameErrand(r, run[w]), r.step \in Sending,
           NEW l \in Legs, l = run[w].leg,
           NEW x \in Row, row' = [row EXCEPT ![l] = x], x.status # "absent",
           accepted \subseteq accepted', x.status = "sent" => l \in accepted',
           UNCHANGED <<kind, job, owner, reachable, lost, denied, alert, raiser, contact, queue>>,
           Known(r)',
           lost = 0 => SendIsOpen(r)' /\ (row[l].status = "sent" => x = row[l])
    PROVE  SInv'
  <1>1. /\ row \in [Legs -> Row] /\ run[w].step # "idle"
        /\ Known(run[w]) /\ (lost = 0 => Alone(run[w]))
        /\ (kind = "alert" <=> l # Own)
        /\ r.leg = l
    BY Before DEF Sending, Known, SameErrand
  <1>2. \A k \in Legs : row'[k] = IF k = l THEN x ELSE row[k]
    BY <1>1
  <1>3. Types'
    BY <1>1 DEF SInv, Types
  <1>4. RowsOfKind'
    BY <1>1, <1>2 DEF SInv, RowsOfKind
  <1>5. SentWasAccepted'
    BY <1>2 DEF SInv, SentWasAccepted
  <1>6. \A k \in Legs : row[k].status # "absent" => row'[k].status # "absent"
    BY <1>2
  <1>7. ASSUME lost = 0, kind # "alert" PROVE Between' /\ Alone(r)'
    <2>1. /\ l = Own /\ row[Contact] = NoRow /\ alert = "absent" /\ Contact \in Legs
          /\ run[w].attempt = job.attempts + 1
      BY <1>1, <1>7, NotificationsAssumption
         DEF SInv, Types, RowsOfKind, Legs, Alone
    <2>2. row'[Contact] = NoRow
      BY <2>1, <1>2, NotificationsAssumption
    <2>3. Between'
      BY <2>1, <2>2, <1>7 DEF Between
    <2>4. Alone(r)'
      BY <2>1, <1>7 DEF Alone, SameErrand, Sending
    <2>. QED BY <2>3, <2>4
  <1>8. ASSUME lost = 0, kind = "alert" PROVE Between' /\ Alone(r)'
    <2>1. /\ LegsInOrder(run[w]) /\ run[w].attempt = job.attempts + 1
          /\ Between /\ Contact \in Legs /\ Moderators \subseteq Legs
          /\ alert \notin {"delivered", "no_channel"}
      BY <1>1, <1>8 DEF Alone, LegsInOrder, Sending, SInv, Undisturbed, Legs
    <2>2. AllSent => AllSent'
      BY <1>2, <1>8, <2>1 DEF AllSent
    <2>3. l = Contact => /\ r.todo = {} /\ ~r.bad /\ r.contact = "set" /\ contact # "garbled"
                         /\ AllSent \/ ~reachable
      BY <1>1, <2>1, NotificationsAssumption
         DEF LegsInOrder, SameErrand, Sending, AllSent, Notified
    <2>4. l # Contact => row'[Contact] = row[Contact]
      BY <1>2, <2>1
    <2>5. Between'
      BY <2>1, <2>2, <2>3, <2>4 DEF Between
    <2>6. \A m \in Moderators : m # l => (Notified(m, r.bad) => Notified(m, r.bad)')
      BY <1>2, <2>1 DEF Notified
    <2>7. LegsInOrder(r)'
      <3>1. \A m \in Moderators : m \in r.todo \/ m = l \/ Notified(m, r.bad)'
        BY <2>1, <2>6, <1>1 DEF LegsInOrder, SameErrand, Sending
      <3>. QED BY <1>1, <2>1, <2>2, <2>3, <2>4, <3>1 DEF LegsInOrder, SameErrand, Sending
    <2>. QED BY <1>8, <2>1, <2>5, <2>7 DEF Alone, LegsAreDone, SameErrand, Sending
  <1>. QED BY <1>1, <1>3, <1>4, <1>5, <1>6, <1>7, <1>8, HandlerStep DEF Sending

LEMMA CreateAttemptKeeps ==
    ASSUME SInv, NEW w \in Workers, CreateAttempt(w), UNCHANGED avars
    PROVE  SInv'
  <1>1. PICK l \in Legs : l = run[w].leg
    BY Before
  <1>2. /\ run[w].step = "begin" /\ Known(run[w]) /\ run[w].late = 0
        /\ row[l] \in Row /\ (row[l].status = "absent" => row[l] = NoRow)
        /\ row[l].status = "sent" => l \in accepted
    BY <1>1, Before DEF CreateAttempt, Known, SInv, RowsOfKind, SentWasAccepted
  <1>3. PICK x \in Row : /\ x = Created(l) /\ x.status # "absent"
                         /\ row[l].status = "sent" <=> x.status = "sent"
                         /\ row[l].status = "sent" => x = row[l]
    <2>1. Created(l) \in Row
      BY <1>2 DEF Created, Row
    <2>. QED BY <1>2, <2>1 DEF Created, NoRow
  <1>4. PICK r \in Run : /\ run' = [run EXCEPT ![w] = r] /\ SameErrand(r, run[w]) /\ r.late = 0
                         /\ r.step = IF x.status = "sent" THEN "returned" ELSE "resolve"
                         /\ x.status = "sent" => r.ok = TRUE
    <2>1. CASE x.status = "sent"
      <3>1. GoWith(w, "returned", TRUE) /\ "returned" \in Steps
        BY <1>1, <1>3, <2>1 DEF CreateAttempt, Steps
      <3>. QED BY <3>1, <2>1, <1>2, GoWithIs DEF SameErrand
    <2>2. CASE x.status # "sent"
      <3>1. Go(w, "resolve") /\ "resolve" \in Steps
        BY <1>1, <1>3, <2>2 DEF CreateAttempt, Steps
      <3>. QED BY <3>1, <2>2, <1>2, GoIs DEF SameErrand
    <2>. QED BY <2>1, <2>2
  <1>5. /\ row' = [row EXCEPT ![l] = x]
        /\ UNCHANGED <<kind, job, owner, reachable, accepted, lost, denied, alert, raiser, contact, queue>>
    BY <1>1, <1>3 DEF CreateAttempt, avars
  <1>6. row'[l] = x /\ r.leg = l
    BY <1>1, <1>4, <1>5, Before DEF SameErrand
  <1>7. Known(r)'
    BY <1>1, <1>2, <1>3, <1>4, <1>5, <1>6 DEF Known, Sending, Trying, AlertSteps
  <1>8. SendIsOpen(r)'
    BY <1>4, <1>6 DEF SendIsOpen, Trying
  <1>. QED
    BY <1>1, <1>2, <1>3, <1>4, <1>5, <1>7, <1>8, SendStep DEF Sending

LEMMA ResolveRecipientKeeps ==
    ASSUME SInv, NEW w \in Workers, ResolveRecipient(w), UNCHANGED avars
    PROVE  SInv'
  <1>1. PICK l \in Legs : l = run[w].leg
    BY Before
  <1>2. /\ run[w].step = "resolve" /\ Known(run[w]) /\ (lost = 0 => SendIsOpen(run[w]))
        /\ row[l] \in Row /\ row[l].status # "absent"
        /\ UNCHANGED <<kind, job, owner, row, reachable, accepted, lost, denied, alert, raiser, contact, queue>>
    BY <1>1, Before DEF ResolveRecipient, Known, Trying, Alone, avars
  <1>3. PICK q \in Run : q = run[w]
    BY Before
  <1>4. PICK step \in {"try", "settle"}, link \in BOOLEAN :
            run' = [run EXCEPT ![w] = [q EXCEPT !.step = step, !.try = 0, !.ok = FALSE,
                                                !.link = link]]
    <2>. DEFINE found == Adapter = "mock" \/ Supplied(run[w].leg) \/ reachable
    <2>1. PICK step \in {"try", "settle"} : step = IF found THEN "try" ELSE "settle"
      OBVIOUS
    <2>2. PICK link \in BOOLEAN : link = (found /\ Adapter = "sendgrid" /\ kind = "verify")
      OBVIOUS
    <2>. QED BY <1>3, <2>1, <2>2, Before DEF ResolveRecipient
  <1>. DEFINE r == [q EXCEPT !.step = step, !.try = 0, !.ok = FALSE, !.link = link]
  <1>5. /\ r \in Run /\ r.step = step /\ ~r.ok /\ r.late = q.late /\ SameErrand(r, run[w])
        /\ r.leg = l
    BY ZenonT(60), <1>1, <1>3 DEF Run, Steps, SameErrand
  <1>6. run' = [run EXCEPT ![w] = r]
    BY <1>4
  <1>. HIDE DEF r
  <1>7. Known(r)'
    BY <1>1, <1>2, <1>3, <1>5 DEF Known, Sending, Trying, AlertSteps
  <1>8. lost = 0 => SendIsOpen(r)'
    BY <1>1, <1>2, <1>5 DEF SendIsOpen, Trying
  <1>9. row' = [row EXCEPT ![l] = row[l]] /\ (row[l].status = "sent" => l \in accepted)
    BY <1>2, Before DEF SInv, SentWasAccepted
  <1>. QED
    BY <1>1, <1>2, <1>5, <1>6, <1>7, <1>8, <1>9, SendStep DEF Sending

LEMMA AfterFailureIs ==
    ASSUME NEW q \in Run, NEW retryable \in BOOLEAN
    PROVE  \E r \in Run : /\ r = AfterFailure(q, retryable)
                          /\ r.step \in {"try", "settle"} /\ (r.step = "settle" => ~r.ok)
                          /\ r.late = q.late /\ SameErrand(r, q)
  <1>1. [q EXCEPT !.step = "try"] \in Run /\ [q EXCEPT !.step = "settle", !.ok = FALSE] \in Run
    BY DEF Run, Steps
  <1>. QED BY <1>1 DEF AfterFailure, Run, SameErrand

\* What a handler in the middle of a send knows of its row.
LEMMA Midway ==
    ASSUME SInv, NEW w \in Workers, run[w].step \in Trying
    PROVE  /\ run[w].leg \in Legs /\ row[run[w].leg] \in Row
           /\ row[run[w].leg].status # "absent"
           /\ row[run[w].leg].status = "sent" => run[w].leg \in accepted
           /\ lost = 0 => row[run[w].leg].status # "sent"
           /\ row = [row EXCEPT ![run[w].leg] = row[run[w].leg]]
           /\ kind = "alert" <=> run[w].leg # Own
  BY Before DEF SInv, SentWasAccepted, Known, Alone, SendIsOpen, Trying, Sending

LEMMA TriedIs ==
    ASSUME NEW x \in Row, x.status # "absent"
    PROVE  Tried(x) \in Row /\ Tried(x).status # "absent" /\ (Tried(x).status = "sent" => x.status = "sent")
  BY DEF Tried, Row

LEMMA StartTryKeeps ==
    ASSUME SInv, NEW w \in Workers, StartTry(w), UNCHANGED avars
    PROVE  SInv'
  <1>1. PICK l \in Legs : l = run[w].leg
    BY Before
  <1>2. /\ run[w].step = "try" /\ Known(run[w])
        /\ row[l] \in Row /\ row[l].status # "absent" /\ (row[l].status = "sent" => l \in accepted)
        /\ lost = 0 => row[l].status # "sent"
        /\ row = [row EXCEPT ![l] = row[l]]
        /\ kind = "alert" <=> l # Own
    BY <1>1, Midway, Before DEF StartTry, Trying
  <1>3. UNCHANGED <<kind, job, owner, reachable, accepted, lost, denied, alert, raiser, contact, queue>>
    BY DEF StartTry, avars
  <1>4. PICK q \in Run : q = [run[w] EXCEPT !.try = @ + 1]
    <2>1. PICK p \in Run : p = run[w]
      BY Before
    <2>2. [p EXCEPT !.try = @ + 1] \in Run
      BY DEF Run
    <2>. QED BY <2>1, <2>2
  <1>5. /\ SameErrand(q, run[w]) /\ q.leg = l
    BY <1>1, <1>4, Before DEF SameErrand, Run
  <1>6. CASE row' = [row EXCEPT ![l] = Tried(@)] /\ run' = [run EXCEPT ![w] = [q EXCEPT !.step = "flight"]]
    <2>. DEFINE r == [q EXCEPT !.step = "flight"]
    <2>1. /\ r \in Run /\ r.step = "flight" /\ SameErrand(r, q)
      BY DEF Run, Steps, SameErrand
    <2>2. run' = [run EXCEPT ![w] = r]
      BY <1>6
    <2>. HIDE DEF r
    <2>3. PICK x \in Row : /\ x = Tried(row[l]) /\ x.status # "absent"
                           /\ x.status = "sent" => row[l].status = "sent"
      BY <1>2, TriedIs
    <2>4. row' = [row EXCEPT ![l] = x] /\ row'[l] = x
      BY <1>6, <2>3, Before
    <2>5. SameErrand(r, run[w]) /\ r.leg = l
      BY <1>5, <2>1 DEF SameErrand
    <2>6. Known(r)'
      BY <1>2, <1>3, <2>1, <2>3, <2>4, <2>5 DEF Known, Sending, Trying, AlertSteps
    <2>7. lost = 0 => SendIsOpen(r)'
      BY <1>2, <2>1, <2>3, <2>4, <2>5 DEF SendIsOpen, Trying
    <2>. QED BY <1>1, <1>2, <1>3, <2>1, <2>2, <2>3, <2>4, <2>5, <2>6, <2>7, SendStep DEF Sending
  <1>7. CASE run' = [run EXCEPT ![w] = AfterFailure([q EXCEPT !.late = @ + 1], TRUE)] /\ row' = row
    <2>1. PICK late \in Run : late = [q EXCEPT !.late = @ + 1] /\ SameErrand(late, q)
      <3>1. [q EXCEPT !.late = @ + 1] \in Run
        BY DEF Run
      <3>. QED BY <3>1 DEF Run, SameErrand
    <2>2. PICK r \in Run : /\ r = AfterFailure(late, TRUE)
                           /\ r.step \in {"try", "settle"} /\ (r.step = "settle" => ~r.ok)
                           /\ SameErrand(r, late)
      BY AfterFailureIs
    <2>3. run' = [run EXCEPT ![w] = r]
      BY <1>7, <2>1, <2>2
    <2>4. SameErrand(r, run[w]) /\ r.leg = l
      BY <1>5, <2>1, <2>2 DEF SameErrand
    <2>5. Known(r)'
      BY <1>2, <1>3, <1>7, <2>2, <2>4 DEF Known, Sending, Trying, AlertSteps
    <2>6. lost = 0 => SendIsOpen(r)'
      BY <1>2, <1>7, <2>2, <2>4 DEF SendIsOpen, Trying
    <2>. QED BY <1>1, <1>2, <1>3, <1>7, <2>2, <2>3, <2>4, <2>5, <2>6, SendStep DEF Sending
  <1>8. CASE /\ row' \in {row, [row EXCEPT ![l] = Tried(@)]}
             /\ run' = [run EXCEPT ![w] = AfterFailure(q, TRUE)]
    <2>1. PICK r \in Run : /\ r = AfterFailure(q, TRUE)
                           /\ r.step \in {"try", "settle"} /\ (r.step = "settle" => ~r.ok)
                           /\ SameErrand(r, q)
      BY AfterFailureIs
    <2>2. run' = [run EXCEPT ![w] = r]
      BY <1>8, <2>1
    <2>3. SameErrand(r, run[w]) /\ r.leg = l
      BY <1>5, <2>1 DEF SameErrand
    <2>4. PICK y \in Row : /\ y = Tried(row[l]) /\ y.status # "absent"
                           /\ y.status = "sent" => row[l].status = "sent"
      BY <1>2, TriedIs
    <2>5. PICK x \in {row[l], y} : row' = [row EXCEPT ![l] = x] /\ row'[l] = x
      BY <1>2, <1>8, <2>4, Before
    <2>6. x \in Row /\ x.status # "absent" /\ (x.status = "sent" => row[l].status = "sent")
      BY <1>2, <2>4, <2>5
    <2>7. Known(r)'
      BY <1>2, <1>3, <2>1, <2>3, <2>5, <2>6 DEF Known, Sending, Trying, AlertSteps
    <2>8. lost = 0 => SendIsOpen(r)'
      BY <1>2, <2>1, <2>3, <2>5, <2>6 DEF SendIsOpen, Trying
    <2>. QED BY <1>1, <1>2, <1>3, <2>1, <2>2, <2>3, <2>5, <2>6, <2>7, <2>8, SendStep DEF Sending
  <1>. QED
    BY <1>1, <1>4, <1>6, <1>7, <1>8 DEF StartTry

LEMMA RefusedKeeps ==
    ASSUME SInv, NEW w \in Workers, NEW retryable \in BOOLEAN,
           Refused(w, retryable) \/ (TimedOut(w) /\ retryable = TRUE), UNCHANGED avars
    PROVE  SInv'
  <1>1. PICK l \in Legs : l = run[w].leg
    BY Before
  <1>2. run[w].step = "flight" /\ row' = row /\ accepted \subseteq accepted'
    BY <1>1 DEF Refused, TimedOut, MaybeAccepted
  <1>3. /\ Known(run[w])
        /\ row[l] \in Row /\ row[l].status # "absent" /\ (row[l].status = "sent" => l \in accepted)
        /\ lost = 0 => row[l].status # "sent"
        /\ row = [row EXCEPT ![l] = row[l]]
        /\ kind = "alert" <=> l # Own
    BY <1>1, <1>2, Midway, Before DEF Trying
  <1>4. UNCHANGED <<kind, job, owner, reachable, lost, denied, alert, raiser, contact, queue>>
    BY DEF Refused, TimedOut, avars
  <1>5. PICK q \in Run : q = run[w]
    BY Before
  <1>6. PICK r \in Run : /\ r = AfterFailure(q, retryable)
                         /\ r.step \in {"try", "settle"} /\ (r.step = "settle" => ~r.ok)
                         /\ SameErrand(r, q)
    BY AfterFailureIs
  <1>7. run' = [run EXCEPT ![w] = r] /\ SameErrand(r, run[w]) /\ r.leg = l
    BY <1>1, <1>5, <1>6, Before DEF Refused, TimedOut, SameErrand
  <1>8. Known(r)'
    BY <1>2, <1>3, <1>4, <1>6, <1>7 DEF Known, Sending, Trying, AlertSteps
  <1>9. lost = 0 => SendIsOpen(r)'
    BY <1>2, <1>3, <1>6, <1>7 DEF SendIsOpen, Trying
  <1>. QED BY <1>1, <1>2, <1>3, <1>4, <1>6, <1>7, <1>8, <1>9, SendStep DEF Sending

LEMMA AcceptedKeeps ==
    ASSUME SInv, NEW w \in Workers, Accepted(w), UNCHANGED avars
    PROVE  SInv'
  <1>1. PICK l \in Legs : l = run[w].leg
    BY Before
  <1>2. /\ run[w].step = "flight" /\ row' = row /\ accepted' = accepted \cup {l}
        /\ GoWith(w, "settle", TRUE) /\ "settle" \in Steps
        /\ UNCHANGED <<kind, job, owner, reachable, lost, denied, alert, raiser, contact, queue>>
    BY <1>1 DEF Accepted, avars, Steps
  <1>3. /\ Known(run[w])
        /\ row[l] \in Row /\ row[l].status # "absent" /\ (row[l].status = "sent" => l \in accepted)
        /\ lost = 0 => row[l].status # "sent"
        /\ row = [row EXCEPT ![l] = row[l]]
        /\ kind = "alert" <=> l # Own
    BY <1>1, <1>2, Midway, Before DEF Trying
  <1>4. PICK r \in Run : /\ run' = [run EXCEPT ![w] = r] /\ SameErrand(r, run[w])
                         /\ r.step = "settle" /\ r.leg = l
    <2>1. PICK q \in Run : q = run[w]
      BY Before
    <2>2. [q EXCEPT !.step = "settle", !.ok = TRUE] \in Run
      BY DEF Run, Steps
    <2>3. run' = [run EXCEPT ![w] = [q EXCEPT !.step = "settle", !.ok = TRUE]]
      BY <1>2, <2>1, Before DEF GoWith
    <2>. QED BY <2>1, <2>2, <2>3, <1>1 DEF SameErrand, Run
  <1>5. Known(r)'
    BY <1>2, <1>3, <1>4 DEF Known, Sending, Trying, AlertSteps
  <1>6. lost = 0 => SendIsOpen(r)'
    BY <1>2, <1>3, <1>4 DEF SendIsOpen, Trying
  <1>. QED BY <1>1, <1>2, <1>3, <1>4, <1>5, <1>6, SendStep DEF Sending

LEMMA MarkResultKeeps ==
    ASSUME SInv, NEW w \in Workers, MarkResult(w), UNCHANGED avars
    PROVE  SInv'
  <1>1. PICK l \in Legs : l = run[w].leg
    BY Before
  <1>2. /\ run[w].step = "settle" /\ run[w].late = 0
        /\ Go(w, "returned") /\ "returned" \in Steps
        /\ UNCHANGED <<kind, job, owner, reachable, accepted, lost, denied, alert, raiser, contact, queue>>
    BY <1>1 DEF MarkResult, avars, Steps
  <1>3. /\ Known(run[w])
        /\ row[l] \in Row /\ row[l].status # "absent"
        /\ lost = 0 => row[l].status # "sent"
        /\ kind = "alert" <=> l # Own
        /\ run[w].ok => l \in accepted
    BY <1>1, <1>2, Midway, Before DEF Trying, Known
  <1>4. PICK r \in Run : /\ run' = [run EXCEPT ![w] = r] /\ SameErrand(r, run[w])
                         /\ r.step = "returned" /\ r.leg = l /\ r.late = 0 /\ r.ok = run[w].ok
    BY <1>1, <1>2, GoIs DEF SameErrand
  <1>5. PICK x \in Row : /\ x = [row[l] EXCEPT !.status = IF run[w].ok THEN "sent" ELSE "failed"]
                         /\ x.status = IF run[w].ok THEN "sent" ELSE "failed"
    <2>1. PICK y \in Row : y = row[l]
      BY <1>3
    <2>2. PICK s \in {"sent", "failed"} : s = IF run[w].ok THEN "sent" ELSE "failed"
      OBVIOUS
    <2>3. [y EXCEPT !.status = s] \in Row /\ [y EXCEPT !.status = s].status = s
      BY DEF Row, Terminal
    <2>. QED BY <2>1, <2>2, <2>3
  <1>6. row' = [row EXCEPT ![l] = x] /\ row'[l] = x
    BY <1>1, <1>5, Before DEF MarkResult, Closed
  <1>7. Known(r)'
    BY <1>2, <1>3, <1>4, <1>5, <1>6 DEF Known, Sending, Trying, AlertSteps
  <1>8. SendIsOpen(r)'
    BY <1>4, <1>5, <1>6 DEF SendIsOpen, Trying
  <1>9. /\ x.status # "absent" /\ accepted \subseteq accepted'
        /\ x.status = "sent" => l \in accepted'
        /\ run[w].step \in Sending /\ r.step \in Sending
    BY <1>2, <1>3, <1>4, <1>5 DEF Sending
  <1>. QED BY <1>1, <1>2, <1>3, <1>4, <1>6, <1>7, <1>8, <1>9, SendStep

\* The write of a try that was abandoned: the send goes on where it was.
LEMMA LateWriteKeeps ==
    ASSUME SInv, NEW w \in Workers, LateWrite(w), UNCHANGED avars
    PROVE  SInv'
  <1>1. PICK l \in Legs : l = run[w].leg
    BY Before
  <1>2. /\ run[w].late > 0 /\ accepted \subseteq accepted'
        /\ UNCHANGED <<kind, job, owner, reachable, lost, denied, alert, raiser, contact, queue>>
    BY <1>1 DEF LateWrite, avars, MaybeAccepted
  <1>3. /\ Known(run[w]) /\ run[w].step \in {"try", "flight", "settle"}
    BY <1>2, Before DEF Known
  <1>4. /\ row[l] \in Row /\ row[l].status # "absent" /\ (row[l].status = "sent" => l \in accepted)
        /\ lost = 0 => row[l].status # "sent"
        /\ kind = "alert" <=> l # Own
    BY <1>1, <1>3, Midway DEF Trying
  <1>5. PICK q \in Run : q = run[w]
    BY Before
  <1>. DEFINE r == [q EXCEPT !.late = @ - 1]
  <1>6. /\ r \in Run /\ r.step = q.step /\ r.ok = q.ok /\ SameErrand(r, q)
    BY <1>2, <1>5 DEF Run, SameErrand
  <1>7. run' = [run EXCEPT ![w] = r]
    BY <1>5, Before DEF LateWrite
  <1>. HIDE DEF r
  <1>8. PICK x \in Row : /\ row' = [row EXCEPT ![l] = x] /\ x.status # "absent"
                         /\ x.status = "sent" => row[l].status = "sent"
    <2>1. PICK y \in Row : /\ y = Tried(row[l]) /\ y.status # "absent"
                           /\ y.status = "sent" => row[l].status = "sent"
      BY <1>4, TriedIs
    <2>2. row = [row EXCEPT ![l] = row[l]]
      BY Before
    <2>. QED BY <1>1, <1>4, <2>1, <2>2 DEF LateWrite
  <1>9. row'[l] = x /\ r.leg = l /\ SameErrand(r, run[w])
    BY <1>1, <1>5, <1>6, <1>8, Before DEF SameErrand
  <1>10. Known(r)'
    BY <1>1, <1>2, <1>3, <1>4, <1>5, <1>6, <1>8, <1>9 DEF Known, Sending, Trying, AlertSteps
  <1>11. lost = 0 => SendIsOpen(r)'
    BY <1>3, <1>4, <1>5, <1>6, <1>8, <1>9 DEF SendIsOpen, Trying
  <1>. QED
    BY <1>1, <1>2, <1>3, <1>4, <1>5, <1>6, <1>7, <1>8, <1>9, <1>10, <1>11, SendStep DEF Sending

-----------------------------------------------------------------------------
(* The end of a handler.                                                   *)

LEMMA OneMessageKeeps ==
    ASSUME SInv, NEW w \in Workers, BookingNotification(w) \/ EmailVerification(w),
           UNCHANGED avars
    PROVE  SInv'
  <1>1. /\ kind # "alert" /\ run[w].step = "returned"
        /\ Known(run[w]) /\ (lost = 0 => Alone(run[w]))
        /\ Go(w, "end") /\ "end" \in Steps
        /\ alert' = alert /\ queue' = queue /\ raiser' = raiser /\ contact' = contact
        /\ UNCHANGED <<kind, job, owner, row, reachable, accepted, lost, denied>>
    BY Before DEF BookingNotification, EmailVerification, avars, Steps
  <1>2. PICK r \in Run : /\ run' = [run EXCEPT ![w] = r]
                         /\ r.step = "end" /\ r.late = run[w].late
                         /\ r.attempt = run[w].attempt
    BY <1>1, GoIs
  <1>3. Known(r)
    BY <1>1, <1>2 DEF Known, AlertSteps, Sending, Trying
  <1>4. ASSUME lost = 0 PROVE Alone(r)
    <2>1. run[w].leg = Own /\ row[Own].status \in {"sent", "failed"}
      BY <1>1, <1>4, Before DEF Known, Sending, Alone, SendIsOpen
    <2>2. Recorded(Own)
      BY <2>1 DEF Recorded, Terminal
    <2>. QED BY <1>1, <1>2, <1>4, <2>2 DEF Alone, SendIsOpen, Trying
  <1>. QED BY <1>1, <1>2, <1>3, <1>4, QuietStep DEF SInv, Types

\* The alert is marked, or a statement that marks it fails, and the handler
\* comes to its end.
LEMMA AlertEnds ==
    ASSUME SInv, NEW w \in Workers, kind = "alert",
           run[w].step \in {"load", "pick", "nochannel", "deliver", "refuse"},
           NEW r \in Run, run' = [run EXCEPT ![w] = r], r.step = "end",
           r.late = run[w].late, r.attempt = run[w].attempt,
           NEW s \in {"no_channel", "delivered", "failed", "retrying"}, alert' \in {alert, Marked(s)},
           s = "delivered" => Contact \in accepted,
           denied' \in {"nothing", "statement", "record"},
           UNCHANGED <<kind, job, owner, row, reachable, accepted, lost, raiser, contact, queue>>,
           lost = 0 /\ ~r.ok /\ r.attempt >= MaxAttempts => AlertRecorded',
           lost = 0 /\ (denied' = "nothing" \/ s \in {"delivered", "no_channel"})
             => \A l \in Legs : Recorded(l)
    PROVE  SInv'
  <1>1. Known(run[w]) /\ (lost = 0 => Alone(run[w]))
    BY Before
  <1>2. alert' = s \/ alert' = alert
    BY DEF Marked
  <1>3. Types'
    BY <1>2 DEF SInv, Types
  <1>4. RowsOfKind' /\ SentWasAccepted'
    BY <1>2 DEF SInv, RowsOfKind, SentWasAccepted
  <1>5. Known(r)'
    BY <1>1 DEF Known, Sending, Trying, AlertSteps
  <1>6. ASSUME lost = 0 PROVE Between' /\ Alone(r)'
    <2>1. run[w].attempt = job.attempts + 1 /\ Between
      BY <1>1, <1>6 DEF Alone, SInv, Undisturbed
    <2>2. (\A l \in Legs : Recorded(l)) => \A l \in Legs : Recorded(l)'
      BY DEF Recorded
    <2>3. alert # "absent"
      BY <1>6, NobodyAssumption DEF SInv, Types, Undisturbed, Between, OneHandler
    <2>4. Between'
      BY <1>2, <1>6, <2>1, <2>2, <2>3 DEF Between, AllSent
    <2>5. Alone(r)'
      BY <1>6, <2>1, <2>2 DEF Alone, SendIsOpen, LegsInOrder, LegsAreDone, Sending, Trying
    <2>. QED BY <2>4, <2>5
  <1>. QED BY <1>3, <1>4, <1>5, <1>6, HandlerStep

LEMMA MarksKeep ==
    ASSUME SInv, NEW w \in Workers,
           MarkNoChannel(w) \/ MarkDelivered(w) \/ MarkDeliveryFailure(w)
    PROVE  SInv'
  <1>1. /\ run[w].step \in {"nochannel", "deliver", "refuse"}
        /\ Known(run[w]) /\ (lost = 0 => Alone(run[w]))
        /\ UNCHANGED <<kind, job, owner, row, reachable, accepted, lost, denied, raiser, contact, queue>>
    BY Before DEF MarkNoChannel, MarkDelivered, MarkDeliveryFailure, Here
  <1>2. kind = "alert"
    BY <1>1 DEF Known, AlertSteps
  <1>3. PICK ok \in BOOLEAN, s \in {"no_channel", "delivered", "failed", "retrying"} :
            /\ GoWith(w, "end", ok) /\ alert' = Marked(s)
            /\ s = "delivered" => run[w].step = "deliver"
            /\ s = "no_channel" => run[w].step = "nochannel"
            /\ ~ok => run[w].step = "refuse"
            /\ ~ok => s = IF run[w].attempt >= MaxAttempts THEN "failed" ELSE "retrying"
    <2>1. CASE MarkNoChannel(w)
      BY <2>1 DEF MarkNoChannel
    <2>2. CASE MarkDelivered(w)
      BY <2>2 DEF MarkDelivered
    <2>3. CASE MarkDeliveryFailure(w)
      <3>1. PICK s \in {"failed", "retrying"} :
                s = IF run[w].attempt >= MaxAttempts THEN "failed" ELSE "retrying"
        OBVIOUS
      <3>. QED BY <2>3, <3>1 DEF MarkDeliveryFailure
    <2>. QED BY <2>1, <2>2, <2>3
  <1>4. PICK r \in Run : /\ run' = [run EXCEPT ![w] = r]
                         /\ r.step = "end" /\ r.late = run[w].late
                         /\ r.attempt = run[w].attempt /\ r.ok = ok
    <2>1. GoWith(w, "end", ok) /\ "end" \in Steps
      BY <1>3 DEF Steps
    <2>. QED BY <2>1, GoWithIs
  <1>5. s = "delivered" => Contact \in accepted
    BY <1>1, <1>3 DEF Known
  <1>6. lost = 0 /\ (denied' = "nothing" \/ s \in {"delivered", "no_channel"})
          => \A l \in Legs : Recorded(l)
    <2>1. lost = 0 => LegsAreDone(run[w])
      BY <1>1, <1>2 DEF Alone
    <2>2. denied' = denied
      BY <1>1
    <2>. QED BY <1>1, <1>3, <2>1, <2>2 DEF LegsAreDone
  <1>7. lost = 0 /\ ~r.ok /\ r.attempt >= MaxAttempts => AlertRecorded'
    <2>1. lost = 0 /\ ~ok /\ alert = "delivered" => denied = "statement"
      BY <1>1, <1>2, <1>3 DEF Alone, LegsAreDone
    <2>. QED BY <1>1, <1>3, <1>4, <2>1 DEF AlertRecorded, Marked
  <1>8. denied' \in {"nothing", "statement", "record"}
    BY <1>1 DEF SInv, Types
  <1>. QED BY <1>1, <1>2, <1>3, <1>4, <1>5, <1>6, <1>7, <1>8, AlertEnds

LEMMA ToContactKeeps ==
    ASSUME SInv, NEW w \in Workers, ToContact(w)
    PROVE  SInv'
  <1>1. /\ run[w].step = "pick" /\ run[w].todo = {} /\ run[w].bad = FALSE
        /\ Known(run[w]) /\ (lost = 0 => Alone(run[w]))
        /\ UNCHANGED <<kind, job, owner, reachable, accepted, lost, denied, raiser, contact, queue>>
    BY Before DEF ToContact
  <1>2. kind = "alert"
    BY <1>1 DEF Known, AlertSteps
  <1>3. row \in [Legs -> Row] /\ Contact \in Legs /\ Moderators \subseteq Legs /\ row[Own] = NoRow
    BY <1>2, Before DEF Legs, SInv, RowsOfKind
  <1>4. lost = 0 => /\ LegsInOrder(run[w]) /\ Between /\ run[w].attempt = job.attempts + 1
                    /\ \A m \in Moderators : row[m].status = "sent" \/ ~reachable
                    /\ alert \notin {"delivered", "no_channel"}
    BY <1>1, <1>2 DEF Alone, LegsInOrder, Sending, SInv, Undisturbed, Notified
  <1>5. CASE /\ run[w].contact = "garbled" /\ alert' = Marked("failed")
             /\ GoWith(w, "end", FALSE) /\ UNCHANGED row
    <2>1. PICK r \in Run : /\ run' = [run EXCEPT ![w] = r]
                           /\ r.step = "end" /\ r.late = run[w].late
                           /\ r.attempt = run[w].attempt
      <3>1. PICK q \in Run : q = run[w]
        BY Before
      <3>2. [q EXCEPT !.step = "end", !.ok = FALSE] \in Run
        BY DEF Run, Steps
      <3>3. run' = [run EXCEPT ![w] = [q EXCEPT !.step = "end", !.ok = FALSE]]
        BY <1>5, <3>1, Before DEF GoWith
      <3>. QED BY <3>1, <3>2, <3>3 DEF Run
    <2>2. lost = 0 => \A l \in Legs : Recorded(l)
      BY <1>1, <1>3, <1>4, <1>5 DEF LegsInOrder, Recorded, Legs, Terminal
    <2>3. lost = 0 => AlertRecorded'
      BY <1>4, <1>5 DEF AlertRecorded, Marked
    <2>4. denied' \in {"nothing", "statement", "record"}
      BY <1>1 DEF SInv, Types
    <2>. QED BY <1>1, <1>2, <1>5, <2>1, <2>2, <2>3, <2>4, AlertEnds
  <1>6. CASE /\ run[w].contact = "none" /\ Go(w, "nochannel") /\ UNCHANGED alert
             /\ row' = IF run[w].raiser THEN NoChannelRow ELSE row
    <2>1. PICK r \in Run : /\ run' = [run EXCEPT ![w] = r]
                           /\ r.step = "nochannel" /\ r.late = run[w].late
                           /\ r.attempt = run[w].attempt /\ r.contact = run[w].contact
                           /\ r.raiser = run[w].raiser
      <3>1. Go(w, "nochannel") /\ "nochannel" \in Steps
        BY <1>6 DEF Steps
      <3>. QED BY <3>1, GoIs
    <2>2. PICK x \in Row : x = [Created(Contact) EXCEPT !.status = "no_channel"]
                           /\ x.status = "no_channel"
      <3>1. PICK y \in Row : y = row[Contact]
        BY <1>3
      <3>2. PICK c \in Row : c = Created(Contact)
        BY <3>1 DEF Created, Row
      <3>3. [c EXCEPT !.status = "no_channel"] \in Row
        BY DEF Row, Terminal
      <3>. QED BY <3>2, <3>3 DEF Row
    <2>3. \A l \in Legs : row'[l] = IF l = Contact /\ run[w].raiser THEN x ELSE row[l]
      BY <1>3, <1>6, <2>2 DEF NoChannelRow, ContactRow
    <2>4. Types'
      BY <1>1, <1>3, <1>6, <2>1, <2>2 DEF SInv, Types, NoChannelRow, ContactRow
    <2>5. RowsOfKind' /\ SentWasAccepted'
      BY <1>1, <1>2, <1>6, <2>2, <2>3, NotificationsAssumption DEF SInv, RowsOfKind, SentWasAccepted
    <2>6. Known(r)'
      BY <1>1, <1>2, <2>1 DEF Known, Sending, Trying, AlertSteps
    <2>7. ASSUME lost = 0 PROVE Between' /\ Alone(r)'
      <3>1. /\ contact # "garbled" /\ (~run[w].raiser => ~raiser)
            /\ alert' \notin {"delivered", "no_channel"}
        BY <1>1, <1>4, <1>6, <2>7 DEF LegsInOrder
      <3>2. \A m \in Moderators : row'[m] = row[m]
        BY <1>3, <2>3, NotificationsAssumption
      <3>3. Between'
        BY <1>1, <1>4, <1>6, <2>7, <3>1, <3>2 DEF Between, AllSent
      <3>4. \A l \in Legs : Recorded(l)'
        BY <1>1, <1>3, <1>4, <2>2, <2>3, <2>7, <3>1, <3>2, NotificationsAssumption
           DEF Recorded, Legs, Terminal
      <3>5. LegsInOrder(r)'
        BY <1>1, <1>6, <2>1, <3>1 DEF LegsInOrder, Sending
      <3>. QED BY <1>1, <1>2, <1>4, <2>1, <2>7, <3>3, <3>4, <3>5
               DEF Alone, SendIsOpen, LegsAreDone, Trying
    <2>8. \A l \in Legs : row[l].status # "absent" => row'[l].status # "absent"
      BY <2>2, <2>3
    <2>. QED BY <1>1, <2>1, <2>4, <2>5, <2>6, <2>7, <2>8, HandlerStep
  <1>7. CASE /\ run[w].contact = "set" /\ UNCHANGED <<alert, row>>
             /\ run' = [run EXCEPT ![w].step = "begin", ![w].leg = Contact]
    <2>1. PICK q \in Run : q = run[w]
      BY Before
    <2>. DEFINE r == [q EXCEPT !.step = "begin", !.leg = Contact]
    <2>2. /\ r \in Run /\ r.step = "begin" /\ r.leg = Contact /\ r.late = q.late
          /\ r.attempt = q.attempt /\ r.todo = q.todo /\ r.bad = q.bad
          /\ r.contact = q.contact /\ r.raiser = q.raiser
      BY <1>3 DEF Run, Steps
    <2>3. run' = [run EXCEPT ![w] = r]
      BY <1>7, <2>1, Before
    <2>. HIDE DEF r
    <2>4. Known(r)
      BY <1>1, <1>2, <2>1, <2>2, NotificationsAssumption DEF Known, Sending, Trying, AlertSteps
    <2>5. ASSUME lost = 0 PROVE Alone(r)
      <3>1. LegsInOrder(r)
        BY <1>1, <1>4, <1>7, <2>1, <2>2, <2>5 DEF LegsInOrder, Sending, Notified
      <3>. QED BY <1>2, <1>4, <2>1, <2>2, <2>5, <3>1 DEF Alone, SendIsOpen, LegsAreDone, Trying
    <2>. QED BY <1>1, <1>7, <2>2, <2>3, <2>4, <2>5, QuietStep DEF SInv, Types
  <1>. QED BY <1>5, <1>6, <1>7 DEF ToContact

-----------------------------------------------------------------------------
(* The statements that fail.                                               *)

\* A handler that goes to its catch, or to its end, has nothing to say of the
\* rows: those of other messages are what they were, and the row of its own,
\* x, is none that the order of the legs speaks of.
LEMMA Throws ==
    ASSUME SInv, NEW w \in Workers, run[w].step # "idle",
           NEW r \in Run, run' = [run EXCEPT ![w] = r], SameErrand(r, run[w]), r.late = 0,
           r.step = (IF kind = "alert" THEN "refuse" ELSE "end"), ~r.ok \/ kind = "alert",
           denied' = "statement",
           NEW l \in Legs, kind = "alert" <=> l # Own,
           NEW x \in Row, row' = [row EXCEPT ![l] = x],
           x = row[l] \/ x.status # "absent", x.status = "sent" => l \in accepted,
           lost = 0 /\ x # row[l] => /\ l = Contact \/ row[l].status # "sent"
                                     /\ l = Contact => /\ AllSent \/ ~reachable
                                                       /\ contact # "garbled"
                                                       /\ run[w].contact # "garbled",
           lost = 0 /\ kind = "alert" => run[w].step \notin {"load", "refuse", "end"},
           alert' \in {"absent", "pending", "retrying", "delivered", "failed", "no_channel"},
           kind # "alert" => alert' = alert, alert # "absent" => alert' # "absent",
           alert' = "delivered" => Contact \in accepted,
           lost = 0 /\ alert' # alert /\ alert' \in {"delivered", "no_channel"}
             => x = row[l] /\ \A k \in Legs : Recorded(k),
           queue' \in {"none", "open", "resolved"},
           UNCHANGED <<kind, job, owner, reachable, accepted, lost, raiser, contact>>
    PROVE  SInv'
  <1>1. /\ row \in [Legs -> Row] /\ (lost = 0 => Alone(run[w])) /\ run[w].leg \in Legs
        /\ Contact \in Legs /\ Moderators \subseteq Legs /\ row[l] \in Row
    BY Before DEF Legs
  <1>2. \A k \in Legs : row'[k] = IF k = l THEN x ELSE row[k]
    BY <1>1
  <1>3. Types'
    BY <1>1 DEF SInv, Types
  <1>4. RowsOfKind'
    BY <1>1, <1>2 DEF SInv, RowsOfKind
  <1>5. SentWasAccepted'
    BY <1>2 DEF SInv, SentWasAccepted
  <1>6. Known(r)'
    BY DEF Known, Sending, Trying, AlertSteps
  <1>7. ASSUME lost = 0 PROVE Between' /\ Alone(r)'
    <2>1. Between /\ Alone(run[w])
      BY <1>1, <1>7 DEF SInv, Undisturbed
    <2>2. AllSent => AllSent'
      BY <1>1, <1>2, <1>7, NotificationsAssumption DEF AllSent
    <2>3. row'[Contact] = row[Contact] \/ ((AllSent \/ ~reachable) /\ contact # "garbled" /\ run[w].contact # "garbled")
      BY <1>1, <1>2, <1>7
    <2>4. row'[Contact] = NoRow \/ AllSent' \/ ~reachable'
      BY <2>1, <2>2, <2>3 DEF Between
    <2>5. contact' = "garbled" => row'[Contact] = NoRow
      BY <2>1, <2>3 DEF Between
    <2>6. alert' \in {"delivered", "no_channel"} => \A k \in Legs : Recorded(k)'
      <3>1. CASE kind = "alert" /\ alert' = alert
        BY <1>1, <1>7, <2>1, <3>1 DEF Alone, LegsInOrder
      <3>2. CASE kind # "alert"
        BY <3>2 DEF SInv, Types
      <3>3. CASE alert' # alert
        BY <1>1, <1>2, <1>7, <3>3 DEF Recorded
      <3>. QED BY <3>1, <3>2, <3>3
    <2>7. Between'
      BY <2>1, <2>4, <2>5, <2>6 DEF Between
    <2>8. kind = "alert" => LegsInOrder(r)'
      BY <1>7, <2>1, <2>3 DEF Alone, LegsInOrder, SameErrand, Sending
    <2>9. Alone(r)'
      BY <2>1, <2>8 DEF Alone, SendIsOpen, LegsAreDone, SameErrand, Trying
    <2>. QED BY <2>7, <2>9
  <1>8. \A k \in Legs : row[k].status # "absent" => row'[k].status # "absent"
    BY <1>1, <1>2
  <1>9. r.step # "idle"
    OBVIOUS
  <1>. QED BY <1>3, <1>4, <1>5, <1>6, <1>7, <1>8, <1>9, HandlerStep

LEMMA SendThrowsKeeps ==
    ASSUME SInv, NEW w \in Workers, SendThrows(w), UNCHANGED avars
    PROVE  SInv'
  <1>1. PICK l \in Legs : l = run[w].leg
    BY Before
  <1>2. /\ run[w].step \in {"begin", "resolve", "settle"} /\ run[w].late \in Nat
        /\ (run[w].step = "settle" => run[w].late = 0)
        /\ Known(run[w]) /\ (lost = 0 => Alone(run[w]))
        /\ denied' = "statement"
        /\ UNCHANGED <<kind, job, owner, reachable, accepted, lost, alert, raiser, contact, queue>>
    BY Before DEF SendThrows, Denied, avars
  <1>3. run[w].late = 0 /\ (kind = "alert" <=> l # Own)
    BY <1>1, <1>2 DEF Known, Sending
  <1>4. PICK r \in Run : /\ run' = [run EXCEPT ![w] = r] /\ SameErrand(r, run[w]) /\ r.late = 0
                         /\ r.step = (IF kind = "alert" THEN "refuse" ELSE "end") /\ ~r.ok
    <2>1. PICK step \in {"refuse", "end"} : step = IF kind = "alert" THEN "refuse" ELSE "end"
      OBVIOUS
    <2>2. GoWith(w, step, FALSE) /\ step \in Steps
      BY <2>1 DEF SendThrows, Steps
    <2>. QED BY <1>3, <2>1, <2>2, GoWithIs DEF SameErrand
  <1>5. row \in [Legs -> Row] /\ row[l] \in Row /\ row = [row EXCEPT ![l] = row[l]]
    BY <1>1, Before
  <1>6. PICK x \in Row : /\ row' = [row EXCEPT ![l] = x]
                         /\ x = row[l] \/ x.status # "absent"
                         /\ x.status = "sent" => l \in accepted
                         /\ lost = 0 /\ x # row[l] => row[l].status # "sent"
    <2>1. CASE row' = row
      BY <1>5, <2>1 DEF SInv, SentWasAccepted
    <2>2. CASE run[w].step = "begin" /\ row' = [row EXCEPT ![l] = Created(l)]
      <3>1. CASE row[l] = NoRow
        <4>1. Created(l) \in Row /\ Created(l).status = "pending" /\ row[l].status = "absent"
          BY <3>1 DEF Created, Row, NoRow
        <4>. QED BY <2>2, <4>1
      <3>2. CASE row[l] # NoRow
        BY <1>5, <2>2, <3>2 DEF Created, SInv, SentWasAccepted
      <3>. QED BY <3>1, <3>2
    <2>3. CASE run[w].step = "settle" /\ row' = Closed(l, run[w].ok)
      <3>1. PICK y \in Row : y = row[l]
        BY <1>5
      <3>2. PICK s \in {"sent", "failed"} : s = IF run[w].ok THEN "sent" ELSE "failed"
        OBVIOUS
      <3>3. [y EXCEPT !.status = s] \in Row /\ [y EXCEPT !.status = s].status = s
        BY DEF Row, Terminal
      <3>4. row' = [row EXCEPT ![l] = [y EXCEPT !.status = s]]
        BY <1>5, <2>3, <3>1, <3>2 DEF Closed
      <3>5. run[w].ok => l \in accepted
        BY <1>1, <1>2, <2>3 DEF Known
      <3>6. lost = 0 => row[l].status # "sent"
        BY <1>1, <2>3, Midway DEF Trying
      <3>. QED BY <3>2, <3>3, <3>4, <3>5, <3>6
    <2>. QED BY <1>1, <2>1, <2>2, <2>3 DEF SendThrows
  <1>7. lost = 0 /\ l = Contact => /\ AllSent \/ ~reachable
                                   /\ contact # "garbled" /\ run[w].contact # "garbled"
    BY <1>1, <1>2, <1>3, NotificationsAssumption
       DEF Alone, LegsInOrder, Sending, AllSent, Notified
  <1>8. /\ alert' \in {"absent", "pending", "retrying", "delivered", "failed", "no_channel"}
        /\ queue' \in {"none", "open", "resolved"}
        /\ alert = "delivered" => Contact \in accepted
    BY <1>2 DEF SInv, Types, SentWasAccepted
  <1>. QED BY <1>1, <1>2, <1>3, <1>4, <1>5, <1>6, <1>7, <1>8, Throws

LEMMA StatementFailsKeeps ==
    ASSUME SInv, NEW w \in Workers, StatementFails(w)
    PROVE  SInv'
  <1>1. /\ run[w].step \in {"file", "mods", "pick", "nochannel", "deliver"}
        /\ Known(run[w]) /\ (lost = 0 => Alone(run[w])) /\ run[w].late \in Nat
        /\ denied' = "statement" /\ Go(w, "refuse") /\ "refuse" \in Steps
        /\ UNCHANGED <<kind, job, owner, reachable, accepted, lost, raiser, contact>>
    BY Before DEF StatementFails, Denied, Steps
  <1>2. kind = "alert" /\ run[w].late = 0 /\ Contact \in Legs /\ Contact # Own
    BY <1>1, NotificationsAssumption DEF Known, AlertSteps, Legs
  <1>3. PICK r \in Run : /\ run' = [run EXCEPT ![w] = r] /\ SameErrand(r, run[w]) /\ r.late = 0
                         /\ r.step = "refuse"
    BY <1>1, <1>2, GoIs DEF SameErrand
  <1>4. /\ row \in [Legs -> Row] /\ row[Contact] \in Row /\ row = [row EXCEPT ![Contact] = row[Contact]]
        /\ row[Contact].status = "sent" => Contact \in accepted
        /\ queue' \in {"none", "open", "resolved"}
    BY <1>2, Before DEF SInv, SentWasAccepted, StatementFails, Types
  <1>5. CASE row' = row
    <2>1. PICK s \in {"failed", "no_channel", "delivered"} :
              /\ alert' \in {alert, Marked(s)}
              /\ s = "delivered" => run[w].step = "deliver"
              /\ s = "no_channel" => run[w].step = "nochannel"
      BY DEF StatementFails
    <2>2. alert' = alert \/ alert' = s
      BY <2>1 DEF Marked
    <2>3. /\ alert' \in {"absent", "pending", "retrying", "delivered", "failed", "no_channel"}
          /\ alert # "absent" => alert' # "absent"
          /\ alert' = "delivered" => Contact \in accepted
      BY <1>1, <2>1, <2>2 DEF SInv, Types, SentWasAccepted, Known
    <2>4. lost = 0 /\ alert' # alert /\ alert' \in {"delivered", "no_channel"}
            => \A k \in Legs : Recorded(k)
      <3>1. lost = 0 => LegsAreDone(run[w])
        BY <1>1, <1>2 DEF Alone
      <3>. QED BY <2>1, <2>2, <3>1 DEF LegsAreDone
    <2>. QED BY <1>1, <1>2, <1>3, <1>4, <1>5, <2>3, <2>4, Throws
  <1>6. CASE /\ run[w].step = "pick" /\ run[w].todo = {} /\ ~run[w].bad
             /\ run[w].contact = "none" /\ run[w].raiser
             /\ row' \in {ContactRow(Created(Contact)), NoChannelRow} /\ row' # row /\ alert' = alert
    <2>1. PICK c \in Row : c = Created(Contact) /\ c.status # "absent"
                           /\ (c.status = "sent" => row[Contact].status = "sent")
                           /\ (row[Contact].status = "sent" => c = row[Contact])
      <3>1. CASE row[Contact] = NoRow
        <4>1. [status |-> "pending", tried |-> FALSE] \in Row
          BY DEF Row
        <4>2. row[Contact].status = "absent"
          BY <3>1 DEF NoRow
        <4>. QED BY <3>1, <4>1, <4>2 DEF Created
      <3>2. CASE row[Contact] # NoRow
        <4>1. row[Contact].status # "absent"
          BY <1>2, <3>2 DEF SInv, RowsOfKind
        <4>. QED BY <1>4, <3>2, <4>1 DEF Created
      <3>. QED BY <3>1, <3>2
    <2>2. [c EXCEPT !.status = "no_channel"] \in Row /\ [c EXCEPT !.status = "no_channel"].status = "no_channel"
      BY DEF Row, Terminal
    <2>3. PICK x \in Row : /\ row' = [row EXCEPT ![Contact] = x] /\ x.status # "absent"
                           /\ x.status = "sent" => row[Contact].status = "sent"
      BY <1>6, <2>1, <2>2 DEF ContactRow, NoChannelRow
    <2>4. lost = 0 => /\ AllSent \/ ~reachable
                      /\ contact # "garbled" /\ run[w].contact # "garbled"
      BY <1>1, <1>2, <1>6 DEF Alone, LegsInOrder, Sending, AllSent, Notified
    <2>5. alert \in {"absent", "pending", "retrying", "delivered", "failed", "no_channel"}
          /\ (alert = "delivered" => Contact \in accepted)
      BY DEF SInv, Types, SentWasAccepted
    <2>. QED BY <1>1, <1>2, <1>3, <1>4, <1>6, <2>3, <2>4, <2>5, Throws
  <1>. QED BY ZenonT(60), <1>5, <1>6 DEF StatementFails

LEMMA RecordFailsKeeps ==
    ASSUME SInv, NEW w \in Workers, RecordFails(w)
    PROVE  SInv'
  <1>1. /\ run[w].step \in {"load", "refuse"}
        /\ denied' = "record" /\ GoWith(w, "end", FALSE) /\ "end" \in Steps
        /\ Known(run[w])
        /\ UNCHANGED <<kind, job, owner, row, reachable, accepted, lost, raiser, contact, queue>>
    BY Before DEF RecordFails, Denied, Steps
  <1>2. kind = "alert"
    BY <1>1 DEF Known, AlertSteps
  <1>3. PICK r \in Run : /\ run' = [run EXCEPT ![w] = r] /\ r.step = "end"
                         /\ r.late = run[w].late /\ r.attempt = run[w].attempt
    <2>1. PICK ok \in BOOLEAN : GoWith(w, "end", ok) /\ "end" \in Steps
      BY <1>1
    <2>. QED BY <2>1, GoWithIs
  <1>4. PICK s \in {"failed", "retrying"} : alert' \in {alert, Marked(s)}
    <2>1. PICK s \in {"failed", "retrying"} :
              s = IF run[w].attempt >= MaxAttempts THEN "failed" ELSE "retrying"
      OBVIOUS
    <2>. QED BY <2>1 DEF RecordFails
  <1>5. AlertRecorded'
    BY <1>1 DEF AlertRecorded
  <1>. QED BY <1>1, <1>2, <1>3, <1>4, <1>5, AlertEnds

-----------------------------------------------------------------------------
(* The worker around the handler, and what happens meanwhile.              *)

LEMMA IdleIs ==
    ASSUME NEW n \in Nat
    PROVE  /\ Idle \in Run /\ Idle.step = "idle" /\ Known(Idle)
           /\ [Idle EXCEPT !.step = FirstStep, !.attempt = n] \in Run
           /\ [Idle EXCEPT !.step = FirstStep, !.attempt = n].step
                = IF kind = "alert" THEN "load" ELSE "begin"
           /\ [Idle EXCEPT !.step = FirstStep, !.attempt = n].attempt = n
           /\ [Idle EXCEPT !.step = FirstStep, !.attempt = n].late = 0
           /\ [Idle EXCEPT !.step = FirstStep, !.attempt = n].leg = Own
           /\ [Idle EXCEPT !.step = FirstStep, !.attempt = n].todo = {}
           /\ [Idle EXCEPT !.step = FirstStep, !.attempt = n].bad = FALSE
  <1>1. Idle \in Run /\ Idle.step = "idle" /\ Known(Idle)
    BY DEF Idle, Run, Steps, Legs, Known, Sending, Trying, AlertSteps
  <1>2. PICK step \in {"load", "begin"} : step = IF kind = "alert" THEN "load" ELSE "begin"
    OBVIOUS
  <1>3. FirstStep = step /\ step \in Steps
    BY <1>2 DEF FirstStep, Steps
  <1>4. [Idle EXCEPT !.step = step, !.attempt = n] \in Run
    BY <1>1, <1>3 DEF Run
  <1>. QED BY <1>1, <1>2, <1>3, <1>4 DEF Idle

\* What a step that leaves the rows, the provider and the alert alone keeps.
LEMMA RowsKeep ==
    ASSUME SInv, UNCHANGED <<kind, row, accepted, alert>>
    PROVE  /\ RowsOfKind' /\ SentWasAccepted'
           /\ \A w \in Workers : run'[w] = run[w] => Known(run[w])'
  BY DEF SInv, RowsOfKind, SentWasAccepted, Known

LEMMA ClaimKeeps ==
    ASSUME SInv, NEW w \in Workers, Claim(w), UNCHANGED avars
    PROVE  SInv'
  <1>1. /\ job.status = "pending" /\ owner = Nobody /\ owner' = w /\ run \in [Workers -> Run]
        /\ job.attempts \in Nat /\ denied' = "nothing"
        /\ UNCHANGED <<kind, job, row, reachable, accepted, lost, alert, raiser, contact, queue>>
    BY DEF Claim, avars, SInv, Types
  <1>2. PICK r \in Run : /\ r.step = (IF kind = "alert" THEN "load" ELSE "begin")
                         /\ r.attempt = job.attempts + 1 /\ r.late = 0 /\ r.leg = Own
                         /\ r.todo = {} /\ r.bad = FALSE
                         /\ r = [Idle EXCEPT !.step = FirstStep, !.attempt = job.attempts + 1]
    <2>1. PICK n \in Nat : n = job.attempts + 1
      BY <1>1
    <2>. QED BY <2>1, IdleIs
  <1>3. /\ run' = [run EXCEPT ![w] = r]
        /\ \A v \in Workers : run'[v] = IF v = w THEN r ELSE run[v]
    BY <1>1, <1>2 DEF Claim
  <1>4. Types'
    BY <1>1, <1>3 DEF SInv, Types
  <1>5. Known(r)'
    BY <1>1, <1>2 DEF Known, Sending, Trying, AlertSteps
  <1>6. ASSUME lost = 0 PROVE Undisturbed'
    <2>1. \A v \in Workers : run[v].step = "idle"
      BY <1>1, <1>6, NobodyAssumption DEF SInv, Undisturbed, OneHandler
    <2>2. OneHandler'
      BY <1>1, <1>3, <2>1 DEF OneHandler
    <2>3. Between'
      BY <1>1, <1>6 DEF SInv, Undisturbed, Between, AllSent, Recorded
    <2>4. OutcomeIsRecorded'
      BY <1>1 DEF OutcomeIsRecorded
    <2>5. Alone(r)'
      BY <1>1, <1>2 DEF Alone, SendIsOpen, LegsInOrder, LegsAreDone, Sending, Trying
    <2>6. \A v \in Workers : Alone(run[v])'
      BY <1>3, <2>1, <2>5 DEF Alone
    <2>. QED BY <2>2, <2>3, <2>4, <2>6 DEF Undisturbed
  <1>7. \A v \in Workers : Known(run[v])'
    BY <1>1, <1>3, <1>5, RowsKeep
  <1>. QED BY <1>1, <1>4, <1>6, <1>7, RowsKeep DEF SInv, Undisturbed

\* The handler's record goes back to rest.
LEMMA RestsIs ==
    ASSUME SInv, NEW w \in Workers, run' = [run EXCEPT ![w] = Idle],
           UNCHANGED <<kind, row, accepted, alert>>
    PROVE  /\ run' \in [Workers -> Run]
           /\ \A v \in Workers : run'[v] = IF v = w THEN Idle ELSE run[v]
           /\ \A v \in Workers : Known(run[v])'
  <1>1. run \in [Workers -> Run] /\ Idle \in Run
    BY IdleIs DEF SInv, Types
  <1>2. \A v \in Workers : run'[v] = IF v = w THEN Idle ELSE run[v]
    BY <1>1
  <1>3. Known(Idle)'
    BY DEF Known, Idle, Sending, Trying, AlertSteps
  <1>. QED BY <1>1, <1>2, <1>3, RowsKeep

LEMMA PublishKeeps ==
    ASSUME SInv, NEW w \in Workers, Publish(w), UNCHANGED avars
    PROVE  SInv'
  <1>1. /\ run[w].step = "end" /\ run' = [run EXCEPT ![w] = Idle]
        /\ job' = (IF owner = w THEN Outcome(run[w].ok) ELSE job)
        /\ owner' = (IF owner = w THEN Nobody ELSE owner)
        /\ UNCHANGED <<kind, row, reachable, accepted, lost, denied, alert, raiser, contact, queue>>
        /\ lost = 0 => Alone(run[w])
    BY Before DEF Publish, avars
  <1>2. /\ run' \in [Workers -> Run]
        /\ \A v \in Workers : run'[v] = IF v = w THEN Idle ELSE run[v]
        /\ \A v \in Workers : Known(run[v])'
    BY <1>1, RestsIs
  <1>3. owner = w => /\ job.status = "pending" /\ job.attempts \in Nat /\ job.attempts < MaxAttempts
                     /\ job'.attempts = job.attempts + 1
                     /\ job'.status = IF run[w].ok THEN "delivered"
                                      ELSE IF job.attempts + 1 >= MaxAttempts THEN "dead"
                                      ELSE "pending"
                     /\ job' \in [status : {"absent", "pending", "delivered", "dead"}, attempts : Nat]
    BY <1>1, NobodyAssumption DEF Outcome, SInv, Types
  <1>4. Types'
    BY <1>1, <1>2, <1>3, NotificationsAssumption DEF SInv, Types
  <1>5. ASSUME lost = 0 PROVE Undisturbed'
    <2>1. owner = w /\ \A v \in Workers \ {w} : run[v].step = "idle"
      BY <1>1, <1>5 DEF SInv, Undisturbed, OneHandler
    <2>2. \A v \in Workers : run'[v].step = "idle"
      BY <1>2, <2>1 DEF Idle
    <2>3. OneHandler' /\ \A v \in Workers : Alone(run[v])'
      BY <2>2 DEF OneHandler, Alone
    <2>4. Between'
      BY <1>1, <1>3, <1>5, <2>1 DEF SInv, Undisturbed, Between, AllSent, Recorded
    <2>5. ASSUME denied = "nothing" PROVE \A l \in Legs : Recorded(l)
      <3>1. CASE kind = "alert"
        BY <1>1, <1>5, <2>5, <3>1 DEF Alone, LegsAreDone
      <3>2. CASE kind # "alert"
        <4>1. Recorded(Own)
          BY <1>1, <1>5, <2>5, <3>2 DEF Alone
        <4>2. \A l \in Legs \ {Own} : row[l] = NoRow
          BY <3>2 DEF SInv, RowsOfKind
        <4>. QED BY <4>1, <4>2 DEF Recorded
      <3>. QED BY <3>1, <3>2
    <2>6. kind = "alert" /\ job'.status = "dead" => AlertRecorded
      BY <1>1, <1>3, <1>5, <2>1 DEF Alone, LegsAreDone
    <2>7. OutcomeIsRecorded'
      BY <1>1, <2>5, <2>6 DEF OutcomeIsRecorded, Recorded, AlertRecorded
    <2>. QED BY <2>3, <2>4, <2>7 DEF Undisturbed
  <1>. QED BY <1>1, <1>2, <1>4, <1>5, RowsKeep DEF SInv, Undisturbed

LEMMA CrashKeeps ==
    ASSUME SInv, NEW w \in Workers, Crash(w), UNCHANGED avars
    PROVE  SInv'
  <1>1. /\ run[w].step # "idle" /\ run' = [run EXCEPT ![w] = Idle]
        /\ owner' = (IF owner = w THEN Nobody ELSE owner)
        /\ UNCHANGED <<kind, job, row, reachable, accepted, lost, denied, alert, raiser, contact, queue>>
    BY DEF Crash, avars
  <1>2. /\ run' \in [Workers -> Run]
        /\ \A v \in Workers : run'[v] = IF v = w THEN Idle ELSE run[v]
        /\ \A v \in Workers : Known(run[v])'
    BY <1>1, RestsIs
  <1>3. Types'
    BY <1>1, <1>2 DEF SInv, Types
  <1>4. ASSUME lost = 0 PROVE Undisturbed'
    <2>1. owner = w /\ \A v \in Workers \ {w} : run[v].step = "idle"
      BY <1>1, <1>4 DEF SInv, Undisturbed, OneHandler
    <2>2. \A v \in Workers : run'[v].step = "idle"
      BY <1>2, <2>1 DEF Idle
    <2>3. OneHandler' /\ \A v \in Workers : Alone(run[v])'
      BY <2>2 DEF OneHandler, Alone
    <2>4. Between' /\ OutcomeIsRecorded'
      BY <1>1, <1>4 DEF SInv, Undisturbed, Between, AllSent, Recorded, OutcomeIsRecorded
    <2>. QED BY <2>3, <2>4 DEF Undisturbed
  <1>. QED BY <1>1, <1>2, <1>3, <1>4, RowsKeep DEF SInv, Undisturbed

\* Once a poll is lost, nothing is said of the order of the handlers.
LEMMA LosePollKeeps ==
    ASSUME SInv, NEW w \in Workers, LosePoll(w), UNCHANGED avars
    PROVE  SInv'
  <1>1. /\ owner' = Nobody /\ lost' = lost + 1 /\ lost' # 0
        /\ UNCHANGED <<kind, job, run, row, reachable, accepted, denied, alert, raiser, contact, queue>>
    BY DEF LosePoll, avars, SInv, Types
  <1>2. Types'
    BY <1>1 DEF SInv, Types
  <1>. QED BY <1>1, <1>2, RowsKeep DEF SInv, Undisturbed

\* The job is committed: before it there was no handler.
LEMMA JobStarts ==
    ASSUME SInv, job' = [status |-> "pending", attempts |-> 0],
           lost = 0 => job.status = "absent",
           alert' = alert \/ (kind = "alert" /\ alert' = "pending"),
           kind = "alert" => alert' # "absent",
           UNCHANGED <<kind, owner, run, row, reachable, accepted, lost, denied, raiser, contact, queue>>
    PROVE  SInv'
  <1>1. Types'
    BY NotificationsAssumption DEF SInv, Types
  <1>2. RowsOfKind' /\ SentWasAccepted' /\ \A w \in Workers : Known(run[w])'
    BY DEF SInv, RowsOfKind, SentWasAccepted, Known
  <1>3. ASSUME lost = 0 PROVE Undisturbed'
    <2>1. \A v \in Workers : run[v].step = "idle"
      BY <1>3, NobodyAssumption DEF SInv, Types, Undisturbed, OneHandler
    <2>2. OneHandler' /\ \A v \in Workers : Alone(run[v])'
      BY <2>1 DEF OneHandler, Alone
    <2>3. Between' /\ OutcomeIsRecorded'
      BY <1>3 DEF SInv, Undisturbed, Between, AllSent, Recorded, OutcomeIsRecorded
    <2>. QED BY <2>2, <2>3 DEF Undisturbed
  <1>. QED BY <1>1, <1>2, <1>3 DEF SInv, Undisturbed

\* Users and moderators: accounts go away, an address is replaced by a good
\* one, an entry is resolved.
LEMMA OutsideKeeps ==
    ASSUME SInv, UNCHANGED <<kind, job, owner, run, row, accepted, lost, denied, alert>>,
           reachable' \in BOOLEAN, reachable' => reachable,
           raiser' \in BOOLEAN, raiser' => raiser,
           contact' \in {"none", "set", "garbled"}, contact' = "garbled" => contact = "garbled",
           queue' \in {"none", "open", "resolved"}
    PROVE  SInv'
  <1>1. Types'
    BY DEF SInv, Types
  <1>2. RowsOfKind' /\ SentWasAccepted' /\ \A w \in Workers : Known(run[w])'
    BY RowsKeep
  <1>3. ASSUME lost = 0 PROVE Undisturbed'
    <2>1. \A l : Recorded(l) => Recorded(l)'
      BY DEF Recorded
    <2>2. OneHandler' /\ Between' /\ OutcomeIsRecorded'
      BY <1>3, <2>1
         DEF SInv, Undisturbed, OneHandler, Between, AllSent, OutcomeIsRecorded, Recorded
    <2>3. ASSUME NEW v \in Workers PROVE Alone(run[v])'
      <3>1. run[v].raiser \in BOOLEAN /\ Alone(run[v])
        BY <1>3, Before
      <3>2. \A m, bad : Notified(m, bad) => Notified(m, bad)'
        BY DEF Notified
      <3>3. LegsInOrder(run[v]) => LegsInOrder(run[v])'
        BY <3>2 DEF LegsInOrder, AllSent
      <3>4. LegsAreDone(run[v]) => LegsAreDone(run[v])'
        BY <2>1 DEF LegsAreDone, AlertRecorded
      <3>. QED BY <3>1, <3>3, <3>4, <2>1 DEF Alone, SendIsOpen
    <2>. QED BY <2>2, <2>3 DEF Undisturbed
  <1>. QED BY <1>1, <1>2, <1>3 DEF SInv, Undisturbed

-----------------------------------------------------------------------------
(* The invariant.                                                          *)

LEMMA InitEstablishes == Init => SInv
  <1>. SUFFICES ASSUME Init PROVE SInv
    OBVIOUS
  <1>. USE DEF Init, NotificationsInit
  <1>1. run \in [Workers -> Run] /\ \A w \in Workers : run[w] = Idle
    BY IdleIs
  <1>2. row \in [Legs -> Row] /\ \A l \in Legs : row[l] = NoRow
    BY DEF Row, NoRow
  <1>3. Types
    BY <1>1, <1>2, NotificationsAssumption DEF Types
  <1>4. \A w \in Workers : Known(run[w])
    BY <1>1, IdleIs
  <1>5. \A w \in Workers : run[w].step = "idle"
    BY <1>1, IdleIs
  <1>6. Contact \in Legs
    BY DEF Legs
  <1>7. Undisturbed
    BY <1>2, <1>5, <1>6 DEF Undisturbed, OneHandler, Between, OutcomeIsRecorded, Alone
  <1>8. RowsOfKind /\ SentWasAccepted
    BY <1>2 DEF RowsOfKind, SentWasAccepted, NoRow
  <1>. QED BY <1>3, <1>4, <1>7, <1>8 DEF SInv

LEMMA HandleAlertKeeps ==
    ASSUME SInv, NEW w \in Workers, HandleAlert(w)
    PROVE  SInv'
  BY LoadAlertKeeps, FileEntryKeeps, ListModeratorsKeeps, NotifyModeratorKeeps,
     ModeratorsFailedKeeps, ToContactKeeps, MarksKeep, LegReturnedKeeps DEF HandleAlert

LEMMA WorkerStepKeeps ==
    ASSUME SInv, NEW w \in Workers, WorkerStep(w), UNCHANGED avars
    PROVE  SInv'
  <1>1. CASE Send(w)
    BY <1>1, CreateAttemptKeeps, ResolveRecipientKeeps, StartTryKeeps, AcceptedKeeps,
       RefusedKeeps, MarkResultKeeps DEF Send
  <1>2. CASE ~Send(w)
    BY <1>2, ClaimKeeps, PublishKeeps, LateWriteKeeps, OneMessageKeeps DEF WorkerStep
  <1>. QED BY <1>1, <1>2

LEMMA RequestKeeps ==
    ASSUME SInv, NEW c \in Callers, RaiseAlert(c) \/ EscalateAlert(c)
    PROVE  SInv'
  <1>1. kind = "alert" /\ alert = "absent" /\ PersistAlertWithJob
    BY DEF RaiseAlert, EscalateAlert
  <1>2. lost = 0 => job.status = "absent"
    BY <1>1 DEF SInv, Undisturbed, Between
  <1>. QED BY <1>1, <1>2, JobStarts DEF PersistAlertWithJob, SInv, Types

LEMMA EnvironmentKeeps ==
    ASSUME SInv, Environment, UNCHANGED avars
    PROVE  SInv'
  <1>1. CASE EnqueueMessage
    BY <1>1, JobStarts DEF EnqueueMessage, avars, SInv, Types
  <1>2. CASE RecipientErased
    BY <1>2, OutsideKeeps DEF RecipientErased, avars, SInv, Types
  <1>3. CASE \E w \in Workers : Crash(w) \/ LosePoll(w) \/ SendThrows(w)
    BY <1>3, CrashKeeps, LosePollKeeps, SendThrowsKeeps
  <1>. QED BY <1>1, <1>2, <1>3 DEF Environment

LEMMA NextKeeps == SInv /\ [Next]_vars => SInv'
  <1>. SUFFICES ASSUME SInv, [Next]_vars PROVE SInv'
    OBVIOUS
  <1>1. CASE UNCHANGED vars
    BY <1>1, OutsideKeeps DEF vars, nvars, avars, SInv, Types
  <1>2. CASE \E w \in Workers : HandleAlert(w) \/ (WorkerStep(w) /\ UNCHANGED avars)
    BY <1>2, HandleAlertKeeps, WorkerStepKeeps
  <1>3. CASE Environment /\ UNCHANGED avars
    BY <1>3, EnvironmentKeeps
  <1>4. CASE \E c \in Callers : RaiseAlert(c) \/ EscalateAlert(c)
    BY <1>4, RequestKeeps
  <1>5. CASE UpdateContact
    BY <1>5, OutsideKeeps DEF UpdateContact, NothingElse, SInv, Types
  <1>6. CASE RaiserErased
    BY <1>6, OutsideKeeps DEF RaiserErased, NothingElse, SInv, Types
  <1>7. CASE ModeratorResolves
    BY <1>7, OutsideKeeps DEF ModeratorResolves, NothingElse, SInv, Types
  <1>8. CASE \E w \in Workers : StatementFails(w) \/ RecordFails(w)
    BY <1>8, StatementFailsKeeps, RecordFailsKeeps
  <1>. QED BY <1>1, <1>2, <1>3, <1>4, <1>5, <1>6, <1>7, <1>8 DEF Next

-----------------------------------------------------------------------------
(* The theorems.                                                           *)

\* The inductive invariant holds in every reachable state, whatever crashes,
\* whichever poll is lost and however late the abandoned tries arrive.
THEOREM DeliveryInvariance == Spec => []SInv
  BY InitEstablishes, NextKeeps, PTL DEF Spec

\* A row that says 'sent', and an alert that says 'delivered', was accepted by
\* the provider, however the tries, the retries and two handlers of one job
\* interleave.
THEOREM SentMeansAccepted == Spec => []SentWasAccepted
  <1>1. SInv => SentWasAccepted
    BY DEF SInv
  <1>. QED BY <1>1, DeliveryInvariance, PTL

\* When the job is over, every message and the alert itself say what became of
\* them, as long as no handler outlived its poll.
THEOREM OutcomesAreRecorded == Spec => []OutcomeIsRecorded
  <1>1. SInv => OutcomeIsRecorded
    <2>. SUFFICES ASSUME SInv PROVE OutcomeIsRecorded
      OBVIOUS
    <2>1. CASE lost = 0
      BY <2>1 DEF SInv, Undisturbed
    <2>2. CASE lost # 0
      BY <2>2 DEF OutcomeIsRecorded
    <2>. QED BY <2>1, <2>2
  <1>. QED BY <1>1, DeliveryInvariance, PTL

\* The steps that write a row leave one that says 'sent' as it is, until a
\* handler has outlived its poll.
LEMMA SentStays ==
    ASSUME SInv, [Next]_vars, NEW l \in Legs, row[l].status = "sent", lost = 0
    PROVE  row'[l].status \in {"sent", "no_channel"}
  <1>1. CASE row' = row
    BY <1>1
  <1>2. CASE row' # row
    <2>1. PICK w \in Workers :
              \/ CreateAttempt(w) \/ StartTry(w) \/ LateWrite(w) \/ MarkResult(w) \/ ToContact(w)
              \/ SendThrows(w) \/ StatementFails(w)
      BY ZenonT(60), <1>2 DEF Next, RecordFails, vars, nvars, HandleAlert, WorkerStep, Send, Environment, Claim, Publish,
         LoadAlert, FileEntry, ListModerators, NotifyModerator, ModeratorsFailed, MarkNoChannel,
         LegReturned, MarkDelivered, MarkDeliveryFailure, Here, ResolveRecipient, Accepted,
         Refused, TimedOut, BookingNotification, EmailVerification, Crash, LosePoll,
         RecipientErased, EnqueueMessage, RaiseAlert, EscalateAlert, PersistAlertWithJob,
         UpdateContact, RaiserErased, ModeratorResolves, NothingElse
    <2>2. row \in [Legs -> Row] /\ row[l] # NoRow
      BY Before DEF NoRow
    <2>3. CASE CreateAttempt(w)
      BY <2>2, <2>3, Before DEF CreateAttempt, Created
    <2>4. CASE StartTry(w) \/ LateWrite(w) \/ MarkResult(w)
      <3>1. run[w].step \in Trying
        BY <2>4, Before DEF StartTry, LateWrite, MarkResult, Known, Trying
      <3>2. l # run[w].leg
        BY <3>1, Midway
      <3>. QED BY <2>2, <2>4, <3>2 DEF StartTry, LateWrite, MarkResult, Closed
    <2>5. CASE SendThrows(w)
      <3>1. CASE run[w].step = "settle"
        <4>1. l # run[w].leg
          BY <3>1, Midway DEF Trying
        <4>. QED BY <2>2, <2>5, <3>1, <4>1 DEF SendThrows, Closed
      <3>2. CASE run[w].step # "settle"
        BY <1>2, <2>2, <2>5, <3>2, Before DEF SendThrows, Created
      <3>. QED BY <3>1, <3>2
    <2>6. CASE ToContact(w) \/ StatementFails(w)
      <3>1. PICK r : row' = ContactRow(r) /\ r \in {Created(Contact), [Created(Contact) EXCEPT !.status = "no_channel"]}
        BY <1>2, <2>6 DEF ToContact, StatementFails, NoChannelRow
      <3>2. CASE l # Contact
        BY <2>2, <3>1, <3>2 DEF ContactRow
      <3>3. CASE l = Contact
        <4>1. PICK x \in Row : x = row[Contact]
          BY <2>2, <3>3
        <4>2. Created(Contact) = x
          BY <2>2, <3>3, <4>1 DEF Created
        <4>3. [x EXCEPT !.status = "no_channel"].status = "no_channel"
          BY DEF Row
        <4>4. row'[l] = r
          BY <2>2, <3>1, <3>3 DEF ContactRow
        <4>. QED BY <3>1, <3>3, <4>1, <4>2, <4>3, <4>4
      <3>. QED BY <3>2, <3>3
    <2>. QED BY <2>1, <2>3, <2>4, <2>5, <2>6
  <1>. QED BY <1>1, <1>2

\* No step marks a delivered alert anything else.
LEMMA DeliveredStays ==
    ASSUME SInv, [Next]_vars, alert = "delivered"
    PROVE  alert' = "delivered"
  BY DEF Next, vars, nvars, avars, HandleAlert, LoadAlert, FileEntry, ListModerators,
     NotifyModerator, ModeratorsFailed, ToContact, MarkNoChannel, LegReturned, MarkDelivered,
     MarkDeliveryFailure, Marked, RaiseAlert, EscalateAlert, UpdateContact, RaiserErased,
     ModeratorResolves, StatementFails, RecordFails

\* Success is final: no redelivery, retry or late write turns a message that
\* was sent into one that was not, and a delivered alert stays delivered.
THEOREM SentStaysSent == Spec => SuccessIsFinal
  <1>1. SInv /\ [Next]_vars =>
          [/\ \A l \in Legs :
                 row[l].status = "sent" /\ row'[l].status # "sent"
                   => lost > 0 \/ row'[l].status = "no_channel"
           /\ alert = "delivered" => alert' = "delivered"]_vars
    BY SentStays, DeliveredStays DEF SInv, Types
  <1>. QED BY <1>1, DeliveryInvariance, PTL DEF Spec, SuccessIsFinal

-----------------------------------------------------------------------------
(* The ledger of jobs.                                                     *)

\* An alert that was not raised has no job.
Unraised == kind = "alert" /\ alert = "absent" => job.status = "absent"

\* The one job is enqueued, or gets the outcome of a delivery.
Settles ==
    \/ job.status = "absent" /\ job' = [status |-> "pending", attempts |-> 0]
    \/ job.status = "pending" /\ \E ok \in BOOLEAN : job' = Outcome(ok)

\* Only three steps write the job: a request, and the COMMIT of the poll that holds it.
LEMMA StepSettles ==
    ASSUME SInv, Unraised, [Next]_vars
    PROVE  (job' = job \/ Settles) /\ Unraised'
  <1>1. CASE job' # job
    <2>1. \/ EnqueueMessage /\ UNCHANGED avars
          \/ \E w \in Workers : Publish(w) /\ owner = w /\ UNCHANGED avars
          \/ \E c \in Callers : RaiseAlert(c) \/ EscalateAlert(c)
      BY ZenonT(60), <1>1 DEF Next, vars, nvars, HandleAlert, WorkerStep, Send, Environment, Claim,
         Publish, LoadAlert, FileEntry, ListModerators, NotifyModerator, ModeratorsFailed,
         ToContact, MarkNoChannel, LegReturned, MarkDelivered, MarkDeliveryFailure, Here,
         CreateAttempt, ResolveRecipient, StartTry, LateWrite, Accepted, Refused, TimedOut,
         MarkResult, BookingNotification, EmailVerification, Crash, LosePoll, RecipientErased,
         UpdateContact, RaiserErased, ModeratorResolves, NothingElse, SendThrows, StatementFails,
         RecordFails
    <2>2. CASE EnqueueMessage /\ UNCHANGED avars
      BY <2>2 DEF EnqueueMessage, Settles, Unraised
    <2>3. ASSUME NEW w \in Workers, Publish(w), owner = w, UNCHANGED avars
          PROVE  Settles /\ Unraised'
      <3>1. job.status = "pending" /\ run[w].ok \in BOOLEAN
        BY <2>3, NobodyAssumption DEF SInv, Types, Run
      <3>2. job' = Outcome(run[w].ok) /\ UNCHANGED <<kind, alert>>
        BY <2>3 DEF Publish, avars
      <3>. QED BY <3>1, <3>2 DEF Settles, Unraised
    <2>4. CASE \E c \in Callers : RaiseAlert(c) \/ EscalateAlert(c)
      BY <2>4 DEF RaiseAlert, EscalateAlert, PersistAlertWithJob, Settles, Unraised
    <2>. QED BY <2>1, <2>2, <2>3, <2>4
  <1>2. CASE job' = job
    <2>1. kind' = kind
      <3>1. ASSUME NEW w \in Workers, WorkerStep(w) PROVE kind' = kind
        BY <3>1 DEF WorkerStep, Send, Claim, Publish, CreateAttempt, ResolveRecipient, StartTry,
           LateWrite, Accepted, Refused, TimedOut, MarkResult, BookingNotification,
           EmailVerification, Here
      <3>2. ASSUME NEW w \in Workers, HandleAlert(w) PROVE kind' = kind
        BY <3>2 DEF HandleAlert, LoadAlert, FileEntry, ListModerators, NotifyModerator,
           ModeratorsFailed, ToContact, MarkNoChannel, LegReturned, MarkDelivered,
           MarkDeliveryFailure, Here, NothingElse
      <3>3. CASE Environment
        BY <3>3 DEF Environment, Crash, LosePoll, RecipientErased, EnqueueMessage, SendThrows
      <3>4. CASE \E c \in Callers : RaiseAlert(c) \/ EscalateAlert(c)
        BY <3>4 DEF RaiseAlert, EscalateAlert, PersistAlertWithJob
      <3>5. CASE UpdateContact \/ RaiserErased \/ ModeratorResolves \/ UNCHANGED vars
        BY <3>5 DEF UpdateContact, RaiserErased, ModeratorResolves, NothingElse, vars, nvars
      <3>6. CASE \E w \in Workers : StatementFails(w) \/ RecordFails(w)
        BY <3>6 DEF StatementFails, RecordFails
      <3>. QED BY <3>1, <3>2, <3>3, <3>4, <3>5, <3>6 DEF Next
    <2>2. alert' = "absent" => alert = "absent"
      BY DEF Next, vars, nvars, avars, HandleAlert, LoadAlert, FileEntry, ListModerators,
         NotifyModerator, ModeratorsFailed, ToContact, MarkNoChannel, LegReturned, MarkDelivered,
         MarkDeliveryFailure, Marked, RaiseAlert, EscalateAlert, PersistAlertWithJob,
         UpdateContact, RaiserErased, ModeratorResolves, StatementFails, RecordFails
    <2>. QED BY <1>2, <2>1, <2>2 DEF Unraised
  <1>. QED BY <1>1, <1>2

\* What Settles says is what the ledger allows.
LEMMA SettlesInLedger ==
    ASSUME SInv, SInv', Settles
    PROVE  Ledger!LedgerNext
  <1>1. /\ job.attempts \in Nat /\ job'.attempts \in Nat
        /\ MaxAttempts \in Nat
        /\ job'.status \in Ledger!Fates
    BY NotificationsAssumption DEF SInv, Types, Ledger!Fates
  <1>2. CASE job.status = "absent" /\ job' = [status |-> "pending", attempts |-> 0]
    <2>1. Ledger!Enter(1)
      BY <1>2 DEF Ledger!Enter
    <2>. QED BY <1>1, <2>1 DEF Ledger!LedgerNext
  <1>3. CASE job.status = "pending" /\ job' = Outcome(TRUE)
    <2>1. Ledger!Succeed(1)
      BY <1>3 DEF Ledger!Succeed, Outcome
    <2>. QED BY <1>1, <2>1 DEF Ledger!LedgerNext
  <1>4. CASE job.status = "pending" /\ job' = Outcome(FALSE)
    <2>1. Ledger!Fail(1)
      BY <1>1, <1>4 DEF Ledger!Fail, Outcome
    <2>. QED BY <1>1, <2>1 DEF Ledger!LedgerNext
  <1>. QED BY <1>2, <1>3, <1>4 DEF Settles

\* RT-02, NFR-09: the job of a message or an alert is the job of a ledger, also when a
\* handler outlives its poll and works side by side with the next one.
THEOREM DeliveryJobIsLedgered == Spec => FollowsJobLedger
  <1>1. Init => Ledger!LedgerInit /\ Unraised
    BY DEF Init, NotificationsInit, Ledger!LedgerInit, Unraised
  <1>2. SInv /\ SInv' /\ Unraised /\ [Next]_vars => [Ledger!LedgerNext]_(Ledger!ledger) /\ Unraised'
    <2>. SUFFICES ASSUME SInv, SInv', Unraised, [Next]_vars
                  PROVE  [Ledger!LedgerNext]_(Ledger!ledger) /\ Unraised'
      OBVIOUS
    <2>1. CASE job' = job
      BY <2>1, StepSettles DEF Ledger!ledger
    <2>2. CASE Settles
      BY <2>2, StepSettles, SettlesInLedger
    <2>. QED BY <2>1, <2>2, StepSettles
  <1>. QED BY <1>1, <1>2, DeliveryInvariance, PTL DEF Spec, FollowsJobLedger, Ledger!LedgerSpec
=============================================================================
