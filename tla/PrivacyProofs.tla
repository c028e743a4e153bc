--------------------------- MODULE PrivacyProofs ---------------------------
(***************************************************************************)
(* Proofs about module Privacy, for any number of workers, keys, requests  *)
(* and faults: no object outlives its row, an erasure leaves nothing but   *)
(* what is written behind its back, an inactive account is not erased      *)
(* before its notice has run out unless the delivery of that notice was    *)
(* cut short, and its jobs are those of a ledger.                          *)
(***************************************************************************)
EXTENDS Privacy, TLAPS

-----------------------------------------------------------------------------
(* Types.                                                                  *)

Kinds == {"erasure", "export", "inactivity_notice"}
Steps == {"idle", "load", "user", "close", "cancel", "notice", "merge", "final", "processing",
          "collect", "list", "object", "row", "erase", "sessions", "read", "store", "end"}

UserRow == [active : Nat, deleted : BOOLEAN, erased : BOOLEAN]
MediaRow == [object : BOOLEAN, row : {"none", "live", "hidden", "removed"}]
RequestRow == [kind : Kinds, status : {"pending", "processing", "completed", "failed"},
               at : Nat, since : BOOLEAN, notice : BOOLEAN, sent : Nat, copy : BOOLEAN]
JobRow == [status : {"absent", "pending", "delivered", "dead"}, request : Nat, at : Nat,
           attempts : Nat]
Run == [step : Steps, key : JobKeys, todo : SUBSET Keys, object : SUBSET Keys,
        failed : BOOLEAN, notice : BOOLEAN, copy : BOOLEAN, ok : BOOLEAN]

Types ==
    /\ user \in UserRow
    /\ held \subseteq Stores
    /\ media \in [Keys -> MediaRow]
    /\ session \in BOOLEAN
    /\ reqs \in Seq(RequestRow) /\ Len(reqs) <= MaxRequests
    /\ jobs \in [JobKeys -> JobRow]
    /\ run \in [Workers -> Run]
    /\ now \in 0..MaxTime

-----------------------------------------------------------------------------
(* The tables.                                                             *)

\* A notice that was recorded was sent, and only exports leave a copy.
RequestIsSound(q) ==
    /\ q.sent <= now \/ q.sent = Never
    /\ q.notice => q.sent <= now
    /\ q.copy => q.kind = "export"

\* A job names its request; the second job of an inactive account comes after
\* the notice, and is due no earlier than the window after it.
JobIsSound(key) ==
    jobs[key].status # "absent" =>
        /\ jobs[key].request \in Ids
        /\ key # DeletionKey => jobs[key].request = key[2]
        /\ key[1] = "export" => reqs[key[2]].kind = "export"
        /\ key[1] = "final" => /\ reqs[key[2]].notice
                               /\ reqs[key[2]].sent + Window <= jobs[key].at

Tables ==
    /\ \A r \in Ids : RequestIsSound(reqs[r])
    /\ \A key \in JobKeys : JobIsSound(key)

-----------------------------------------------------------------------------
(* The handlers.                                                           *)

\* The steps in which a handler means to erase the user.
Erasing == {"processing", "list", "object", "row", "erase"}

\* Media that are still there.
Kept(k) == media[k].row \in {"live", "hidden"}

\* What a handler has listed is attached and deleted, in this order.
MediaInHand(x) ==
    /\ \A k \in x.todo \cup x.object : media[k].row # "none"
    /\ \A k \in x.object : ~media[k].object
    /\ x.step \notin {"row", "end"} => x.object = {}
    /\ x.step \in {"object", "row"} /\ ~x.failed =>
          \A k \in Keys : Kept(k) => k \in x.todo \cup x.object \/ <<"media", k>> \in late
    /\ x.step = "erase" => \A k \in Keys : Kept(k) => <<"media", k>> \in late

\* What a handler has read of its request is still so, but for a login on the
\* day of the erasure.
RequestInHand(x) ==
    /\ x.step \in {"collect", "read", "store"} => x.key[1] = "export"
    /\ x.step \in {"notice", "merge", "final"} => x.key[1] = "notice"
    /\ x.step = "merge" => reqs[x.key[2]].sent <= now
    /\ x.step = "final" => reqs[x.key[2]].notice
    /\ x.step = "user" /\ x.key[1] = "final" => x.notice
    /\ x.notice => reqs[jobs[x.key].request].notice
    /\ x.step \in Erasing /\ x.key # DeletionKey =>
          /\ x.key[1] \in {"notice", "final"}
          /\ x.notice
          /\ reqs[x.key[2]].since => user.active = now

\* A delivery of the job was cut short after it recorded the notice.
Recut(key) == <<key, "final">> \in cut \/ <<key, "end">> \in cut

\* Unless that happened, the first job of an inactive account does not erase.
FirstPhase(x) ==
    x.key[1] = "notice" /\ ~Recut(x.key) =>
        /\ ~x.notice
        /\ x.step \notin Erasing \cup {"cancel", "sessions"}

Known(x) ==
    x.step # "idle" =>
        /\ jobs[x.key].status = "pending" /\ jobs[x.key].at <= now
        /\ MediaInHand(x)
        /\ RequestInHand(x)
        /\ FirstPhase(x)

\* A job is in the hands of one worker.
OneWorker ==
    \A v, w \in Workers : v # w /\ run[v].step # "idle" /\ run[w].step # "idle"
                            => run[v].key # run[w].key

\* The handler has recorded the notice, and has not failed since.
HasTold(x) == x.step = "final" \/ (x.step = "end" /\ x.ok)

\* Unless it was cut short there, the delivery that recorded the notice of a
\* request is the last one of the first job.
OneNotice ==
    \A r \in Ids : LET key == <<"notice", r>>
                   IN  jobs[key].status = "pending" /\ reqs[r].notice /\ ~Recut(key)
                         => \E w \in Workers : run[w].key = key /\ HasTold(run[w])

\* Only a deleted account is erased.
ErasedIsDeleted == user.erased => user.deleted

\* The inductive invariant.
PInv ==
    /\ Types
    /\ Tables
    /\ \A w \in Workers : Known(run[w])
    /\ OneWorker
    /\ OneNotice
    /\ ErasedIsDeleted
    /\ NoLostObject
    /\ ErasureLeavesNothing

-----------------------------------------------------------------------------
(* Sequences and keys.                                                     *)

LEMMA KeyIs ==
    ASSUME NEW key \in JobKeys
    PROVE  /\ key # DeletionKey => /\ key[1] \in {"notice", "final", "export"}
                                   /\ key[2] \in 1..MaxRequests
                                   /\ key = <<key[1], key[2]>>
           /\ key = DeletionKey => key[1] = "deletion"
  BY DEF JobKeys, DeletionKey

LEMMA KeysAre ==
    ASSUME NEW r \in 1..MaxRequests
    PROVE  /\ <<"notice", r>> \in JobKeys /\ <<"final", r>> \in JobKeys
           /\ <<"export", r>> \in JobKeys
           /\ DeletionKey \notin {<<"notice", r>>, <<"final", r>>, <<"export", r>>}
  BY DEF JobKeys, DeletionKey

LEMMA IdsAre ==
    ASSUME Types
    PROVE  /\ Ids = 1..Len(reqs) /\ Len(reqs) \in Nat /\ Ids \subseteq 1..MaxRequests
           /\ \A r \in Ids : reqs[r] \in RequestRow
  BY PrivacyAssumption DEF Types, Ids

\* The requests are rewritten one by one.
LEMMA Rewritten ==
    ASSUME Types, NEW f, f = [r \in Ids |-> f[r]], \A r \in Ids : f[r] \in RequestRow
    PROVE  /\ f \in Seq(RequestRow) /\ Len(f) = Len(reqs) /\ DOMAIN f = Ids
  BY IdsAre DEF Types

LEMMA OneRewritten ==
    ASSUME Types, NEW m \in Ids, NEW q \in RequestRow, reqs' = [reqs EXCEPT ![m] = q]
    PROVE  /\ reqs' \in Seq(RequestRow) /\ Len(reqs') = Len(reqs) /\ Ids' = Ids
           /\ \A r \in Ids : reqs'[r] = IF r = m THEN q ELSE reqs[r]
  BY IdsAre DEF Types, Ids

LEMMA NewRequestIs ==
    ASSUME Types, NEW kind \in Kinds
    PROVE  /\ NewRequest(kind) \in RequestRow /\ NewRequest(kind).kind = kind
           /\ NewRequest(kind).notice = FALSE /\ NewRequest(kind).copy = FALSE
           /\ NewRequest(kind).since = FALSE
  BY PrivacyAssumption DEF NewRequest, RequestRow, Never, Types, Kinds

LEMMA Appended ==
    ASSUME Types, Len(reqs) < MaxRequests, NEW q \in RequestRow, reqs' = Append(reqs, q)
    PROVE  /\ reqs' \in Seq(RequestRow) /\ Len(reqs') = Len(reqs) + 1 /\ Len(reqs') <= MaxRequests
           /\ Ids' = Ids \cup {Len(reqs) + 1} /\ Len(reqs) + 1 \notin Ids
           /\ \A r \in Ids : reqs'[r] = reqs[r]
           /\ reqs'[Len(reqs) + 1] = q
  BY IdsAre, PrivacyAssumption DEF Types, Ids

-----------------------------------------------------------------------------
(* What every step leaves to the handlers it does not belong to.           *)

MediaKept ==
    /\ late \subseteq late'
    /\ \A k \in Keys :
          /\ media[k].row # "none" => /\ media'[k].row # "none"
                                      /\ ~media[k].object => ~media'[k].object
          /\ Kept(k)' => \/ Kept(k)
                         \/ <<"media", k>> \in late'
                         \/ \A w \in Workers : run[w].step \notin {"object", "row", "erase"}

RequestsKept ==
    \A r \in Ids : /\ r \in Ids'
                   /\ reqs'[r].kind = reqs[r].kind
                   /\ reqs[r].notice => reqs'[r].notice
                   /\ reqs[r].sent <= now => reqs'[r].sent = reqs[r].sent
                   /\ reqs'[r].since => reqs[r].since \/ user'.active = now

JobsKept ==
    \A key \in JobKeys : jobs[key].status # "absent" =>
        jobs'[key].status # "absent" /\ jobs'[key].request = jobs[key].request
                                     /\ jobs'[key].at = jobs[key].at

Tame ==
    /\ MediaKept /\ RequestsKept /\ JobsKept
    /\ now' = now
    /\ user.active = now => user'.active = now
    /\ cut \subseteq cut'

\* What is known of a handler's record stays true.
LEMMA StillKnown ==
    ASSUME PInv, Tame, NEW x \in Run, Known(x),
           x.step # "idle" => jobs'[x.key].status = "pending",
           x.step \in {"object", "row", "erase"} =>
               \A k \in Keys : Kept(k)' => Kept(k) \/ <<"media", k>> \in late'
    PROVE  Known(x)'
  <1>. SUFFICES ASSUME x.step # "idle" PROVE Known(x)'
    BY DEF Known
  <1>1. x.key \in JobKeys /\ JobIsSound(x.key)
    BY DEF PInv, Run, Tables
  <1>2. /\ jobs[x.key].status = "pending" /\ jobs[x.key].at <= now
        /\ jobs[x.key].request \in Ids
        /\ x.key # DeletionKey => jobs[x.key].request = x.key[2] /\ x.key[2] \in Ids
        /\ jobs'[x.key].request = jobs[x.key].request /\ jobs'[x.key].at = jobs[x.key].at
    BY <1>1 DEF Known, JobIsSound, Tame, JobsKept
  <1>3. MediaInHand(x)'
    <2>1. MediaInHand(x) /\ x.todo \subseteq Keys /\ x.object \subseteq Keys
      BY DEF Known, Run
    <2>. QED BY <2>1 DEF MediaInHand, Tame, MediaKept
  <1>4. RequestInHand(x)'
    <2>1. RequestInHand(x) /\ (x.key[1] # "deletion" => x.key # DeletionKey)
      BY DEF Known, DeletionKey
    <2>. QED BY <1>1, <1>2, <2>1, KeyIs DEF RequestInHand, Tame, RequestsKept, Erasing
  <1>5. FirstPhase(x)'
    BY DEF Known, FirstPhase, Recut, Tame
  <1>. QED BY <1>2, <1>3, <1>4, <1>5 DEF Known, Tame

LEMMA KnownKept ==
    ASSUME PInv, Tame, NEW v \in Workers, run'[v] = run[v],
           run[v].step # "idle" => jobs'[run[v].key].status = "pending"
    PROVE  Known(run[v])'
  <1>1. PICK x \in Run : x = run[v] /\ Known(x)
    BY DEF PInv, Types
  <1>2. x.step \in {"object", "row", "erase"} =>
           \A k \in Keys : Kept(k)' => Kept(k) \/ <<"media", k>> \in late'
    BY <1>1 DEF Tame, MediaKept
  <1>3. Known(x)'
    BY <1>1, <1>2, StillKnown
  <1>. QED BY <1>1, <1>3

\* Pattern of a step outside the handlers.
LEMMA OutsideStep ==
    ASSUME PInv, Tame, run' = run,
           \A key \in JobKeys : jobs[key].status = "pending" => jobs'[key].status = "pending",
           Types', Tables', OneNotice', ErasedIsDeleted', NoLostObject', ErasureLeavesNothing'
    PROVE  PInv'
  <1>1. \A v \in Workers : Known(run[v])'
    <2>. SUFFICES ASSUME NEW v \in Workers PROVE Known(run[v])'
      OBVIOUS
    <2>1. run[v].step # "idle" => jobs'[run[v].key].status = "pending"
      BY DEF PInv, Types, Known, Run
    <2>. QED BY <2>1, KnownKept
  <1>2. OneWorker'
    BY DEF PInv, OneWorker
  <1>. QED BY <1>1, <1>2 DEF PInv

\* Pattern of a handler's step: what has to be shown is what it says of itself.
LEMMA HandlerStep ==
    ASSUME PInv, Tame, NEW w \in Workers, run[w].step # "idle",
           NEW x \in Run, run' = [run EXCEPT ![w] = x], x.key = run[w].key, x.step # "idle",
           \A key \in JobKeys : jobs[key].status = "pending" => jobs'[key].status = "pending",
           Known(x)',
           Types', Tables', OneNotice', ErasedIsDeleted', NoLostObject', ErasureLeavesNothing'
    PROVE  PInv'
  <1>1. run \in [Workers -> Run] /\ \A v \in Workers : run'[v] = IF v = w THEN x ELSE run[v]
    BY DEF PInv, Types
  <1>2. \A v \in Workers : Known(run[v])'
    <2>. SUFFICES ASSUME NEW v \in Workers, v # w PROVE Known(run[v])'
      BY <1>1
    <2>1. run'[v] = run[v] /\ (run[v].step # "idle" => jobs'[run[v].key].status = "pending")
      BY <1>1 DEF PInv, Known, Run
    <2>. QED BY <2>1, KnownKept
  <1>3. OneWorker'
    BY <1>1 DEF PInv, OneWorker
  <1>. QED BY <1>2, <1>3 DEF PInv

\* What a handler at work knows.
LEMMA AtWork ==
    ASSUME PInv, NEW w \in Workers
    PROVE  /\ run \in [Workers -> Run] /\ run[w] \in Run
           /\ run[w].key \in JobKeys /\ run[w].step \in Steps
           /\ run[w].todo \in SUBSET Keys /\ run[w].object \in SUBSET Keys
           /\ run[w].failed \in BOOLEAN /\ run[w].notice \in BOOLEAN
           /\ run[w].copy \in BOOLEAN /\ run[w].ok \in BOOLEAN
           /\ run[w].step # "idle" =>
                /\ jobs[run[w].key].status = "pending" /\ jobs[run[w].key].at <= now
                /\ MediaInHand(run[w]) /\ RequestInHand(run[w]) /\ FirstPhase(run[w])
                /\ Mine(w) \in Ids /\ reqs[Mine(w)] \in RequestRow
                /\ RequestIsSound(reqs[Mine(w)])
                /\ run[w].key # DeletionKey => Mine(w) = run[w].key[2]
                /\ run[w].key[1] = "export" => reqs[Mine(w)].kind = "export"
                /\ run[w].key[1] = "final" => reqs[Mine(w)].notice
  <1>1. /\ run \in [Workers -> Run] /\ run[w] \in Run
        /\ run[w].key \in JobKeys
        /\ Known(run[w]) /\ JobIsSound(run[w].key)
    BY DEF PInv, Types, Run, Tables
  <1>2. \A r \in Ids : reqs[r] \in RequestRow /\ RequestIsSound(reqs[r])
    BY IdsAre DEF PInv, Tables
  <1>3. run[w].key[1] # "deletion" => run[w].key # DeletionKey
    BY DEF DeletionKey
  <1>. QED BY <1>1, <1>2, <1>3 DEF Run, Known, JobIsSound, Mine

\* What it knows, without the types.
LEMMA InHand ==
    ASSUME PInv, NEW w \in Workers, run[w].step # "idle"
    PROVE  /\ jobs[run[w].key].status = "pending" /\ jobs[run[w].key].at <= now
           /\ MediaInHand(run[w]) /\ RequestInHand(run[w]) /\ FirstPhase(run[w])
BY AtWork

\* The records keep their soundness.
LEMMA TablesKeep ==
    ASSUME PInv, RequestsKept, now' = now,
           \A key \in JobKeys : jobs'[key] = jobs[key] \/ JobIsSound(key)',
           \A r \in Ids' : RequestIsSound(reqs'[r])
    PROVE  Tables'
  <1>1. \A r \in Ids' : RequestIsSound(reqs[r])'
    BY DEF RequestIsSound
  <1>2. ASSUME NEW key \in JobKeys, jobs'[key] = jobs[key] PROVE JobIsSound(key)'
    <2>1. JobIsSound(key) /\ (key[1] # "deletion" => key # DeletionKey)
      BY DEF PInv, Tables, DeletionKey
    <2>2. \A r \in Ids : reqs[r].notice => reqs[r].sent <= now
      BY DEF PInv, Tables, RequestIsSound
    <2>. QED BY <1>2, <2>1, <2>2 DEF JobIsSound, RequestsKept
  <1>. QED BY <1>1, <1>2 DEF Tables

\* A handler's step that writes nothing to the database.
LEMMA QuietStep ==
    ASSUME PInv, NEW w \in Workers, run[w].step # "idle",
           NEW x \in Run, run' = [run EXCEPT ![w] = x], x.key = run[w].key, x.step # "idle",
           UNCHANGED <<user, held, media, reqs, jobs, late, now>>,
           session' \in BOOLEAN, session' => session, cut \subseteq cut',
           Known(x)',
           session' /\ run[w].step = "sessions" => <<run[w].key, "sessions">> \in cut',
           run[w].step = "final" => <<run[w].key, "final">> \in cut',
           run[w].step # "end"
    PROVE  PInv'
  <1>1. run \in [Workers -> Run] /\ \A v \in Workers : run'[v] = IF v = w THEN x ELSE run[v]
    BY AtWork
  <1>. Ids' = Ids
    BY DEF Ids
  <1>2. Tame
    BY DEF Tame, MediaKept, RequestsKept, JobsKept, Kept
  <1>3. Types'
    BY <1>1 DEF PInv, Types
  <1>4. Tables'
    BY <1>2, TablesKeep DEF PInv, Tables, Tame
  <1>5. OneNotice'
    BY SMTT(20), <1>1 DEF PInv, OneNotice, HasTold, Recut
  <1>6. ErasedIsDeleted' /\ NoLostObject'
    BY DEF PInv, ErasedIsDeleted, NoLostObject
  <1>7. ErasureLeavesNothing'
    BY <1>1, AtWork DEF PInv, ErasureLeavesNothing
  <1>. QED BY <1>2, <1>3, <1>4, <1>5, <1>6, <1>7, HandlerStep

\* A handler's step that writes to its request.
LEMMA WriteStep ==
    ASSUME PInv, NEW w \in Workers, run[w].step \notin {"idle", "end", "sessions"},
           NEW x \in Run, run' = [run EXCEPT ![w] = x], x.key = run[w].key, x.step # "idle",
           UNCHANGED <<user, held, media, session, jobs, cut, now>>,
           NEW m \in Ids, NEW q \in RequestRow, reqs' = [reqs EXCEPT ![m] = q],
           q.kind = reqs[m].kind, q.since = reqs[m].since,
           reqs[m].notice => q.notice, reqs[m].sent <= now => q.sent = reqs[m].sent,
           RequestIsSound(q), late \subseteq late',
           q.copy => reqs[m].copy \/ ~user.erased \/ <<"export", m>> \in late',
           Known(x)',
           q.notice => reqs[m].notice \/ (x.step = "final" /\ x.key = <<"notice", m>>),
           run[w].step # "final"
    PROVE  PInv'
  <1>1. run \in [Workers -> Run] /\ \A v \in Workers : run'[v] = IF v = w THEN x ELSE run[v]
    BY AtWork
  <1>2. /\ reqs' \in Seq(RequestRow) /\ Len(reqs') = Len(reqs) /\ Ids' = Ids
        /\ \A r \in Ids : reqs'[r] = IF r = m THEN q ELSE reqs[r]
    BY OneRewritten DEF PInv
  <1>3. Tame
    BY <1>2 DEF Tame, MediaKept, RequestsKept, JobsKept, Kept
  <1>4. Types'
    BY <1>1, <1>2 DEF PInv, Types
  <1>5. Tables'
    <2>1. \A r \in Ids : RequestIsSound(reqs'[r])
      BY <1>2 DEF PInv, Tables
    <2>. QED BY <2>1, <1>2, <1>3, TablesKeep DEF Tame
  <1>6. OneNotice'
    <2>. SUFFICES ASSUME NEW r \in Ids, jobs[<<"notice", r>>].status = "pending",
                         reqs'[r].notice, ~Recut(<<"notice", r>>)
                  PROVE  \E v \in Workers : run'[v].key = <<"notice", r>> /\ HasTold(run'[v])
      BY <1>2 DEF OneNotice, Recut, HasTold
    <2>1. CASE reqs[r].notice
      <3>1. PICK v \in Workers : run[v].key = <<"notice", r>> /\ HasTold(run[v])
        BY <2>1 DEF PInv, OneNotice
      <3>. QED BY <3>1, <1>1 DEF HasTold
    <2>2. CASE ~reqs[r].notice
      BY <2>2, <1>1, <1>2 DEF HasTold
    <2>. QED BY <2>1, <2>2
  <1>7. ErasedIsDeleted' /\ NoLostObject'
    BY DEF PInv, ErasedIsDeleted, NoLostObject
  <1>8. ErasureLeavesNothing'
    <2>1. \A r \in Ids : user.erased /\ reqs'[r].copy => <<"export", r>> \in late'
      BY <1>2 DEF PInv, ErasureLeavesNothing
    <2>. QED BY <1>1, <1>2, <2>1 DEF PInv, ErasureLeavesNothing
  <1>. QED BY <1>3, <1>4, <1>5, <1>6, <1>7, <1>8, HandlerStep

-----------------------------------------------------------------------------
(* The statements of the handlers that only read.                          *)

\* The handler's record but for its step and its result.
SameHands(x, z) ==
    /\ x.key = z.key /\ x.todo = z.todo /\ x.object = z.object
    /\ x.failed = z.failed /\ x.notice = z.notice

LEMMA StepIs ==
    ASSUME PInv, NEW w \in Workers, NEW step \in Steps, Step(w, step)
    PROVE  \E x \in Run : run' = [run EXCEPT ![w] = x] /\ x.step = step /\ SameHands(x, run[w])
  <1>1. PICK z \in Run : z = run[w]
    BY AtWork
  <1>2. [z EXCEPT !.step = step] \in Run
    BY DEF Run
  <1>3. run' = [run EXCEPT ![w] = [z EXCEPT !.step = step]]
    BY <1>1, AtWork DEF Step
  <1>. QED BY <1>1, <1>2, <1>3 DEF Run, SameHands

LEMMA DoneIs ==
    ASSUME PInv, NEW w \in Workers, NEW ok \in BOOLEAN, Done(w, ok)
    PROVE  \E x \in Run : /\ run' = [run EXCEPT ![w] = x] /\ x.step = "end" /\ x.ok = ok
                          /\ SameHands(x, run[w])
  <1>1. PICK z \in Run : z = run[w]
    BY AtWork
  <1>2. [z EXCEPT !.step = "end", !.ok = ok] \in Run
    BY DEF Run, Steps
  <1>3. run' = [run EXCEPT ![w] = [z EXCEPT !.step = "end", !.ok = ok]]
    BY <1>1, AtWork DEF Done
  <1>. QED BY <1>1, <1>2, <1>3 DEF Run, SameHands

LEMMA KnownUnchanged ==
    ASSUME NEW x, Known(x), UNCHANGED <<user, media, reqs, jobs, late, now>>, cut \subseteq cut'
    PROVE  Known(x)'
  BY DEF Known, MediaInHand, RequestInHand, FirstPhase, Recut, Kept

\* A handler that is done knows no more than which job it had.
LEMMA DoneKnows ==
    ASSUME PInv, NEW w \in Workers, run[w].step # "idle",
           NEW x \in Run, x.step = "end", SameHands(x, run[w])
    PROVE  Known(x)
  <1>1. /\ jobs[run[w].key].status = "pending" /\ jobs[run[w].key].at <= now
        /\ MediaInHand(run[w]) /\ RequestInHand(run[w]) /\ FirstPhase(run[w])
    BY AtWork
  <1>2. MediaInHand(x)
    BY <1>1 DEF MediaInHand, SameHands
  <1>3. RequestInHand(x)
    BY <1>1 DEF RequestInHand, SameHands, Erasing
  <1>4. FirstPhase(x)
    BY <1>1 DEF FirstPhase, SameHands, Erasing
  <1>. QED BY <1>1, <1>2, <1>3, <1>4 DEF Known, SameHands

LEMMA LoadRequestKeeps ==
    ASSUME PInv, NEW w \in Workers, LoadRequest(w)
    PROVE  PInv'
  <1>1. /\ run[w].step = "load"
        /\ UNCHANGED <<user, held, media, session, reqs, jobs, late, cut, now>>
    BY DEF LoadRequest, store
  <1>2. CASE reqs[Mine(w)].status \in Open
    <2>1. PICK z \in Run : z = run[w]
      BY AtWork
    <2>2. PICK b \in BOOLEAN : b = reqs[Mine(w)].notice
      BY <1>1, AtWork DEF RequestRow
    <2>. DEFINE x == [z EXCEPT !.step = "user", !.notice = b]
    <2>3. /\ x \in Run /\ x.step = "user" /\ x.key = z.key /\ x.todo = z.todo
          /\ x.object = z.object /\ x.notice = b
      BY DEF Run, Steps
    <2>4. run' = [run EXCEPT ![w] = x]
      BY <1>2, <2>1, <2>2, AtWork DEF LoadRequest
    <2>. HIDE DEF x
    <2>5. x.key[1] = "notice" /\ ~Recut(x.key) => ~x.notice
      <3>. SUFFICES ASSUME x.key[1] = "notice", ~Recut(x.key), x.notice PROVE FALSE
        OBVIOUS
      <3>1. x.key = <<"notice", Mine(w)>> /\ Mine(w) \in Ids
        BY <1>1, <2>1, <2>3, AtWork, KeyIs DEF DeletionKey
      <3>2. jobs[x.key].status = "pending" /\ reqs[Mine(w)].notice
        BY <1>1, <2>1, <2>2, <2>3, AtWork
      <3>3. PICK v \in Workers : run[v].key = x.key /\ HasTold(run[v])
        BY <3>1, <3>2 DEF PInv, OneNotice
      <3>. QED BY <1>1, <2>1, <2>3, <3>3 DEF PInv, OneWorker, HasTold
    <2>6. MediaInHand(x)
      BY <1>1, <2>1, <2>3, InHand DEF MediaInHand
    <2>7. RequestInHand(x)
      <3>1. x.notice = reqs[jobs[x.key].request].notice
        BY <2>1, <2>2, <2>3 DEF Mine
      <3>2. x.key[1] = "final" => x.notice
        <4>1. z.key[1] = "final" => reqs[jobs[z.key].request].notice
          BY <1>1, <2>1, AtWork DEF Mine
        <4>. QED BY <2>3, <3>1, <4>1
      <3>. QED BY <2>3, <3>1, <3>2 DEF RequestInHand, Erasing
    <2>8. FirstPhase(x)
      BY <2>3, <2>5 DEF FirstPhase, Erasing
    <2>9. Known(x)'
      BY <1>1, <2>1, <2>3, <2>6, <2>7, <2>8, InHand, KnownUnchanged DEF Known
    <2>. QED BY <1>1, <2>1, <2>3, <2>4, <2>9, QuietStep DEF PInv, Types
  <1>3. CASE reqs[Mine(w)].status \notin Open
    <2>1. PICK x \in Run : /\ run' = [run EXCEPT ![w] = x] /\ x.step = "end" /\ x.ok = TRUE
                           /\ SameHands(x, run[w])
      BY <1>3, DoneIs DEF LoadRequest
    <2>2. Known(x)'
      BY <1>1, <2>1, DoneKnows, KnownUnchanged
    <2>. QED BY <1>1, <2>1, <2>2, QuietStep DEF PInv, Types, SameHands
  <1>. QED BY <1>2, <1>3

LEMMA LoadUserKeeps ==
    ASSUME PInv, NEW w \in Workers, LoadUser(w)
    PROVE  PInv'
  <1>1. /\ run[w].step = "user" /\ Step(w, Phase(w))
        /\ UNCHANGED <<user, held, media, session, reqs, jobs, late, cut, now>>
    BY DEF LoadUser, store
  <1>2. PICK phase \in {"close", "collect", "notice", "cancel", "processing"} : phase = Phase(w)
    BY DEF Phase
  <1>3. PICK x \in Run : /\ run' = [run EXCEPT ![w] = x] /\ x.step = phase
                         /\ SameHands(x, run[w])
    BY <1>1, <1>2, StepIs DEF Steps
  <1>4. MediaInHand(x)
    BY <1>1, <1>2, <1>3, InHand DEF MediaInHand, SameHands
  <1>5. /\ phase = "collect" => x.key[1] = "export"
        /\ phase = "notice" => x.key[1] = "notice" /\ ~x.notice
        /\ phase = "cancel" => x.key[1] # "deletion" /\ x.notice
        /\ phase = "processing" /\ x.key # DeletionKey =>
              x.key[1] \in {"notice", "final"} /\ x.notice /\ ~reqs[x.key[2]].since
    <2>1. /\ phase = "collect" => run[w].key[1] = "export"
          /\ phase = "notice" => run[w].key[1] \notin {"export", "deletion"} /\ ~run[w].notice
          /\ phase = "cancel" => run[w].key[1] # "deletion" /\ run[w].notice
          /\ phase = "processing" => \/ run[w].key[1] = "deletion"
                                     \/ /\ run[w].key[1] # "export"
                                        /\ run[w].notice /\ ~reqs[Mine(w)].since
      BY <1>2 DEF Phase
    <2>2. run[w].key \in JobKeys /\ RequestInHand(run[w])
      BY <1>1, AtWork
    <2>3. run[w].key # DeletionKey => Mine(w) = run[w].key[2]
      BY <1>1, AtWork
    <2>4. run[w].key[1] = "final" => run[w].notice
      BY <1>1, <2>2 DEF RequestInHand
    <2>5. /\ run[w].key # DeletionKey => run[w].key[1] \in {"notice", "final", "export"}
          /\ run[w].key[1] \in {"notice", "final", "export", "deletion"}
      BY <2>2, KeyIs DEF DeletionKey
    <2>. QED BY <1>3, <2>1, <2>3, <2>4, <2>5 DEF SameHands
  <1>6. RequestInHand(x)
    BY <1>1, <1>2, <1>3, <1>5, InHand DEF RequestInHand, SameHands, Erasing
  <1>7. FirstPhase(x)
    BY <1>1, <1>2, <1>3, <1>5, InHand DEF FirstPhase, SameHands, Erasing, DeletionKey
  <1>8. Known(x)'
    BY <1>1, <1>2, <1>3, <1>4, <1>6, <1>7, InHand, KnownUnchanged DEF Known, SameHands
  <1>. QED BY <1>1, <1>2, <1>3, <1>8, QuietStep DEF PInv, Types, SameHands

LEMMA CollectExportKeeps ==
    ASSUME PInv, NEW w \in Workers, CollectExport(w)
    PROVE  PInv'
  <1>1. /\ run[w].step = "read"
        /\ UNCHANGED <<user, held, media, session, reqs, jobs, late, cut, now>>
    BY DEF CollectExport, store
  <1>2. PICK z \in Run : z = run[w]
    BY AtWork
  <1>3. PICK b \in BOOLEAN : b = (held # {})
    OBVIOUS
  <1>. DEFINE x == [z EXCEPT !.step = "store", !.copy = b]
  <1>4. x \in Run /\ x.step = "store" /\ SameHands(x, z)
    BY DEF Run, Steps, SameHands
  <1>5. run' = [run EXCEPT ![w] = x]
    BY <1>2, <1>3, AtWork DEF CollectExport
  <1>. HIDE DEF x
  <1>6. Known(x)
    <2>1. /\ jobs[z.key].status = "pending" /\ jobs[z.key].at <= now /\ z.step = "read"
          /\ MediaInHand(z) /\ RequestInHand(z) /\ FirstPhase(z)
      BY <1>1, <1>2, AtWork
    <2>2. MediaInHand(x)
      BY <1>4, <2>1 DEF MediaInHand, SameHands
    <2>3. RequestInHand(x)
      BY <1>4, <2>1 DEF RequestInHand, SameHands, Erasing
    <2>4. FirstPhase(x)
      BY <1>4, <2>1 DEF FirstPhase, SameHands, Erasing
    <2>. QED BY <1>4, <2>1, <2>2, <2>3, <2>4 DEF Known, SameHands
  <1>7. Known(x)'
    BY <1>1, <1>6, KnownUnchanged
  <1>. QED BY <1>1, <1>2, <1>4, <1>5, <1>7, QuietStep DEF PInv, Types, SameHands

LEMMA DestroySessionsKeeps ==
    ASSUME PInv, NEW w \in Workers, DestroySessions(w)
    PROVE  PInv'
  <1>1. /\ run[w].step = "sessions" /\ session' = FALSE /\ Done(w, TRUE)
        /\ UNCHANGED <<user, held, media, reqs, jobs, late, cut, now>>
    BY DEF DestroySessions, store
  <1>2. PICK x \in Run : /\ run' = [run EXCEPT ![w] = x] /\ x.step = "end" /\ x.ok = TRUE
                         /\ SameHands(x, run[w])
    BY <1>1, DoneIs
  <1>3. Known(x)'
    BY <1>1, <1>2, DoneKnows, KnownUnchanged
  <1>. QED BY <1>1, <1>2, <1>3, QuietStep DEF PInv, Types, SameHands

\* A statement fails: the handler is done, and it is on record where it was.
LEMMA StatementFails ==
    ASSUME PInv, NEW w \in Workers, run[w].step \notin {"idle", "end"}, Done(w, FALSE),
           UNCHANGED <<user, held, media, session, reqs, jobs, late, now>>,
           cut \subseteq cut',
           run[w].step \in {"final", "sessions"} => <<run[w].key, run[w].step>> \in cut'
    PROVE  PInv'
  <1>1. PICK x \in Run : /\ run' = [run EXCEPT ![w] = x] /\ x.step = "end"
                         /\ SameHands(x, run[w])
    <2>1. FALSE \in BOOLEAN
      OBVIOUS
    <2>. QED BY <2>1, DoneIs
  <1>2. Known(x)'
    BY <1>1, DoneKnows, KnownUnchanged
  <1>. QED BY <1>1, <1>2, QuietStep DEF PInv, Types, SameHands

-----------------------------------------------------------------------------
(* The media of the user.                                                  *)

LEMMA ListMediaKeeps ==
    ASSUME PInv, NEW w \in Workers, ListMedia(w)
    PROVE  PInv'
  <1>1. /\ run[w].step = "list"
        /\ UNCHANGED <<user, held, media, session, reqs, jobs, late, cut, now>>
    BY DEF ListMedia, store
  <1>2. PICK z \in Run : z = run[w]
    BY AtWork
  <1>3. PICK todo \in SUBSET Keys : todo = {k \in Keys : Kept(k)}
    OBVIOUS
  <1>. DEFINE x == [z EXCEPT !.step = "object", !.todo = todo]
  <1>4. /\ x \in Run /\ x.step = "object" /\ x.key = z.key /\ x.todo = todo
        /\ x.object = z.object /\ x.notice = z.notice
    BY DEF Run, Steps
  <1>5. run' = [run EXCEPT ![w] = x]
    BY <1>2, <1>3, AtWork DEF ListMedia, Kept
  <1>. HIDE DEF x
  <1>6. MediaInHand(x)
    BY <1>1, <1>2, <1>3, <1>4, InHand DEF MediaInHand, Kept
  <1>7. RequestInHand(x) /\ FirstPhase(x)
    BY <1>1, <1>2, <1>4, InHand DEF RequestInHand, FirstPhase, Erasing
  <1>8. Known(x)'
    BY <1>1, <1>2, <1>4, <1>6, <1>7, InHand, KnownUnchanged DEF Known
  <1>. QED BY <1>1, <1>2, <1>4, <1>5, <1>8, QuietStep DEF PInv, Types

LEMMA DeleteFailsKeeps ==
    ASSUME PInv, NEW w \in Workers, NEW k \in Keys, DeleteFails(w, k)
    PROVE  PInv'
  <1>1. /\ run[w].step = "object"
        /\ UNCHANGED <<user, held, media, session, reqs, jobs, late, cut, now>>
    BY DEF DeleteFails, store
  <1>2. PICK z \in Run : z = run[w]
    BY AtWork
  <1>3. PICK todo \in SUBSET Keys : todo = z.todo \ {k}
    BY DEF Run
  <1>. DEFINE x == [z EXCEPT !.todo = todo, !.failed = TRUE]
  <1>4. /\ x \in Run /\ x.step = z.step /\ x.key = z.key /\ x.todo = todo
        /\ x.object = z.object /\ x.notice = z.notice /\ x.failed = TRUE
    BY DEF Run
  <1>5. run' = [run EXCEPT ![w] = x]
    BY <1>2, <1>3, AtWork DEF DeleteFails
  <1>. HIDE DEF x
  <1>6. MediaInHand(x)'
    BY <1>1, <1>2, <1>3, <1>4, InHand DEF MediaInHand, Kept
  <1>7. RequestInHand(x)' /\ FirstPhase(x)'
    BY <1>1, <1>2, <1>4, InHand DEF RequestInHand, FirstPhase, Recut, Erasing
  <1>8. Known(x)'
    BY <1>1, <1>2, <1>4, <1>6, <1>7, InHand DEF Known
  <1>. QED BY <1>1, <1>2, <1>4, <1>5, <1>8, QuietStep DEF PInv, Types

LEMMA MediaDoneKeeps ==
    ASSUME PInv, NEW w \in Workers, MediaDone(w)
    PROVE  PInv'
  <1>1. /\ run[w].step = "object" /\ run[w].todo = {} /\ run[w].object = {}
        /\ UNCHANGED <<user, held, media, session, reqs, jobs, late, cut, now>>
    BY InHand DEF MediaDone, store, MediaInHand
  <1>2. CASE run[w].failed
    <2>1. PICK x \in Run : /\ run' = [run EXCEPT ![w] = x] /\ x.step = "end"
                           /\ SameHands(x, run[w])
      <3>1. Done(w, FALSE) /\ FALSE \in BOOLEAN
        BY <1>2 DEF MediaDone
      <3>. QED BY <3>1, DoneIs
    <2>2. Known(x)'
      BY <1>1, <2>1, DoneKnows, KnownUnchanged
    <2>. QED BY <1>1, <2>1, <2>2, QuietStep DEF PInv, Types, SameHands
  <1>3. CASE ~run[w].failed
    <2>1. PICK x \in Run : /\ run' = [run EXCEPT ![w] = x] /\ x.step = "erase"
                           /\ SameHands(x, run[w])
      <3>1. Step(w, "erase") /\ "erase" \in Steps
        BY <1>3 DEF MediaDone, Steps
      <3>. QED BY <3>1, StepIs
    <2>2. MediaInHand(x)
      BY <1>1, <1>3, <2>1, InHand DEF MediaInHand, SameHands
    <2>3. RequestInHand(x) /\ FirstPhase(x)
      BY <1>1, <2>1, InHand DEF RequestInHand, FirstPhase, Erasing, SameHands
    <2>4. Known(x)'
      BY <1>1, <2>1, <2>2, <2>3, InHand, KnownUnchanged DEF Known, SameHands
    <2>. QED BY <1>1, <2>1, <2>4, QuietStep DEF PInv, Types, SameHands
  <1>. QED BY <1>2, <1>3

\* A step of an erasure in the storage or on the rows: no object comes back.
LEMMA MediaStep ==
    ASSUME PInv, NEW w \in Workers, run[w].step \in {"object", "row"},
           NEW x \in Run, run' = [run EXCEPT ![w] = x], x.key = run[w].key,
           x.step \in {"object", "row"}, x.notice = run[w].notice,
           UNCHANGED <<user, held, session, reqs, jobs, late, cut, now>>,
           media' \in [Keys -> MediaRow],
           \A k \in Keys : /\ media[k].row # "none" => media'[k].row # "none"
                           /\ ~media[k].object => ~media'[k].object
                           /\ Kept(k)' => Kept(k)
                           /\ media'[k].row = "removed" => ~media'[k].object,
           MediaInHand(x)'
    PROVE  PInv'
  <1>1. run \in [Workers -> Run] /\ \A v \in Workers : run'[v] = IF v = w THEN x ELSE run[v]
    BY AtWork
  <1>2. Ids' = Ids
    BY DEF Ids
  <1>3. Tame
    BY <1>2 DEF Tame, MediaKept, RequestsKept, JobsKept
  <1>4. Types'
    BY <1>1 DEF PInv, Types
  <1>5. Tables'
    BY <1>2, <1>3, TablesKeep DEF PInv, Tables, Tame
  <1>6. OneNotice'
    BY <1>1, <1>2 DEF PInv, OneNotice, HasTold, Recut
  <1>7. ErasedIsDeleted' /\ NoLostObject'
    BY DEF PInv, ErasedIsDeleted, NoLostObject
  <1>8. ErasureLeavesNothing'
    BY <1>1, <1>2 DEF PInv, ErasureLeavesNothing, Kept
  <1>9. Known(x)'
    <2>1. /\ jobs[x.key].status = "pending" /\ jobs[x.key].at <= now
          /\ RequestInHand(run[w]) /\ FirstPhase(run[w])
      BY AtWork
    <2>2. RequestInHand(x)'
      BY <2>1 DEF RequestInHand, Erasing
    <2>3. FirstPhase(x)'
      BY <2>1 DEF FirstPhase, Recut, Erasing
    <2>. QED BY <2>1, <2>2, <2>3 DEF Known
  <1>. QED BY <1>3, <1>4, <1>5, <1>6, <1>7, <1>8, <1>9, HandlerStep

LEMMA DeleteByKeyKeeps ==
    ASSUME PInv, NEW w \in Workers, NEW k \in Keys, DeleteByKey(w, k)
    PROVE  PInv'
  <1>1. /\ run[w].step = "object" /\ k \in run[w].todo
        /\ MediaInHand(run[w]) /\ run[w].object = {}
        /\ UNCHANGED <<user, held, session, reqs, jobs, late, cut, now>>
    BY InHand DEF DeleteByKey, MediaInHand
  <1>2. PICK z \in Run : z = run[w]
    BY AtWork
  <1>3. PICK todo \in SUBSET Keys, object \in SUBSET Keys : todo = z.todo \ {k} /\ object = {k}
    BY DEF Run
  <1>. DEFINE x == [z EXCEPT !.step = "row", !.todo = todo, !.object = object]
  <1>4. /\ x \in Run /\ x.step = "row" /\ x.key = z.key /\ x.todo = todo
        /\ x.object = object /\ x.notice = z.notice /\ x.failed = z.failed
    BY DEF Run, Steps
  <1>5. run' = [run EXCEPT ![w] = x]
    BY <1>2, <1>3, AtWork DEF DeleteByKey
  <1>. HIDE DEF x
  <1>6. PICK y \in MediaRow : y = media[k]
    BY DEF PInv, Types
  <1>7. [y EXCEPT !.object = FALSE] \in MediaRow
    BY DEF MediaRow
  <1>8. /\ media' \in [Keys -> MediaRow]
        /\ \A j \in Keys : /\ media'[j].row = media[j].row
                           /\ j # k => media'[j] = media[j]
        /\ media'[k].object = FALSE
    BY <1>6, <1>7 DEF DeleteByKey, PInv, Types, MediaRow
  <1>9. MediaInHand(x)'
    BY <1>1, <1>2, <1>3, <1>4, <1>8 DEF MediaInHand, Kept
  <1>10. \A j \in Keys : /\ ~media[j].object => ~media'[j].object
                         /\ media'[j].row = "removed" => ~media'[j].object
    BY <1>8 DEF PInv, NoLostObject
  <1>. QED BY <1>1, <1>2, <1>4, <1>5, <1>8, <1>9, <1>10, MediaStep DEF Kept

LEMMA RemoveByIdKeeps ==
    ASSUME PInv, NEW w \in Workers, RemoveById(w)
    PROVE  PInv'
  <1>1. /\ run[w].step = "row" /\ MediaInHand(run[w])
        /\ UNCHANGED <<user, held, session, reqs, jobs, late, cut, now>>
    BY AtWork DEF RemoveById
  <1>2. PICK z \in Run : z = run[w]
    BY AtWork
  <1>. DEFINE x == [z EXCEPT !.step = "object", !.object = {}]
  <1>3. /\ x \in Run /\ x.step = "object" /\ x.key = z.key /\ x.todo = z.todo
        /\ x.object = {} /\ x.notice = z.notice /\ x.failed = z.failed
    BY DEF Run, Steps
  <1>4. run' = [run EXCEPT ![w] = x]
    BY <1>2, AtWork DEF RemoveById
  <1>. HIDE DEF x
  <1>5. \A y \in MediaRow : /\ [y EXCEPT !.row = "removed"] \in MediaRow
                            /\ [y EXCEPT !.row = "removed"].row = "removed"
                            /\ [y EXCEPT !.row = "removed"].object = y.object
    BY DEF MediaRow
  <1>6. /\ media' \in [Keys -> MediaRow]
        /\ \A j \in Keys : /\ media'[j].object = media[j].object
                           /\ media'[j].row = IF j \in run[w].object THEN "removed"
                                              ELSE media[j].row
    BY <1>5 DEF RemoveById, PInv, Types
  <1>7. MediaInHand(x)'
    BY <1>1, <1>2, <1>3, <1>6, AtWork DEF MediaInHand, Kept
  <1>8. \A j \in Keys : media'[j].row = "removed" => ~media'[j].object
    BY <1>1, <1>6 DEF PInv, NoLostObject, MediaInHand
  <1>. QED BY <1>1, <1>2, <1>3, <1>4, <1>6, <1>7, <1>8, MediaStep DEF Kept

-----------------------------------------------------------------------------
(* The statements that write to the request.                               *)

\* The status of a request is something no handler relies on.
LEMMA SetStatusKeeps ==
    ASSUME PInv, NEW w \in Workers, run[w].step \notin {"idle", "end", "sessions", "final"},
           NEW x \in Run, run' = [run EXCEPT ![w] = x], x.key = run[w].key, x.step # "idle",
           NEW status \in {"pending", "processing", "completed", "failed"},
           SetStatus(Mine(w), status),
           UNCHANGED <<user, held, media, session, jobs, late, cut, now>>,
           Known(x)
    PROVE  PInv'
  <1>1. PICK m \in Ids, p \in RequestRow : m = Mine(w) /\ p = reqs[m] /\ RequestIsSound(p)
    BY AtWork
  <1>. DEFINE q == [p EXCEPT !.status = status]
  <1>2. /\ q \in RequestRow /\ q.kind = p.kind /\ q.since = p.since /\ q.notice = p.notice
        /\ q.sent = p.sent /\ q.copy = p.copy
    BY DEF RequestRow
  <1>3. reqs' = [reqs EXCEPT ![m] = q]
    BY <1>1 DEF SetStatus
  <1>. HIDE DEF q
  <1>4. RequestIsSound(q)
    BY <1>1, <1>2 DEF RequestIsSound
  <1>5. Ids' = Ids /\ \A r \in Ids : reqs'[r] = IF r = m THEN q ELSE reqs[r]
    BY <1>2, <1>3, OneRewritten DEF PInv
  <1>6. Tame
    BY <1>1, <1>2, <1>5 DEF Tame, MediaKept, RequestsKept, JobsKept, Kept
  <1>7. Known(x)'
    BY <1>6, StillKnown DEF Kept, Known
  <1>. QED BY <1>1, <1>2, <1>3, <1>4, <1>7, WriteStep

LEMMA CloseKeeps ==
    ASSUME PInv, NEW w \in Workers, CloseRequest(w) \/ CancelErasure(w)
    PROVE  PInv'
  <1>1. /\ run[w].step \in {"close", "cancel"} /\ Done(w, TRUE)
        /\ UNCHANGED <<user, held, media, session, jobs, late, cut, now>>
    BY DEF CloseRequest, CancelErasure, store
  <1>2. PICK status \in {"completed", "failed"} : SetStatus(Mine(w), status)
    BY DEF CloseRequest, CancelErasure
  <1>3. PICK x \in Run : /\ run' = [run EXCEPT ![w] = x] /\ x.step = "end" /\ x.ok = TRUE
                         /\ SameHands(x, run[w])
    BY <1>1, DoneIs
  <1>4. Known(x)
    BY <1>1, <1>3, DoneKnows
  <1>. QED BY <1>1, <1>2, <1>3, <1>4, SetStatusKeeps DEF SameHands

LEMMA MarkRequestProcessingKeeps ==
    ASSUME PInv, NEW w \in Workers, MarkRequestProcessing(w)
    PROVE  PInv'
  <1>1. /\ run[w].step \in {"processing", "collect"} /\ SetStatus(Mine(w), "processing")
        /\ UNCHANGED <<user, held, media, session, jobs, late, cut, now>>
    BY DEF MarkRequestProcessing, store
  <1>2. PICK step \in {"read", "list"} : step = IF run[w].step = "collect" THEN "read" ELSE "list"
    OBVIOUS
  <1>3. PICK x \in Run : /\ run' = [run EXCEPT ![w] = x] /\ x.step = step
                         /\ SameHands(x, run[w])
    <2>1. Step(w, step) /\ step \in Steps
      BY <1>2 DEF MarkRequestProcessing, Steps
    <2>. QED BY <2>1, StepIs
  <1>4. MediaInHand(x)
    BY <1>1, <1>3, InHand DEF MediaInHand, SameHands
  <1>5. RequestInHand(x) /\ FirstPhase(x)
    BY <1>1, <1>2, <1>3, InHand DEF RequestInHand, FirstPhase, Erasing, SameHands
  <1>6. Known(x)
    BY <1>1, <1>3, <1>4, <1>5, InHand DEF Known, SameHands
  <1>. QED BY <1>1, <1>3, <1>6, SetStatusKeeps DEF SameHands

LEMMA SendNoticeKeeps ==
    ASSUME PInv, NEW w \in Workers, SendNotice(w)
    PROVE  PInv'
  <1>1. /\ run[w].step = "notice" /\ Step(w, "merge") /\ "merge" \in Steps
        /\ UNCHANGED <<user, held, media, session, jobs, late, cut, now>>
    BY DEF SendNotice, store, Steps
  <1>2. PICK x \in Run : /\ run' = [run EXCEPT ![w] = x] /\ x.step = "merge"
                         /\ SameHands(x, run[w])
    BY <1>1, StepIs
  <1>3. PICK m \in Ids, p \in RequestRow : m = Mine(w) /\ p = reqs[m] /\ RequestIsSound(p)
    BY <1>1, AtWork
  <1>4. now \in 0..MaxTime /\ ~(Never <= now) /\ now # Never
    BY PrivacyAssumption DEF PInv, Types, Never
  <1>5. PICK sent \in Nat : sent = (IF p.sent = Never THEN now ELSE p.sent) /\ sent <= now
    BY <1>3, <1>4 DEF RequestRow, RequestIsSound
  <1>. DEFINE q == [p EXCEPT !.sent = sent]
  <1>6. /\ q \in RequestRow /\ q.kind = p.kind /\ q.since = p.since /\ q.notice = p.notice
        /\ q.sent = sent /\ q.copy = p.copy
    BY DEF RequestRow
  <1>7. reqs' = [reqs EXCEPT ![m] = q]
    BY <1>3, <1>5 DEF SendNotice
  <1>. HIDE DEF q
  <1>8. RequestIsSound(q)
    BY <1>3, <1>5, <1>6 DEF RequestIsSound
  <1>9. Ids' = Ids /\ \A r \in Ids : reqs'[r] = IF r = m THEN q ELSE reqs[r]
    BY <1>6, <1>7, OneRewritten DEF PInv
  <1>10. x.key[1] = "notice" /\ m = x.key[2] /\ x.key # DeletionKey
    <2>1. run[w].key[1] = "notice"
      BY <1>1, InHand DEF RequestInHand
    <2>2. run[w].key # DeletionKey
      BY <2>1 DEF DeletionKey
    <2>3. Mine(w) = run[w].key[2]
      BY <1>1, <2>2, AtWork
    <2>. QED BY <1>2, <1>3, <2>1, <2>2, <2>3 DEF SameHands
  <1>11. MediaInHand(x)'
    BY <1>1, <1>2, InHand DEF MediaInHand, SameHands, Kept
  <1>12. RequestInHand(x)'
    <2>1. x.notice => p.notice
      BY <1>1, <1>2, <1>3, InHand DEF RequestInHand, SameHands, Mine
    <2>2. jobs'[x.key].request = m /\ reqs'[m] = q
      BY <1>1, <1>2, <1>3, <1>9 DEF SameHands, Mine
    <2>. QED BY <1>1, <1>2, <1>5, <1>6, <1>10, <2>1, <2>2 DEF RequestInHand, Erasing
  <1>13. FirstPhase(x)'
    BY <1>1, <1>2, InHand DEF FirstPhase, Recut, SameHands, Erasing
  <1>14. Known(x)'
    BY <1>1, <1>2, <1>11, <1>12, <1>13, InHand DEF Known, SameHands
  <1>15. p.sent <= now => q.sent = p.sent
    BY <1>4, <1>5, <1>6
  <1>. QED BY <1>1, <1>2, <1>3, <1>6, <1>7, <1>8, <1>14, <1>15, WriteStep DEF SameHands

LEMMA MergeDetailKeeps ==
    ASSUME PInv, NEW w \in Workers, MergeDetail(w)
    PROVE  PInv'
  <1>1. /\ run[w].step = "merge" /\ Step(w, "final") /\ "final" \in Steps
        /\ UNCHANGED <<user, held, media, session, jobs, late, cut, now>>
    BY DEF MergeDetail, store, Steps
  <1>2. PICK x \in Run : /\ run' = [run EXCEPT ![w] = x] /\ x.step = "final"
                         /\ SameHands(x, run[w])
    BY <1>1, StepIs
  <1>3. PICK m \in Ids, p \in RequestRow : m = Mine(w) /\ p = reqs[m] /\ RequestIsSound(p)
    BY <1>1, AtWork
  <1>4. /\ x.key[1] = "notice" /\ m = x.key[2] /\ x.key # DeletionKey /\ p.sent <= now
        /\ x.key = <<"notice", m>>
    <2>1. run[w].key[1] = "notice"
      BY <1>1, InHand DEF RequestInHand
    <2>2. run[w].key # DeletionKey
      BY <2>1 DEF DeletionKey
    <2>3. Mine(w) = run[w].key[2]
      BY <1>1, <2>2, AtWork
    <2>4. p.sent <= now
      BY <1>1, <1>3, <2>2, <2>3, InHand DEF RequestInHand
    <2>5. run[w].key \in JobKeys
      BY AtWork
    <2>6. run[w].key = <<run[w].key[1], run[w].key[2]>>
      BY <2>2, <2>5, KeyIs
    <2>. QED BY <1>2, <1>3, <2>1, <2>2, <2>3, <2>4, <2>6 DEF SameHands
  <1>. DEFINE q == [p EXCEPT !.notice = TRUE]
  <1>5. /\ q \in RequestRow /\ q.kind = p.kind /\ q.since = p.since /\ q.notice = TRUE
        /\ q.sent = p.sent /\ q.copy = p.copy
    BY DEF RequestRow
  <1>6. reqs' = [reqs EXCEPT ![m] = q]
    BY <1>3 DEF MergeDetail
  <1>. HIDE DEF q
  <1>7. RequestIsSound(q)
    BY <1>3, <1>4, <1>5 DEF RequestIsSound
  <1>8. Ids' = Ids /\ \A r \in Ids : reqs'[r] = IF r = m THEN q ELSE reqs[r]
    BY <1>5, <1>6, OneRewritten DEF PInv
  <1>9. MediaInHand(x)'
    BY <1>1, <1>2, InHand DEF MediaInHand, SameHands, Kept
  <1>10. RequestInHand(x)'
    <2>1. jobs'[x.key].request = m /\ reqs'[m] = q
      BY <1>1, <1>2, <1>3, <1>8 DEF SameHands, Mine
    <2>. QED BY <1>1, <1>2, <1>4, <1>5, <2>1 DEF RequestInHand, Erasing
  <1>11. FirstPhase(x)'
    BY <1>1, <1>2, InHand DEF FirstPhase, Recut, SameHands, Erasing
  <1>12. Known(x)'
    BY <1>1, <1>2, <1>9, <1>10, <1>11, InHand DEF Known, SameHands
  <1>. QED BY <1>1, <1>2, <1>3, <1>4, <1>5, <1>6, <1>7, <1>12, WriteStep DEF SameHands

\* An export that is stored after the erasure is on record as written behind it.
LEMMA StoreExportKeeps ==
    ASSUME PInv, NEW w \in Workers, StoreExport(w)
    PROVE  PInv'
  <1>1. /\ run[w].step = "store" /\ Done(w, TRUE) /\ Written({<<"export", Mine(w)>>})
        /\ UNCHANGED <<user, held, media, session, jobs, cut, now>>
    BY DEF StoreExport, store
  <1>2. PICK x \in Run : /\ run' = [run EXCEPT ![w] = x] /\ x.step = "end" /\ x.ok = TRUE
                         /\ SameHands(x, run[w])
    BY <1>1, DoneIs
  <1>3. PICK m \in Ids, p \in RequestRow : /\ m = Mine(w) /\ p = reqs[m] /\ RequestIsSound(p)
                                           /\ p.kind = "export"
    BY <1>1, AtWork DEF RequestInHand
  <1>4. PICK b \in BOOLEAN : b = run[w].copy
    BY AtWork
  <1>. DEFINE q == [p EXCEPT !.status = "completed", !.copy = b]
  <1>5. /\ q \in RequestRow /\ q.kind = p.kind /\ q.since = p.since /\ q.notice = p.notice
        /\ q.sent = p.sent
    BY DEF RequestRow
  <1>6. reqs' = [reqs EXCEPT ![m] = q]
    BY <1>3, <1>4, IdsAre DEF StoreExport, PInv, RequestRow
  <1>. HIDE DEF q
  <1>7. RequestIsSound(q)
    BY <1>3, <1>5 DEF RequestIsSound
  <1>8. late \subseteq late' /\ (user.erased => <<"export", m>> \in late')
    BY <1>1, <1>3 DEF Written
  <1>9. Ids' = Ids /\ \A r \in Ids : reqs'[r] = IF r = m THEN q ELSE reqs[r]
    BY <1>5, <1>6, OneRewritten DEF PInv
  <1>10. Tame
    BY <1>1, <1>3, <1>5, <1>8, <1>9 DEF Tame, MediaKept, RequestsKept, JobsKept, Kept
  <1>11. Known(x)
    BY <1>1, <1>2, DoneKnows
  <1>12. Known(x)'
    BY <1>1, <1>2, <1>10, <1>11, StillKnown DEF Kept, Known
  <1>. QED BY <1>1, <1>2, <1>3, <1>5, <1>6, <1>7, <1>8, <1>12, WriteStep DEF SameHands

-----------------------------------------------------------------------------
(* The jobs.                                                               *)

LEMMA EnqueuedIs ==
    ASSUME Types, NEW key \in JobKeys, NEW request \in Nat, NEW at \in Nat,
           jobs' = Enqueued(key, request, at)
    PROVE  /\ jobs' \in [JobKeys -> JobRow]
           /\ \A k \in JobKeys : k # key \/ jobs[k].status # "absent" => jobs'[k] = jobs[k]
           /\ jobs[key].status = "absent" =>
                 jobs'[key].status = "pending" /\ jobs'[key].request = request /\ jobs'[key].at = at
           /\ JobsKept
           /\ \A k \in JobKeys : jobs[k].status = "pending" => jobs'[k].status = "pending"
  <1>1. CASE jobs[key].status # "absent"
    BY <1>1 DEF Enqueued, Types, JobsKept
  <1>2. CASE jobs[key].status = "absent"
    <2>. DEFINE j == [status |-> "pending", request |-> request, at |-> at, attempts |-> 0]
    <2>1. j \in JobRow /\ j.status = "pending" /\ j.request = request /\ j.at = at
      BY DEF JobRow
    <2>2. jobs' = [jobs EXCEPT ![key] = j]
      BY <1>2 DEF Enqueued
    <2>. HIDE DEF j
    <2>. QED BY <1>2, <2>1, <2>2 DEF Types, JobsKept
  <1>. QED BY <1>1, <1>2

\* The second job comes after the notice, and is due a window later.
LEMMA EnqueueFinalKeeps ==
    ASSUME PInv, NEW w \in Workers, EnqueueFinal(w)
    PROVE  PInv'
  <1>1. /\ run[w].step = "final" /\ Done(w, TRUE)
        /\ UNCHANGED <<user, held, media, session, reqs, late, cut, now>>
        /\ Ids' = Ids
    BY DEF EnqueueFinal, store, Ids
  <1>2. PICK x \in Run : /\ run' = [run EXCEPT ![w] = x] /\ x.step = "end" /\ x.ok = TRUE
                         /\ SameHands(x, run[w])
    BY <1>1, DoneIs
  <1>3. PICK m \in Ids : /\ m = Mine(w) /\ m \in 1..MaxRequests
                         /\ reqs[m].notice /\ reqs[m].sent <= now /\ reqs[m].sent \in Nat
    <2>1. run[w].key[1] = "notice" /\ run[w].key # DeletionKey /\ reqs[run[w].key[2]].notice
      BY <1>1, InHand DEF RequestInHand, DeletionKey
    <2>2. Mine(w) \in Ids /\ reqs[Mine(w)].notice /\ Mine(w) \in 1..MaxRequests
      BY <1>1, <2>1, AtWork, IdsAre DEF PInv
    <2>. QED BY <1>1, <2>2, AtWork DEF RequestIsSound, RequestRow
  <1>4. PICK at \in Nat : at = now + Window
    BY PrivacyAssumption DEF PInv, Types
  <1>. DEFINE key == <<"final", m>>
  <1>5. key \in JobKeys /\ key # DeletionKey /\ key[1] = "final" /\ key[2] = m
    BY <1>3, KeysAre
  <1>6. /\ jobs' \in [JobKeys -> JobRow] /\ JobsKept
        /\ \A k \in JobKeys : k # key \/ jobs[k].status # "absent" => jobs'[k] = jobs[k]
        /\ jobs[key].status = "absent" => jobs'[key].request = m /\ jobs'[key].at = at
        /\ \A k \in JobKeys : jobs[k].status = "pending" => jobs'[k].status = "pending"
    <2>1. jobs' = Enqueued(key, m, at) /\ m \in Nat
      BY <1>3, <1>4 DEF EnqueueFinal
    <2>. QED BY <1>5, <2>1, EnqueuedIs DEF PInv
  <1>. HIDE DEF key
  <1>7. run \in [Workers -> Run] /\ \A v \in Workers : run'[v] = IF v = w THEN x ELSE run[v]
    BY <1>2, AtWork
  <1>8. Tame
    BY <1>1, <1>6 DEF Tame, MediaKept, RequestsKept, Kept
  <1>9. Types'
    BY <1>1, <1>2, <1>6, <1>7 DEF PInv, Types
  <1>10. jobs[key].status = "absent" => JobIsSound(key)'
    BY <1>1, <1>3, <1>4, <1>5, <1>6, PrivacyAssumption DEF JobIsSound, PInv, Types
  <1>11. Tables'
    BY <1>1, <1>6, <1>8, <1>10, TablesKeep DEF Tame, PInv, Tables
  <1>12. OneNotice'
    <2>1. \A r \in Ids : jobs'[<<"notice", r>>] = jobs[<<"notice", r>>]
      <3>. SUFFICES ASSUME NEW r \in Ids PROVE jobs'[<<"notice", r>>] = jobs[<<"notice", r>>]
        OBVIOUS
      <3>1. <<"notice", r>> \in JobKeys
        BY IdsAre, KeysAre DEF PInv
      <3>2. <<"notice", r>> # key
        BY <1>5
      <3>. QED BY <1>6, <3>1, <3>2
    <2>2. \A v \in Workers : HasTold(run[v]) => HasTold(run'[v]) /\ run'[v].key = run[v].key
      BY <1>1, <1>2, <1>7 DEF SameHands, HasTold
    <2>. QED BY SMTT(20), <1>1, <2>1, <2>2 DEF PInv, OneNotice, HasTold, Recut
  <1>13. ErasedIsDeleted' /\ NoLostObject' /\ ErasureLeavesNothing'
    BY <1>1, <1>7 DEF PInv, ErasedIsDeleted, NoLostObject, ErasureLeavesNothing
  <1>14. Known(x) /\ jobs[x.key].status = "pending" /\ x.key \in JobKeys
    BY <1>1, <1>2, DoneKnows, AtWork DEF SameHands
  <1>15. Known(x)'
    BY <1>2, <1>6, <1>8, <1>14, StillKnown
  <1>. QED BY <1>1, <1>2, <1>6, <1>8, <1>9, <1>11, <1>12, <1>13, <1>15, HandlerStep DEF SameHands

\* The transaction that erases: every store is emptied, every copy is wiped,
\* and the media that are left were attached behind the handler's back.
LEMMA EraseAccountKeeps ==
    ASSUME PInv, NEW w \in Workers, EraseAccount(w)
    PROVE  PInv'
  <1>1. /\ run[w].step = "erase" /\ Step(w, "sessions") /\ "sessions" \in Steps
        /\ UNCHANGED <<media, session, jobs, late, cut, now>>
    BY DEF EraseAccount, Steps
  <1>2. PICK x \in Run : /\ run' = [run EXCEPT ![w] = x] /\ x.step = "sessions"
                         /\ SameHands(x, run[w])
    BY <1>1, StepIs
  <1>3. /\ user' \in UserRow /\ user'.erased /\ user'.deleted /\ user'.active = user.active
    BY DEF EraseAccount, PInv, Types, UserRow
  <1>4. held' = {}
    BY DEF EraseAccount, PInv, Types, Stores, EraseUserRow, SeverAuthorReferences,
           ScrubListings, ClearHostProfile, DeleteVerificationTokens
  <1>5. \A r \in Ids : reqs[r] \in RequestRow /\ RequestIsSound(reqs[r])
    BY IdsAre DEF PInv, Tables
  <1>. DEFINE f == WipeExportDetails(reqs)
  <1>6. \A r \in Ids : /\ f[r] \in RequestRow /\ f[r].kind = reqs[r].kind
                       /\ f[r].since = reqs[r].since /\ f[r].notice = reqs[r].notice
                       /\ f[r].sent = reqs[r].sent /\ f[r].copy = FALSE
    BY <1>5 DEF WipeExportDetails, Ids, RequestRow, RequestIsSound
  <1>7. f \in Seq(RequestRow) /\ Len(f) = Len(reqs) /\ DOMAIN f = Ids
    <2>1. f = [r \in Ids |-> f[r]]
      BY DEF WipeExportDetails, Ids
    <2>. HIDE DEF f
    <2>. QED BY <1>6, <2>1, Rewritten DEF PInv
  <1>8. PICK m \in Ids, p \in RequestRow : m = Mine(w) /\ p = f[m]
    BY <1>1, <1>6, AtWork
  <1>. DEFINE q == [p EXCEPT !.status = "completed"]
  <1>9. /\ q \in RequestRow /\ q.kind = p.kind /\ q.since = p.since /\ q.notice = p.notice
        /\ q.sent = p.sent /\ q.copy = p.copy
    BY DEF RequestRow
  <1>10. reqs' = [f EXCEPT ![m] = q]
    BY <1>8 DEF EraseAccount
  <1>. HIDE DEF f, q
  <1>11. /\ reqs' \in Seq(RequestRow) /\ Len(reqs') = Len(reqs) /\ Ids' = Ids
         /\ \A r \in Ids : reqs'[r] = IF r = m THEN q ELSE f[r]
    BY <1>7, <1>9, <1>10 DEF Ids
  <1>12. \A r \in Ids : /\ reqs'[r].kind = reqs[r].kind /\ reqs'[r].since = reqs[r].since
                        /\ reqs'[r].notice = reqs[r].notice /\ reqs'[r].sent = reqs[r].sent
                        /\ reqs'[r].copy = FALSE /\ RequestIsSound(reqs'[r])
    BY <1>5, <1>6, <1>8, <1>9, <1>11 DEF RequestIsSound
  <1>13. run \in [Workers -> Run] /\ \A v \in Workers : run'[v] = IF v = w THEN x ELSE run[v]
    BY <1>2, AtWork
  <1>14. Tame
    BY <1>1, <1>3, <1>11, <1>12 DEF Tame, MediaKept, RequestsKept, JobsKept, Kept
  <1>15. Types'
    BY <1>1, <1>2, <1>3, <1>4, <1>11, <1>13 DEF PInv, Types
  <1>16. Tables'
    BY <1>1, <1>11, <1>12, <1>14, TablesKeep DEF Tame
  <1>17. OneNotice'
    BY <1>1, <1>2, <1>11, <1>12, <1>13 DEF PInv, OneNotice, HasTold, Recut
  <1>18. ErasedIsDeleted' /\ NoLostObject'
    BY <1>1, <1>3 DEF PInv, ErasedIsDeleted, NoLostObject
  <1>19. ErasureLeavesNothing'
    <2>1. \A k \in Keys : media[k].row \in {"live", "hidden"} => <<"media", k>> \in late
      BY <1>1, InHand DEF MediaInHand, Kept
    <2>. QED BY <1>1, <1>2, <1>4, <1>11, <1>12, <1>13, <2>1 DEF ErasureLeavesNothing
  <1>20. Known(x)
    <2>1. /\ jobs[run[w].key].status = "pending" /\ jobs[run[w].key].at <= now
          /\ MediaInHand(run[w]) /\ RequestInHand(run[w]) /\ FirstPhase(run[w])
      BY <1>1, AtWork
    <2>2. MediaInHand(x)
      BY <1>1, <1>2, <2>1 DEF MediaInHand, SameHands
    <2>3. RequestInHand(x)
      BY <1>1, <1>2, <2>1 DEF RequestInHand, SameHands, Erasing
    <2>4. FirstPhase(x)
      BY <1>1, <1>2, <2>1 DEF FirstPhase, SameHands, Erasing
    <2>. QED BY <1>2, <2>1, <2>2, <2>3, <2>4 DEF Known, SameHands
  <1>21. Known(x)'
    BY <1>1, <1>2, <1>14, <1>20, StillKnown DEF Known
  <1>. QED BY <1>1, <1>2, <1>14, <1>15, <1>16, <1>17, <1>18, <1>19, <1>21, HandlerStep DEF SameHands

-----------------------------------------------------------------------------
(* The worker around the handler.                                          *)

LEMMA NoRunIs ==
    /\ NoRun \in Run /\ NoRun.step = "idle"
    /\ \A key \in JobKeys : LET x == [NoRun EXCEPT !.step = "load", !.key = key]
                            IN  /\ x \in Run /\ x.step = "load" /\ x.key = key /\ x.todo = {}
                                /\ x.object = {} /\ x.notice = FALSE
  BY DEF NoRun, Run, Steps, JobKeys

LEMMA ClaimKeeps ==
    ASSUME PInv, NEW w \in Workers, NEW key \in JobKeys, Claim(w, key)
    PROVE  PInv'
  <1>1. /\ run[w].step = "idle" /\ jobs[key].status = "pending" /\ jobs[key].at <= now
        /\ \A v \in Workers : run[v].step # "idle" => run[v].key # key
        /\ UNCHANGED <<user, held, media, session, reqs, jobs, late, cut, now>>
        /\ Ids' = Ids
    BY DEF Claim, Due, Running, store, Ids
  <1>2. PICK x \in Run : /\ x = [NoRun EXCEPT !.step = "load", !.key = key]
                         /\ x.step = "load" /\ x.key = key /\ x.todo = {}
                         /\ x.object = {} /\ x.notice = FALSE
    BY NoRunIs
  <1>3. /\ run' = [run EXCEPT ![w] = x]
        /\ \A v \in Workers : run'[v] = IF v = w THEN x ELSE run[v]
    BY <1>2, AtWork DEF Claim
  <1>4. Tame
    BY <1>1 DEF Tame, MediaKept, RequestsKept, JobsKept, Kept
  <1>5. Types'
    BY <1>1, <1>3 DEF PInv, Types
  <1>6. Tables'
    BY <1>1, <1>4, TablesKeep DEF PInv, Tables, Tame
  <1>7. Known(x)'
    <2>1. Known(x)
      BY <1>1, <1>2 DEF Known, MediaInHand, RequestInHand, FirstPhase, Erasing
    <2>. QED BY <1>1, <2>1, KnownUnchanged
  <1>8. \A v \in Workers : Known(run[v])'
    <2>. SUFFICES ASSUME NEW v \in Workers, v # w PROVE Known(run[v])'
      BY <1>3, <1>7
    <2>1. run'[v] = run[v] /\ (run[v].step # "idle" => jobs'[run[v].key].status = "pending")
      BY <1>1, <1>3 DEF PInv, Known
    <2>. QED BY <1>4, <2>1, KnownKept
  <1>9. OneWorker'
    BY <1>1, <1>2, <1>3 DEF PInv, OneWorker
  <1>10. \A v \in Workers : run[v].step # "idle" => run'[v] = run[v]
    BY <1>1, <1>3
  <1>11. OneNotice'
    <2>1. \A v \in Workers : HasTold(run[v]) => run'[v] = run[v]
      BY <1>10 DEF HasTold
    <2>2. OneNotice
      BY DEF PInv
    <2>. QED BY <1>1, <2>1, <2>2 DEF OneNotice, HasTold, Recut
  <1>12. ErasedIsDeleted' /\ NoLostObject'
    BY <1>1 DEF PInv, ErasedIsDeleted, NoLostObject
  <1>13. ErasureLeavesNothing'
    BY <1>1, <1>10 DEF PInv, ErasureLeavesNothing
  <1>. QED BY <1>5, <1>6, <1>8, <1>9, <1>11, <1>12, <1>13 DEF PInv

\* The handler's record goes back to rest: only the job's own row may change,
\* and keeps what it names.
LEMMA RestStep ==
    ASSUME PInv, NEW w \in Workers, run[w].step # "idle", run' = [run EXCEPT ![w] = NoRun],
           UNCHANGED <<user, held, media, session, reqs, late, now>>, cut \subseteq cut',
           run[w].step = "sessions" => <<run[w].key, "sessions">> \in cut',
           jobs' \in [JobKeys -> JobRow],
           \A key \in JobKeys : /\ key # run[w].key => jobs'[key] = jobs[key]
                                /\ jobs[key].status # "absent" =>
                                     /\ jobs'[key].status # "absent"
                                     /\ jobs'[key].request = jobs[key].request
                                     /\ jobs'[key].at = jobs[key].at,
           \A r \in Ids : run[w].key = <<"notice", r>> /\ HasTold(run[w])
                             => \/ jobs'[run[w].key].status # "pending"
                                \/ <<run[w].key, run[w].step>> \in cut'
    PROVE  PInv'
  <1>1. /\ run' \in [Workers -> Run]
        /\ \A v \in Workers : run'[v] = IF v = w THEN NoRun ELSE run[v]
        /\ Ids' = Ids
    BY NoRunIs, AtWork DEF Ids
  <1>2. Tame
    BY <1>1 DEF Tame, MediaKept, RequestsKept, JobsKept, Kept
  <1>3. Types'
    BY <1>1 DEF PInv, Types
  <1>4. Tables'
    <2>1. \A key \in JobKeys : jobs'[key] = jobs[key] \/ JobIsSound(key)'
      <3>. SUFFICES ASSUME NEW key \in JobKeys, key = run[w].key PROVE JobIsSound(key)'
        OBVIOUS
      <3>1. JobIsSound(key) /\ jobs[key].status = "pending"
        BY AtWork DEF PInv, Tables
      <3>. QED BY <1>1, <3>1 DEF JobIsSound
    <2>. QED BY <1>1, <1>2, <2>1, TablesKeep DEF PInv, Tables, Tame
  <1>5. \A v \in Workers : Known(run[v])'
    <2>. SUFFICES ASSUME NEW v \in Workers PROVE Known(run[v])'
      OBVIOUS
    <2>1. CASE v = w
      BY <1>1, <2>1, NoRunIs DEF Known
    <2>2. CASE v # w
      <3>1. run[v].step # "idle" => run[v].key # run[w].key /\ jobs[run[v].key].status = "pending"
                                    /\ run[v].key \in JobKeys
        BY <2>2, AtWork DEF PInv, OneWorker
      <3>. QED BY <1>1, <1>2, <2>2, <3>1, KnownKept
    <2>. QED BY <2>1, <2>2
  <1>6. OneWorker'
    BY ZenonT(60), <1>1, NoRunIs DEF PInv, OneWorker
  <1>7. OneNotice'
    <2>. SUFFICES ASSUME NEW r \in Ids, jobs'[<<"notice", r>>].status = "pending",
                         reqs[r].notice, ~Recut(<<"notice", r>>)'
                  PROVE  \E v \in Workers : run'[v].key = <<"notice", r>> /\ HasTold(run'[v])
      BY <1>1 DEF OneNotice, HasTold, Recut
    <2>1. <<"notice", r>> \in JobKeys
      BY IdsAre, KeysAre DEF PInv
    <2>2. jobs[<<"notice", r>>].status = "pending" /\ ~Recut(<<"notice", r>>)
      <3>1. CASE <<"notice", r>> = run[w].key
        BY <3>1, InHand DEF Recut
      <3>2. CASE <<"notice", r>> # run[w].key
        BY <2>1, <3>2 DEF Recut
      <3>. QED BY <3>1, <3>2
    <2>3. PICK v \in Workers : run[v].key = <<"notice", r>> /\ HasTold(run[v])
      BY <2>2 DEF PInv, OneNotice
    <2>4. v # w
      <3>. SUFFICES ASSUME v = w PROVE FALSE
        OBVIOUS
      <3>1. run[w].key = <<"notice", r>> /\ run[w].step \in {"final", "end"}
        BY <2>3 DEF HasTold
      <3>2. <<run[w].key, run[w].step>> \in cut'
        BY <2>3, <3>1
      <3>. QED BY <3>1, <3>2 DEF Recut
    <2>. QED BY <1>1, <2>3, <2>4
  <1>8. ErasedIsDeleted' /\ NoLostObject'
    BY <1>1 DEF PInv, ErasedIsDeleted, NoLostObject
  <1>9. ErasureLeavesNothing'
    BY <1>1, AtWork DEF PInv, ErasureLeavesNothing
  <1>. QED BY <1>3, <1>4, <1>5, <1>6, <1>7, <1>8, <1>9 DEF PInv

LEMMA FinishKeeps ==
    ASSUME PInv, NEW w \in Workers, Finish(w)
    PROVE  PInv'
  <1>1. /\ run[w].step = "end" /\ run' = [run EXCEPT ![w] = NoRun]
        /\ UNCHANGED <<user, held, media, session, reqs, late, cut, now>>
    BY DEF Finish, store
  <1>2. PICK key \in JobKeys, j \in JobRow : key = run[w].key /\ j = jobs[key]
    BY AtWork DEF PInv, Types
  <1>3. PICK status \in {"delivered", "dead", "pending"} :
            status = IF run[w].ok THEN "delivered"
                     ELSE IF j.attempts + 1 >= MaxAttempts THEN "dead" ELSE "pending"
    OBVIOUS
  <1>a. PICK n \in Nat : n = j.attempts + 1
    BY DEF JobRow
  <1>. DEFINE i == [j EXCEPT !.status = status, !.attempts = n]
  <1>4. i \in JobRow /\ i.status = status /\ i.request = j.request /\ i.at = j.at
    BY DEF JobRow
  <1>5. jobs' = [jobs EXCEPT ![key] = i]
    BY <1>2, <1>3, <1>a DEF Finish, PInv, Types
  <1>. HIDE DEF i
  <1>6. /\ jobs' \in [JobKeys -> JobRow]
        /\ \A k \in JobKeys : jobs'[k] = IF k = key THEN i ELSE jobs[k]
    BY <1>4, <1>5 DEF PInv, Types
  <1>7. HasTold(run[w]) => status = "delivered"
    BY <1>1, <1>3 DEF HasTold
  <1>8. i.status # "absent"
    BY <1>4
  <1>9. HasTold(run[w]) => jobs'[run[w].key].status # "pending"
    BY <1>2, <1>4, <1>6, <1>7
  <1>. QED BY <1>1, <1>2, <1>4, <1>6, <1>8, <1>9, RestStep DEF PInv, Types

\* A process dies, or a statement fails: where it tells, that is on record.
LEMMA FaultKeeps ==
    ASSUME PInv, NEW w \in Workers, Fault(w)
    PROVE  PInv'
  <1>1. /\ run[w].step # "idle" /\ cut \subseteq cut'
        /\ UNCHANGED <<user, held, media, session, reqs, jobs, late, now>>
    BY DEF Fault, store
  <1>2. run[w].step = "sessions" => <<run[w].key, "sessions">> \in cut'
    BY AtWork DEF Fault, Telling
  <1>3. \A r \in Ids : run[w].key = <<"notice", r>> /\ run[w].step \in {"final", "end"}
                          => <<run[w].key, run[w].step>> \in cut'
    <2>. SUFFICES ASSUME NEW r \in Ids, run[w].key = <<"notice", r>>,
                         run[w].step \in {"final", "end"}
                  PROVE  <<run[w].key, run[w].step>> \in cut'
      OBVIOUS
    <2>1. r \in 1..MaxRequests
      BY IdsAre DEF PInv
    <2>2. run[w].key \in {"notice"} \X (1..MaxRequests)
      BY <2>1
    <2>. QED BY <2>2 DEF Fault, Telling
  <1>4. CASE run' = [run EXCEPT ![w] = NoRun]
    <2>1. \A r \in Ids : run[w].key = <<"notice", r>> /\ HasTold(run[w])
                            => <<run[w].key, run[w].step>> \in cut'
      BY <1>3 DEF HasTold
    <2>2. jobs' \in [JobKeys -> JobRow]
      BY <1>1 DEF PInv, Types
    <2>. QED BY <1>1, <1>2, <1>4, <2>1, <2>2, RestStep
  <1>5. CASE run[w].step # "end" /\ Done(w, FALSE)
    <2>1. run[w].step = "final" => \E r \in Ids : run[w].key = <<"notice", r>>
      <3>. SUFFICES ASSUME run[w].step = "final" PROVE \E r \in Ids : run[w].key = <<"notice", r>>
        OBVIOUS
      <3>1. run[w].key[1] = "notice" /\ run[w].key # DeletionKey
        BY InHand DEF RequestInHand, DeletionKey
      <3>. QED BY <3>1, AtWork, KeyIs
    <2>. QED BY <1>1, <1>2, <1>3, <1>5, <2>1, StatementFails
  <1>. QED BY <1>4, <1>5 DEF Fault

-----------------------------------------------------------------------------
(* The user's requests.                                                    *)

\* A step that leaves the tables and the handlers alone.
LEMMA IdleStep ==
    ASSUME PInv, UNCHANGED <<user, held, media, reqs, jobs, run, late, now>>,
           session' \in BOOLEAN, session' => session, cut' = cut
    PROVE  PInv'
  <1>. Ids' = Ids
    BY DEF Ids
  <1>1. Tame
    BY DEF Tame, MediaKept, RequestsKept, JobsKept, Kept
  <1>2. Types'
    BY DEF PInv, Types
  <1>3. Tables'
    BY <1>1, TablesKeep DEF PInv, Tables, Tame
  <1>4. OneNotice' /\ ErasedIsDeleted' /\ NoLostObject' /\ ErasureLeavesNothing'
    BY DEF PInv, OneNotice, Recut, HasTold, ErasedIsDeleted, NoLostObject, ErasureLeavesNothing
  <1>. QED BY <1>1, <1>2, <1>3, <1>4, OutsideStep

LEMMA EndSessionKeeps ==
    ASSUME PInv, \/ EndSession \/ DeletionEndsSessions \/ DeletionCutShort
                 \/ \E writer \in Writers : Begin(writer)
    PROVE  PInv'
  <1>1. /\ UNCHANGED <<user, held, media, reqs, jobs, run, late, cut, now>>
        /\ session' \in {FALSE, session}
    BY DEF EndSession, Begin, DeletionEndsSessions, DeletionCutShort, store
  <1>2. session \in BOOLEAN
    BY DEF PInv, Types
  <1>3. session' \in BOOLEAN /\ (session' => session)
    <2>1. CASE session' = FALSE
      BY <2>1
    <2>2. CASE session' = session
      BY <2>2, <1>2
    <2>. QED BY <1>1, <2>1, <2>2
  <1>. QED BY <1>1, <1>3, IdleStep

\* A login is a sign of life in every request, made now.
LEMMA LoginKeeps ==
    ASSUME PInv, Login
    PROVE  PInv'
  <1>1. /\ session' = TRUE /\ late \subseteq late' /\ (user.erased => <<"session", 0>> \in late')
        /\ UNCHANGED <<held, media, jobs, run, cut, now>>
    BY DEF Login, Written
  <1>2. user \in UserRow /\ now \in Nat
    BY PrivacyAssumption DEF PInv, Types
  <1>3. /\ user' \in UserRow /\ user'.active = now /\ user'.deleted = user.deleted
        /\ user'.erased = user.erased
    BY <1>2 DEF Login, UserRow
  <1>. DEFINE f == [r \in Ids |-> [reqs[r] EXCEPT !.since = TRUE]]
  <1>4. \A r \in Ids : /\ f[r] \in RequestRow
                      /\ f[r].kind = reqs[r].kind /\ f[r].notice = reqs[r].notice
                      /\ f[r].sent = reqs[r].sent /\ f[r].copy = reqs[r].copy
    BY IdsAre DEF PInv, RequestRow
  <1>5. reqs' = f /\ f = [r \in Ids |-> f[r]]
    BY DEF Login
  <1>. HIDE DEF f
  <1>6. f \in Seq(RequestRow) /\ Len(f) = Len(reqs) /\ DOMAIN f = Ids
    BY <1>4, <1>5, Rewritten DEF PInv
  <1>7. Ids' = Ids
    BY <1>5, <1>6 DEF Ids
  <1>8. Tame
    BY <1>1, <1>3, <1>4, <1>5, <1>7 DEF Tame, MediaKept, RequestsKept, JobsKept, Kept
  <1>9. Types'
    BY <1>1, <1>3, <1>5, <1>6 DEF PInv, Types
  <1>10. Tables'
    <2>1. \A r \in Ids : RequestIsSound(reqs'[r])
      BY <1>4, <1>5 DEF PInv, Tables, RequestIsSound
    <2>. QED BY <1>1, <1>7, <1>8, <2>1, TablesKeep DEF Tame
  <1>11. OneNotice'
    BY <1>1, <1>4, <1>5, <1>7 DEF PInv, OneNotice, HasTold, Recut
  <1>12. ErasedIsDeleted' /\ NoLostObject' /\ ErasureLeavesNothing'
    BY <1>1, <1>3, <1>4, <1>5, <1>7 DEF PInv, ErasedIsDeleted, NoLostObject, ErasureLeavesNothing
  <1>. QED BY <1>1, <1>8, <1>9, <1>10, <1>11, <1>12, OutsideStep

\* What is written behind the erasure's back is accounted for.
LEMMA WriteKeeps ==
    ASSUME PInv, Write
    PROVE  PInv'
  <1>1. /\ held' = held \cup Writes(web) /\ Written(Writes(web) \X {0})
        /\ web \in Writers \ {"login"}
        /\ UNCHANGED <<user, media, session, reqs, jobs, run, cut, now>>
    BY DEF Write
  <1>2. late \subseteq late' /\ (user.erased => \A s \in Writes(web) : <<s, 0>> \in late')
    BY <1>1 DEF Written
  <1>3. Writes(web) \subseteq Stores
    BY <1>1 DEF Writers, Writes, Stores
  <1>. Ids' = Ids
    BY <1>1 DEF Ids
  <1>4. Tame
    BY <1>1, <1>2 DEF Tame, MediaKept, RequestsKept, JobsKept, Kept
  <1>5. Types'
    BY <1>1, <1>3 DEF PInv, Types
  <1>6. Tables'
    BY <1>1, <1>4, TablesKeep DEF PInv, Tables, Tame
  <1>7. OneNotice' /\ ErasedIsDeleted' /\ NoLostObject'
    BY <1>1 DEF PInv, OneNotice, HasTold, Recut, ErasedIsDeleted, NoLostObject
  <1>8. ErasureLeavesNothing'
    BY <1>1, <1>2 DEF PInv, ErasureLeavesNothing
  <1>. QED BY <1>1, <1>4, <1>5, <1>6, <1>7, <1>8, OutsideStep

\* No handler is past the list of the media.
NobodyErases == \A w \in Workers : run[w].step \notin {"object", "row", "erase"}

\* A step that changes one media row, and no other table.
LEMMA OneRowStep ==
    ASSUME PInv, NEW k \in Keys, NEW m \in MediaRow, media' = [media EXCEPT ![k] = m],
           UNCHANGED <<user, held, session, reqs, jobs, run, cut, now>>,
           m.row \notin {"none", "removed"},
           media[k].row # "none" => m.object = media[k].object,
           late \subseteq late',
           \/ Kept(k)
           \/ <<"media", k>> \in late'
           \/ ~user.erased /\ NobodyErases
    PROVE  PInv'
  <1>1. /\ media' \in [Keys -> MediaRow]
        /\ \A c \in Keys : media'[c] = IF c = k THEN m ELSE media[c]
    BY DEF PInv, Types
  <1>. Ids' = Ids
    BY DEF Ids
  <1>2. Tame
    BY <1>1 DEF Tame, MediaKept, RequestsKept, JobsKept, Kept, NobodyErases
  <1>3. Types'
    BY <1>1 DEF PInv, Types
  <1>4. Tables'
    BY <1>2, TablesKeep DEF PInv, Tables, Tame
  <1>5. OneNotice' /\ ErasedIsDeleted'
    BY DEF PInv, OneNotice, HasTold, Recut, ErasedIsDeleted
  <1>6. NoLostObject'
    BY <1>1 DEF PInv, NoLostObject
  <1>7. ErasureLeavesNothing'
    BY <1>1 DEF PInv, ErasureLeavesNothing, Kept
  <1>. QED BY <1>2, <1>3, <1>4, <1>5, <1>6, <1>7, OutsideStep

LEMMA AttachKeeps ==
    ASSUME PInv, NEW k \in Keys, Attach(k)
    PROVE  PInv'
  <1>. DEFINE m == [object |-> TRUE, row |-> "live"]
  <1>1. m \in MediaRow /\ m.row = "live"
    BY DEF MediaRow
  <1>2. /\ media[k].row = "none" /\ media' = [media EXCEPT ![k] = m] /\ Attached(k)
        /\ UNCHANGED <<user, held, session, reqs, jobs, run, cut, now>>
    BY DEF Attach
  <1>. HIDE DEF m
  <1>3. /\ late \subseteq late'
        /\ \/ <<"media", k>> \in late'
           \/ ~user.erased /\ \A w \in Workers : run[w].step \notin {"object", "row", "erase"}
    BY <1>2 DEF Attached
  <1>4. m.row \notin {"none", "removed"} /\ (media[k].row # "none" => m.object = media[k].object)
    BY <1>1, <1>2
  <1>5. \/ Kept(k)
        \/ <<"media", k>> \in late'
        \/ ~user.erased /\ NobodyErases
    BY <1>3 DEF NobodyErases
  <1>. QED BY <1>1, <1>2, <1>3, <1>4, <1>5, OneRowStep

LEMMA HideKeeps ==
    ASSUME PInv, NEW k \in Keys, Hide(k)
    PROVE  PInv'
  <1>1. PICK n \in MediaRow : n = media[k]
    BY DEF PInv, Types
  <1>. DEFINE m == [n EXCEPT !.row = "hidden"]
  <1>2. m \in MediaRow /\ m.row = "hidden" /\ m.object = n.object
    BY DEF MediaRow
  <1>3. /\ media[k].row = "live" /\ media' = [media EXCEPT ![k] = m]
        /\ UNCHANGED <<user, held, session, reqs, jobs, run, late, cut, now>>
    BY <1>1 DEF Hide, PInv, Types
  <1>. HIDE DEF m
  <1>4. m.row \notin {"none", "removed"} /\ (media[k].row # "none" => m.object = media[k].object)
    BY <1>1, <1>2
  <1>5. Kept(k) /\ late \subseteq late'
    BY <1>3 DEF Kept
  <1>. QED BY <1>2, <1>3, <1>4, <1>5, OneRowStep

-----------------------------------------------------------------------------
(* New requests.                                                           *)

\* A request and its job, in one transaction; the request may be there.
LEMMA RequestStep ==
    ASSUME PInv, UNCHANGED <<held, media, session, run, late, cut, now>>,
           user' \in UserRow, user'.active = user.active, user'.erased = user.erased,
           user.deleted => user'.deleted,
           NEW kind \in Kinds,
           reqs' = reqs \/ (Len(reqs) < MaxRequests /\ reqs' = Append(reqs, NewRequest(kind))),
           NEW key \in JobKeys, NEW request \in Ids', NEW at \in Nat,
           jobs' = Enqueued(key, request, at),
           key # DeletionKey => request = key[2],
           key[1] = "export" => kind = "export" /\ reqs' # reqs /\ request = Len(reqs) + 1,
           key[1] = "notice" => reqs' # reqs /\ request = Len(reqs) + 1,
           key[1] # "final"
    PROVE  PInv'
  <1>1. \/ /\ reqs' = reqs /\ Ids' = Ids
        \/ /\ Len(reqs) < MaxRequests /\ reqs' = Append(reqs, NewRequest(kind))
           /\ Ids' = Ids \cup {Len(reqs) + 1} /\ Len(reqs) + 1 \notin Ids
    BY NewRequestIs, Appended DEF Ids, PInv
  <1>2. /\ reqs' \in Seq(RequestRow) /\ Len(reqs') <= MaxRequests
        /\ Ids \subseteq Ids' /\ Ids' \subseteq 1..MaxRequests
        /\ \A r \in Ids : reqs'[r] = reqs[r]
        /\ \A r \in Ids' : r \notin Ids => reqs'[r] = NewRequest(kind) /\ r = Len(reqs) + 1
        /\ reqs' # reqs => Len(reqs) + 1 \in Ids' /\ Len(reqs) + 1 \notin Ids
    <2>1. CASE reqs' = reqs /\ Ids' = Ids
      BY <2>1, IdsAre DEF PInv, Types
    <2>2. CASE Len(reqs) < MaxRequests /\ reqs' = Append(reqs, NewRequest(kind))
      <3>1. /\ reqs' \in Seq(RequestRow) /\ Len(reqs') <= MaxRequests
            /\ Ids' = Ids \cup {Len(reqs) + 1} /\ Len(reqs) + 1 \notin Ids
            /\ \A r \in Ids : reqs'[r] = reqs[r]
            /\ reqs'[Len(reqs) + 1] = NewRequest(kind)
        BY <2>2, NewRequestIs, Appended DEF PInv
      <3>2. Ids \subseteq 1..MaxRequests /\ Len(reqs) + 1 \in 1..MaxRequests
        BY <2>2, IdsAre, PrivacyAssumption DEF PInv
      <3>. QED BY <3>1, <3>2
    <2>. QED BY <1>1, <2>1, <2>2
  <1>3. request \in Nat
    BY <1>2
  <1>4. /\ jobs' \in [JobKeys -> JobRow]
        /\ \A k \in JobKeys : k # key \/ jobs[k].status # "absent" => jobs'[k] = jobs[k]
        /\ jobs[key].status = "absent" =>
              jobs'[key].status = "pending" /\ jobs'[key].request = request /\ jobs'[key].at = at
        /\ JobsKept
        /\ \A k \in JobKeys : jobs[k].status = "pending" => jobs'[k].status = "pending"
    BY <1>3, EnqueuedIs DEF PInv
  <1>5. Tame
    BY <1>2, <1>4 DEF Tame, MediaKept, RequestsKept, Kept
  <1>6. Types'
    BY <1>2, <1>4 DEF PInv, Types
  <1>7. \A r \in Ids' : RequestIsSound(reqs'[r])
    <2>1. RequestIsSound(NewRequest(kind))
      BY DEF RequestIsSound, NewRequest
    <2>. QED BY <1>2, <2>1 DEF PInv, Tables
  <1>8. jobs[key].status = "absent" => JobIsSound(key)'
    <2>1. NewRequest(kind).kind = kind
      BY NewRequestIs DEF PInv
    <2>2. key[1] = "export" => reqs'[request].kind = "export"
      BY <1>2, <2>1
    <2>3. key[1] = "export" => key # DeletionKey
      BY DEF DeletionKey
    <2>. QED BY <1>4, <2>2, <2>3 DEF JobIsSound
  <1>9. Tables'
    BY <1>4, <1>5, <1>7, <1>8, TablesKeep DEF Tame
  <1>10. OneNotice'
    <2>. SUFFICES ASSUME NEW r \in Ids', jobs'[<<"notice", r>>].status = "pending",
                         reqs'[r].notice, ~Recut(<<"notice", r>>)
                  PROVE  \E v \in Workers : run[v].key = <<"notice", r>> /\ HasTold(run[v])
      BY DEF OneNotice, HasTold, Recut
    <2>1. r \in Ids /\ reqs[r].notice
      BY <1>2, NewRequestIs DEF PInv
    <2>2. <<"notice", r>> # key
      <3>. SUFFICES ASSUME <<"notice", r>> = key PROVE FALSE
        OBVIOUS
      <3>1. key[1] = "notice" /\ key[2] = r /\ key # DeletionKey
        BY DEF DeletionKey
      <3>. QED BY <3>1, <1>2, <2>1
    <2>3. <<"notice", r>> \in JobKeys
      BY <1>2, KeysAre
    <2>4. jobs[<<"notice", r>>].status = "pending"
      BY <1>4, <2>2, <2>3
    <2>. QED BY <2>1, <2>4 DEF PInv, OneNotice
  <1>11. ErasedIsDeleted' /\ NoLostObject'
    BY DEF PInv, ErasedIsDeleted, NoLostObject
  <1>12. ErasureLeavesNothing'
    <2>1. \A r \in Ids' : reqs'[r].copy => r \in Ids /\ reqs[r].copy
      BY ZenonT(60), <1>2, NewRequestIs DEF PInv
    <2>. QED BY <2>1 DEF PInv, ErasureLeavesNothing
  <1>. QED BY <1>4, <1>5, <1>6, <1>9, <1>10, <1>11, <1>12, OutsideStep

LEMMA RequestDeletionKeeps ==
    ASSUME PInv, RequestDeletion
    PROVE  PInv'
  <1>1. /\ user' = [user EXCEPT !.deleted = TRUE]
        /\ UNCHANGED <<held, media, session, run, late, cut, now>>
    BY DEF RequestDeletion
  <1>2. PICK r \in 1..MaxRequests :
            /\ \/ r = Len(reqs) + 1 /\ reqs' = Append(reqs, NewRequest("erasure"))
               \/ r \in Ids /\ reqs' = reqs
            /\ jobs' = Enqueued(DeletionKey, r, now + Window)
    BY DEF RequestDeletion, OpenRequests
  <1>3. user' \in UserRow /\ user'.active = user.active /\ user'.erased = user.erased
        /\ (user.deleted => user'.deleted)
    BY <1>1 DEF UserRow, PInv, Types
  <1>4. DeletionKey \in JobKeys /\ DeletionKey[1] = "deletion" /\ "erasure" \in Kinds
    BY DEF JobKeys, DeletionKey, Kinds
  <1>5. now + Window \in Nat
    BY PrivacyAssumption DEF PInv, Types
  <1>6. r = Len(reqs) + 1 => Len(reqs) < MaxRequests
    BY IdsAre, PrivacyAssumption DEF PInv
  <1>7. r \in Ids'
    BY <1>2, <1>4, <1>6, NewRequestIs, Appended DEF Ids, PInv
  <1>. QED BY <1>1, <1>2, <1>3, <1>4, <1>5, <1>6, <1>7, RequestStep

\* An export or a notice is a request of its own, with a job named after it.
LEMMA NewRequestKeeps ==
    ASSUME PInv, RequestExport \/ InactivitySweep
    PROVE  PInv'
  <1>. DEFINE n == Len(reqs) + 1
  <1>1. /\ Len(reqs) < MaxRequests
        /\ UNCHANGED <<user, held, media, session, run, late, cut, now>>
    BY DEF RequestExport, InactivitySweep, store
  <1>2. n \in 1..MaxRequests /\ now \in Nat
    BY <1>1, IdsAre, PrivacyAssumption DEF PInv, Types
  <1>3. user \in UserRow
    BY DEF PInv, Types
  <1>4. /\ <<"export", n>> \in JobKeys /\ <<"notice", n>> \in JobKeys
        /\ {"export", "inactivity_notice"} \subseteq Kinds
    BY <1>2, KeysAre DEF Kinds
  <1>5. ASSUME NEW kind \in Kinds, reqs' = Append(reqs, NewRequest(kind))
        PROVE  n \in Ids' /\ reqs' # reqs
    BY <1>1, <1>5, NewRequestIs, Appended DEF Ids, PInv
  <1>6. CASE RequestExport
    <2>1. reqs' = Append(reqs, NewRequest("export")) /\ jobs' = Enqueued(<<"export", n>>, n, now)
      BY <1>6 DEF RequestExport
    <2>2. <<"export", n>>[1] = "export" /\ <<"export", n>>[2] = n
      OBVIOUS
    <2>. QED BY <1>1, <1>2, <1>3, <1>4, <1>5, <2>1, <2>2, RequestStep
  <1>7. CASE InactivitySweep
    <2>1. /\ reqs' = Append(reqs, NewRequest("inactivity_notice"))
          /\ jobs' = Enqueued(<<"notice", n>>, n, now)
      BY <1>7 DEF InactivitySweep
    <2>2. <<"notice", n>>[1] = "notice" /\ <<"notice", n>>[2] = n
      OBVIOUS
    <2>. QED BY <1>1, <1>2, <1>3, <1>4, <1>5, <2>1, <2>2, RequestStep
  <1>. QED BY <1>6, <1>7

-----------------------------------------------------------------------------
(* The whole system.                                                       *)

\* A day ends with no handler at work.
LEMMA TickKeeps ==
    ASSUME PInv, Tick
    PROVE  PInv'
  <1>1. /\ now' = now + 1 /\ now' \in 0..MaxTime /\ now \in Nat
        /\ \A w \in Workers : run[w].step = "idle"
        /\ UNCHANGED <<user, held, media, session, reqs, jobs, run, late, cut>>
    BY PrivacyAssumption DEF Tick, store, PInv, Types
  <1>. Ids' = Ids
    BY <1>1 DEF Ids
  <1>2. Types'
    BY <1>1 DEF PInv, Types
  <1>3. \A r \in Ids : RequestIsSound(reqs[r])'
    <2>. SUFFICES ASSUME NEW r \in Ids PROVE RequestIsSound(reqs[r])'
      OBVIOUS
    <2>1. PICK q \in RequestRow : q = reqs[r] /\ RequestIsSound(q)
      BY IdsAre DEF PInv, Tables
    <2>2. q.sent \in Nat /\ Never' = Never
      BY DEF RequestRow, Never
    <2>. QED BY <1>1, <2>1, <2>2 DEF RequestIsSound
  <1>4. Tables'
    BY <1>1, <1>3 DEF PInv, Tables, JobIsSound
  <1>5. \A w \in Workers : Known(run[w])'
    BY <1>1 DEF Known
  <1>6. OneWorker' /\ OneNotice' /\ ErasedIsDeleted' /\ NoLostObject' /\ ErasureLeavesNothing'
    BY <1>1 DEF PInv, OneWorker, OneNotice, HasTold, Recut, ErasedIsDeleted, NoLostObject,
                ErasureLeavesNothing
  <1>. QED BY <1>2, <1>4, <1>5, <1>6 DEF PInv

LEMMA InitHolds ==
    ASSUME Init
    PROVE  PInv
  <1>1. reqs = <<>> /\ Ids = {}
    BY DEF Init, Ids
  <1>2. NoJob \in JobRow /\ NoJob.status = "absent"
    BY DEF NoJob, JobRow
  <1>3. \A key \in JobKeys : jobs[key] = NoJob
    BY DEF Init
  <1>4. NoMedia \in MediaRow /\ NoMedia.object = FALSE
    BY DEF NoMedia, MediaRow
  <1>5. \A k \in Keys : media[k] = NoMedia
    BY DEF Init
  <1>6. \A w \in Workers : run[w] = NoRun
    BY DEF Init
  <1>7. Types
    <2>1. user \in UserRow
      BY DEF Init, UserRow
    <2>2. reqs \in Seq(RequestRow) /\ Len(reqs) = 0
      BY <1>1
    <2>3. media \in [Keys -> MediaRow] /\ jobs \in [JobKeys -> JobRow] /\ run \in [Workers -> Run]
      BY <1>2, <1>4, NoRunIs DEF Init
    <2>4. session \in BOOLEAN
      BY DEF Init
    <2>5. held \subseteq Stores /\ now \in 0..MaxTime
      BY PrivacyAssumption DEF Init
    <2>. QED BY <2>1, <2>2, <2>3, <2>4, <2>5, PrivacyAssumption DEF Types
  <1>8. Tables
    BY <1>1, <1>2, <1>3 DEF Tables, JobIsSound
  <1>9. (\A w \in Workers : Known(run[w])) /\ OneWorker
    BY <1>6, NoRunIs DEF Known, OneWorker
  <1>10. OneNotice /\ NoLostObject
    BY <1>1, <1>4, <1>5 DEF OneNotice, NoLostObject
  <1>11. ErasedIsDeleted /\ ErasureLeavesNothing
    BY DEF Init, ErasedIsDeleted, ErasureLeavesNothing
  <1>. QED BY <1>7, <1>8, <1>9, <1>10, <1>11 DEF PInv

LEMMA NextKeeps ==
    ASSUME PInv, [Next]_vars
    PROVE  PInv'
  <1>1. CASE Request
    BY <1>1, EndSessionKeeps, AttachKeeps, HideKeeps, RequestDeletionKeeps,
       NewRequestKeeps DEF Request
  <1>2. CASE Respond \/ DeletionCutShort
    BY <1>2, WriteKeeps, LoginKeeps, EndSessionKeeps DEF Respond
  <1>3. ASSUME NEW w \in Workers, Erase(w) PROVE PInv'
    BY <1>3, ListMediaKeeps, DeleteByKeyKeeps, RemoveByIdKeeps, MediaDoneKeeps,
       EraseAccountKeeps, DestroySessionsKeeps DEF Erase
  <1>4. ASSUME NEW w \in Workers, Work(w) PROVE PInv'
    BY <1>3, <1>4, ClaimKeeps, LoadRequestKeeps, LoadUserKeeps, CloseKeeps, SendNoticeKeeps,
       MergeDetailKeeps, EnqueueFinalKeeps, MarkRequestProcessingKeeps, CollectExportKeeps,
       StoreExportKeeps, FinishKeeps DEF Work
  <1>5. ASSUME NEW w \in Workers, NEW k \in Keys, DeleteFails(w, k) PROVE PInv'
    BY <1>5, DeleteFailsKeeps
  <1>6. CASE UNCHANGED vars
    <2>1. UNCHANGED <<user, held, media, session, reqs, jobs, run, late, cut, now>>
      BY <1>6 DEF vars
    <2>. QED BY <2>1, IdleStep DEF PInv, Types
  <1>. QED BY <1>1, <1>2, <1>4, <1>5, <1>6, FaultKeeps, TickKeeps DEF Next

-----------------------------------------------------------------------------
(* Theorems.                                                               *)

\* What the users' requests and the two handlers keep, statement by statement and
\* whatever crashes or fails: who holds which job, what it has read of its request
\* and of the media that is still so, and what the jobs name.
THEOREM PrivacyInvariance == Spec => []PInv
  <1>1. Init => PInv
    BY InitHolds
  <1>2. PInv /\ [Next]_vars => PInv'
    BY NextKeeps
  <1>. QED BY <1>1, <1>2, PTL DEF Spec

\* ADR-004: the row of an object goes only after the object, so a failed erasure
\* can be redelivered: no object is left that nothing names.
THEOREM NothingIsLost == Spec => []NoLostObject
  <1>1. PInv => NoLostObject
    BY DEF PInv
  <1>. QED BY <1>1, PrivacyInvariance, PTL

\* NFR-12, AB-05: after the erasure, what the database, the exports and the media
\* rows still hold was written behind its back, by a writer that had passed its
\* check before or came through a session that was left; and a session is only
\* left to the handler about to end it, after that very step was cut short, or by
\* a login that was under way.
THEOREM ErasureIsComplete == Spec => []ErasureLeavesNothing
  <1>1. PInv => ErasureLeavesNothing
    BY DEF PInv
  <1>. QED BY <1>1, PrivacyInvariance, PTL

\* NFR-12: an inactive account is erased after its notice; no earlier than the
\* window after it, unless a delivery of this very request's first job was cut
\* short after it recorded the notice; and never when the user came back before
\* that day.
THEOREM ErasureIsDue == Spec => InactivityErasureIsDue
  <1>1. ASSUME PInv, NEW r \in Ids, ErasesFor(r)
        PROVE  /\ reqs[r].sent <= now
               /\ reqs[r].sent + Window <= now \/ Recut(<<"notice", r>>)
               /\ reqs[r].since => user.active = now
    <2>1. PICK w \in Workers : run[w].step = "erase" /\ run[w].key \in {<<"notice", r>>, <<"final", r>>}
      BY <1>1 DEF ErasesFor
    <2>2. /\ run[w].key \in JobKeys /\ run[w].key # DeletionKey /\ run[w].key[2] = r
          /\ run[w].key[1] \in {"notice", "final"}
      BY <1>1, <2>1, AtWork DEF DeletionKey
    <2>3. /\ RequestInHand(run[w]) /\ FirstPhase(run[w])
          /\ jobs[run[w].key].status = "pending" /\ jobs[run[w].key].at <= now
          /\ Mine(w) = r
      BY <1>1, <2>1, <2>2, AtWork
    <2>4. /\ run[w].notice /\ (reqs[r].since => user.active = now)
      BY <2>1, <2>2, <2>3 DEF RequestInHand, Erasing
    <2>5. reqs[r].notice
      BY <2>3, <2>4 DEF RequestInHand, Mine
    <2>6. reqs[r].sent <= now /\ reqs[r].sent \in Nat
      BY <1>1, <2>5, IdsAre DEF PInv, Tables, RequestIsSound, RequestRow
    <2>7. ASSUME ~Recut(<<"notice", r>>) PROVE reqs[r].sent + Window <= now
      <3>1. run[w].key[1] = "final"
        BY <2>1, <2>2, <2>3, <2>7 DEF FirstPhase, Erasing
      <3>2. reqs[r].sent + Window <= jobs[run[w].key].at
        BY <1>1, <2>2, <2>3, <3>1 DEF PInv, Tables, JobIsSound
      <3>3. jobs[run[w].key].at \in Nat /\ now \in Nat
        BY <1>1, <2>2, PrivacyAssumption DEF PInv, Types, JobRow
      <3>. QED BY <2>3, <2>6, <3>2, <3>3, PrivacyAssumption
    <2>. QED BY <2>4, <2>6, <2>7
  <1>2. PInv => [\A r \in Ids : ErasesFor(r) =>
                    /\ reqs[r].sent <= now
                    /\ \/ reqs[r].sent + Window <= now
                       \/ {<<<<"notice", r>>, "final">>, <<<<"notice", r>>, "end">>} \cap cut # {}
                    /\ reqs[r].since => user.active = now]_vars
    BY <1>1 DEF Recut
  <1>. QED BY <1>2, PrivacyInvariance, PTL DEF InactivityErasureIsDue

-----------------------------------------------------------------------------
(* The ledger of jobs.                                                     *)

\* The job of a key, and no other, changes as a ledger of jobs allows; nobody requeues here.
Settles(key) ==
    /\ \A k \in JobKeys \ {key} : jobs'[k] = jobs[k]
    /\ \/ jobs[key].status = "absent" /\ jobs'[key].status = "pending" /\ jobs'[key].attempts = 0
       \/ /\ jobs[key].status = "pending"
          /\ jobs'[key].attempts = jobs[key].attempts + 1
          /\ \/ jobs'[key].status = "delivered"
             \/ jobs'[key].status = IF jobs[key].attempts + 1 < MaxAttempts THEN "pending" ELSE "dead"

\* A request enqueues a job whose key no row has, or none.
LEMMA EnqueuedSettles ==
    ASSUME Types, NEW key \in JobKeys, NEW request, NEW at, jobs' = Enqueued(key, request, at)
    PROVE  UNCHANGED jobs \/ Settles(key)
  BY DEF Types, Enqueued, Settles

\* The COMMIT of the poll settles the one job of its handler, which is still pending.
LEMMA FinishSettles ==
    ASSUME PInv, NEW w \in Workers, Finish(w)
    PROVE  \E key \in JobKeys : Settles(key)
  <1>1. PICK key \in JobKeys, j \in JobRow : /\ key = run[w].key /\ j = jobs[key]
                                             /\ j.status = "pending"
    BY AtWork DEF Finish, PInv, Types, Known
  <1>2. PICK n \in Nat : n = j.attempts + 1
    BY DEF JobRow
  <1>3. PICK status \in {"delivered", "dead", "pending"} :
            status = IF run[w].ok THEN "delivered" ELSE IF n >= MaxAttempts THEN "dead" ELSE "pending"
    OBVIOUS
  <1>. DEFINE i == [j EXCEPT !.status = status, !.attempts = n]
  <1>4. i.status = status /\ i.attempts = n
    BY DEF JobRow
  <1>5. jobs' = [jobs EXCEPT ![key] = i]
    BY <1>1, <1>2, <1>3 DEF Finish, PInv, Types
  <1>. HIDE DEF i
  <1>6. jobs'[key] = i /\ \A k \in JobKeys \ {key} : jobs'[k] = jobs[k]
    BY <1>5 DEF PInv, Types
  <1>7. status = "delivered" \/ status = IF n < MaxAttempts THEN "pending" ELSE "dead"
    BY <1>2, <1>3, PrivacyAssumption
  <1>. QED BY <1>1, <1>2, <1>4, <1>6, <1>7 DEF Settles

\* Only five steps touch the jobs.
LEMMA StepSettles ==
    ASSUME PInv, [Next]_vars
    PROVE  UNCHANGED jobs \/ \E key \in JobKeys : Settles(key)
  <1>1. CASE RequestDeletion
    <2>1. DeletionKey \in JobKeys
      BY DEF JobKeys
    <2>. QED BY <1>1, <2>1, EnqueuedSettles DEF RequestDeletion, PInv
  <1>2. CASE RequestExport
    <2>1. Len(reqs) + 1 \in 1..MaxRequests
      BY <1>2, IdsAre, PrivacyAssumption DEF RequestExport, PInv
    <2>2. <<"export", Len(reqs) + 1>> \in JobKeys
      BY <2>1, KeysAre
    <2>. QED BY <1>2, <2>2, EnqueuedSettles DEF RequestExport, PInv
  <1>3. CASE InactivitySweep
    <2>1. Len(reqs) + 1 \in 1..MaxRequests
      BY <1>3, IdsAre, PrivacyAssumption DEF InactivitySweep, PInv
    <2>2. <<"notice", Len(reqs) + 1>> \in JobKeys
      BY <2>1, KeysAre
    <2>. QED BY <1>3, <2>2, EnqueuedSettles DEF InactivitySweep, PInv
  <1>4. ASSUME NEW w \in Workers, EnqueueFinal(w)
        PROVE  UNCHANGED jobs \/ \E key \in JobKeys : Settles(key)
    <2>1. Mine(w) \in Ids
      BY <1>4, AtWork DEF EnqueueFinal
    <2>2. <<"final", Mine(w)>> \in JobKeys
      BY <2>1, IdsAre, KeysAre DEF PInv
    <2>. QED BY <1>4, <2>2, EnqueuedSettles DEF EnqueueFinal, PInv
  <1>5. ASSUME NEW w \in Workers, Finish(w)
        PROVE  \E key \in JobKeys : Settles(key)
    BY <1>5, FinishSettles
  <1>6. ASSUME NEW w \in Workers, Work(w), ~EnqueueFinal(w), ~Finish(w)
        PROVE  UNCHANGED jobs
    BY <1>6 DEF Work, Erase, Claim, LoadRequest, LoadUser, CloseRequest, CancelErasure,
       SendNotice, MergeDetail, MarkRequestProcessing, ListMedia, DeleteByKey, RemoveById,
       MediaDone, EraseAccount, DestroySessions, CollectExport, StoreExport
  <1>7. ASSUME \/ EndSession \/ Respond \/ DeletionCutShort \/ Tick
               \/ \E writer \in Writers : Begin(writer)
               \/ UNCHANGED vars
               \/ \E k \in Keys : Attach(k) \/ Hide(k)
               \/ \E w \in Workers : Fault(w) \/ \E k \in Keys : DeleteFails(w, k)
        PROVE  UNCHANGED jobs
    BY <1>7 DEF Login, EndSession, Begin, Respond, Write, DeletionEndsSessions,
       DeletionCutShort, Tick, vars, Attach, Hide, Fault, DeleteFails
  <1>. QED BY <1>1, <1>2, <1>3, <1>4, <1>5, <1>6, <1>7 DEF Next, Request

\* What Settles says is what the ledger allows.
LEMMA SettlesInLedger ==
    ASSUME PInv, PInv', NEW key \in JobKeys, Settles(key)
    PROVE  Ledger!LedgerNext
  <1>1. \A k \in JobKeys : /\ jobs'[k].status \in Ledger!Fates
                           /\ jobs'[k].attempts \in Nat
    BY DEF PInv, Types, JobRow, Ledger!Fates
  <1>2. ASSUME NEW k \in JobKeys, k # key PROVE Ledger!Keep(k)
    BY <1>2 DEF Settles, Ledger!Keep
  <1>3. CASE jobs[key].status = "absent"
    BY <1>1, <1>2, <1>3 DEF Settles, Ledger!Enter, Ledger!LedgerNext
  <1>4. CASE jobs[key].status = "pending" /\ jobs'[key].status = "delivered"
    BY <1>1, <1>2, <1>4 DEF Settles, Ledger!Succeed, Ledger!LedgerNext
  <1>5. CASE jobs[key].status = "pending" /\ jobs'[key].status # "delivered"
    BY <1>1, <1>2, <1>5 DEF Settles, Ledger!Fail, Ledger!LedgerNext
  <1>. QED BY <1>3, <1>4, <1>5 DEF Settles

\* RT-02, NFR-09: the jobs of a user's requests are the jobs of a ledger: a request that is
\* repeated, a job that enqueues another and a redelivery open each key once and give
\* each delivery one outcome.
THEOREM PrivacyJobsAreLedgered == Spec => FollowsJobLedger
  <1>1. Init => Ledger!LedgerInit
    BY DEF Init, NoJob, Ledger!LedgerInit
  <1>2. PInv /\ PInv' /\ [Next]_vars => [Ledger!LedgerNext]_(Ledger!ledger)
    <2>. SUFFICES ASSUME PInv, PInv', [Next]_vars
                  PROVE  [Ledger!LedgerNext]_(Ledger!ledger)
      OBVIOUS
    <2>1. CASE UNCHANGED jobs
      BY <2>1 DEF Ledger!ledger
    <2>. QED BY <2>1, StepSettles, SettlesInLedger
  <1>. QED BY <1>1, <1>2, PrivacyInvariance, PTL DEF Spec, FollowsJobLedger, Ledger!LedgerSpec
=============================================================================
