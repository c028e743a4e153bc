------------------------------- MODULE Client -------------------------------
(***************************************************************************)
(* The web client (client/src) in one browser tab, against the API.  The   *)
(* tab shows one page; it has a store of what it believes about the        *)
(* session, which it cannot read and infers from answers; and it has       *)
(* requests in flight, whose answers come in any order, late, or not at    *)
(* all.  A page's effect asks for what it shows and marks its request as   *)
(* cancelled when its dependencies change; a button's handler does not.    *)
(*                                                                         *)
(* React runs the effects of a state change before the next answer is      *)
(* handled, so an answer, the store, the navigation and the effects it     *)
(* causes are one step.  The API is the server's promise, as far as the    *)
(* client can tell: it answers from the state it has when it is asked.     *)
(***************************************************************************)
EXTENDS Naturals, FiniteSets

CONSTANTS Keys,      \* ids and queries a page's URL carries
          Journeys,  \* links followed: page from, page to
          Fields,    \* fields of a meal
          Messages,  \* message ids, in the order the messages are written
          PageSize,  \* messages in a page of a thread
          Photos,    \* storage keys
          Sessions,  \* session tokens
          Nil,      \* no session, key, form, photo, request
          MaxFlight, \* requests in flight at once
          MaxMoves,  \* bound on navigations by the user
          MaxClicks, \* bound on submissions
          MaxFaults  \* bound on losses, refusals, expiries and what others write

ASSUME ClientAssumption ==
    /\ MaxFlight \in Nat \ {0, 1}
    /\ {MaxMoves, MaxClicks, MaxFaults} \subseteq Nat
    /\ Photos \subseteq Nat \ {0}
    /\ Messages \subseteq Nat /\ PageSize \in Nat \ {0}

VARIABLES store,    \* SessionProvider's status
          view,     \* the page shown: its URL, phase and data
          net,      \* the requests in flight
          cookie,   \* the session cookie, in the browser's jar
          session,  \* per token: not issued yet, live in Redis, dead
          thread,   \* per booking and message: not written, visible, rejected by moderation
          meal,     \* per listing: the fields stored
          photo,    \* per storage key: minted, uploaded, attached
          review,   \* the photos of the review stored; Nil before
          left      \* what is left of each bound

server == <<session, thread, meal, photo, review>>
tabvars == <<store, view, net, cookie, server, left>>

-----------------------------------------------------------------------------
(* Pages and their effects                                                 *)

\* Pages that send a visitor without a session to sign in.
Gated == {"search", "listing", "host"}

\* Pages behind ModeratorGate.
Moderation == {"queue", "alerts"}

\* Pages that ask for something when they are shown.
Fetching == Gated \cup Moderation \cup
            {"reserve", "booking", "bookings", "mymeals", "edit", "messages"}

\* Pages whose URL carries an id or a query.
Keyed == Gated \cup {"reserve", "booking", "edit", "messages", "review",
                     "safety", "verify", "queue"}

Pages == Fetching \cup Keyed \cup {"home", "login", "signup", "create", "account"}

KeysOf(p) == IF p \in Keyed THEN Keys ELSE {Nil}

Nothing == [key |-> Nil, thread |-> {}, meal |-> Nil]

Page(p, k) == [page |-> p, key |-> k, phase |-> "idle", shown |-> Nothing, run |-> 0]

Chosen == 0 \* a photo chosen and not stored yet

NoReply == [status |-> "none", session |-> Nil, thread |-> {}, total |-> 0, read |-> {},
            meal |-> Nil, photo |-> Nil]

Idle == [op |-> "idle", click |-> Nil, key |-> Nil, cookie |-> Nil, page |-> 1,
         form |-> Nil, photo |-> Nil, at |-> "gone", reply |-> NoReply]

Slots == 1..MaxFlight

\* credentials: 'include': a request carries the cookie of the jar it leaves with.
NewRequest(op, click, k) ==
    [Idle EXCEPT !.op = op, !.click = click, !.key = k, !.cookie = cookie, !.at = "current"]

Free(n) == {i \in Slots : n[i] = Idle}

Put(n, r) == LET i == CHOOSE j \in Free(n) : \A k \in Free(n) : j <= k
             IN [n EXCEPT ![i] = r]

\* MyMealsPage asks only when signed in; the moderation pages are mounted only then.
SignedInOnly == {"mymeals"} \cup Moderation

\* What a page's effect makes of the session: may it ask?
Gate(p, st) == CASE p = "bookings" /\ st = "anonymous" -> "blocked"
                 [] p \in SignedInOnly /\ st # "authenticated" -> "blocked"
                 [] OTHER -> "open"

\* The dependencies of a page's effect.
Dependencies(v, st) == <<v.page, v.key, v.run, Gate(v.page, st)>>

\* What becomes of the requests when the page's effect is cleaned up: a component that
\* stays ignores the cancelled answer, one that is gone ignores all of them.
CleanUp(n, unmounted) ==
    [i \in Slots |->
        IF n[i] = Idle THEN Idle
        ELSE [n[i] EXCEPT !.at = IF unmounted THEN "gone"
                                 ELSE IF n[i].click = Nil /\ @ = "current" THEN "mounted" ELSE @]]

Load(v) == NewRequest(IF v.page = "messages" THEN "thread" ELSE "load", Nil, v.key)

\* Mutant: the redemption already sent is not listened to again.
VerifyEffectOnce(n, k) ==
    IF \E i \in Slots : n[i].op = "verify" /\ n[i].at # "gone" THEN n
    ELSE Put(n, NewRequest("verify", Nil, k))

\* VerifyEmailPage: send the token once, and listen to that one answer at every run.
VerifyEffect(n, k) ==
    IF \E i \in Slots : n[i].op = "verify" /\ n[i].at # "gone"
    THEN [i \in Slots |-> IF n[i].op = "verify" /\ n[i].at # "gone"
                          THEN [n[i] EXCEPT !.at = "current"] ELSE n[i]]
    ELSE Put(n, NewRequest("verify", Nil, k))

\* React renders view v and store st over the requests n: when the effect's dependencies
\* have changed it is cleaned up and run.  A thread is not cleared while it is read again.
React(st, v, n) ==
    LET moved == v.page # view.page
        unmounted == moved \/ (v.page \in Moderation /\ Gate(v.page, st) # Gate(view.page, store))
        clean == CleanUp(n, unmounted)
        asks  == v.page \in Fetching /\ Gate(v.page, st) # "blocked"
        keeps == v.page = "messages" /\ ~moved
    IN  /\ store' = st
        /\ IF Dependencies(v, st) = Dependencies(view, store)
           THEN view' = v /\ net' = n
           ELSE /\ view' = IF asks /\ ~keeps
                           THEN [v EXCEPT !.phase = "loading", !.shown = Nothing]
                           ELSE IF unmounted THEN Page(v.page, v.key) ELSE v
                /\ net' = IF asks THEN Put(clean, Load(v)) ELSE clean

-----------------------------------------------------------------------------
(* The user                                                                *)

Spend(what) == left[what] > 0 /\ left' = [left EXCEPT ![what] = @ - 1]

\* A document is loaded: the session is hydrated and the page runs its effect, twice under
\* StrictMode; the requests of the document before are aborted.
Opens(p) == p = "verify" \/ (p \in Fetching /\ p \notin SignedInOnly)

Opened(p, k) == [Page(p, k) EXCEPT !.phase = IF Opens(p) THEN "loading" ELSE "idle"]

Asked(p, k) ==
    LET me == Put([i \in Slots |-> Idle], NewRequest("me", Nil, Nil))
    IN  CASE p = "verify" -> VerifyEffect(CleanUp(VerifyEffect(me, k), FALSE), k)
          [] p # "verify" /\ Opens(p) -> Put(me, Load(Page(p, k)))
          [] OTHER -> me

Reload ==
    /\ Spend("moves")
    /\ store' = "unknown"
    /\ view' = Opened(view.page, view.key)
    /\ net' = Asked(view.page, view.key)
    /\ UNCHANGED <<cookie, server>>

\* A link inside the application.  On search, listing and host pages the location object
\* is a dependency too, so a visit of the same URL asks again.
Follow(p, k) ==
    /\ <<view.page, p>> \in Journeys
    /\ Spend("moves")
    /\ Free(net) # {}
    /\ IF p = view.page
       THEN React(store, [view EXCEPT !.key = k, !.run = IF p \in Gated THEN 1 - @ ELSE @], net)
       ELSE React(store, Page(p, k), net)
    /\ UNCHANGED <<cookie, server>>

\* QueuePage, AlertsPage: "Try again".
TryAgain ==
    /\ view.page \in Moderation /\ view.phase = "error"
    /\ Spend("moves")
    /\ Free(net) # {}
    /\ React(store, [view EXCEPT !.run = 1 - @], net)
    /\ UNCHANGED <<cookie, server>>

\* Button: busy while the handler it started has not ended.
Busy(click) ==
    \E i \in Slots : net[i].click = click /\ (net[i].at # "gone" \/ click = "logout")

Ready(p) == view.page = p /\ view.phase = "ready"

\* Where each button is, when it is shown.
Clickable(click) ==
    CASE click = "login" -> view.page = "login" /\ store # "authenticated"
      [] click = "logout" -> store = "authenticated"
      [] click = "register" -> view.page = "signup" /\ view.phase # "done"
      [] click = "resend" -> <<view.page, view.phase>> \in {<<"verify", "error">>, <<"signup", "done">>}
      [] click = "reserve" -> Ready("reserve") /\ store # "anonymous"
      [] click \in {"confirm", "cancel"} -> Ready("booking")
      [] click = "cancelMeal" -> Ready("listing") /\ store = "authenticated"
      [] click = "reviewsPage" -> Ready("listing") \/ Ready("host")
      [] click = "createMeal" -> view.page = "create" /\ store = "authenticated"
      [] click = "saveMeal" -> Ready("edit") /\ store = "authenticated"
      [] click = "send" -> Ready("messages")
      [] click = "review" -> view.page = "review" /\ view.phase # "done"
      [] click = "raiseAlert" -> view.page = "safety" /\ view.phase # "done"
      [] click \in {"approve", "reject"} -> Ready("queue")
      [] click = "escalate" -> view.page = "alerts" /\ store = "authenticated"
      [] OTHER -> view.page = "account" /\ store = "authenticated" /\ view.phase # "done"

AccountClicks == {"saveProfile", "requestExport", "deleteAccount"}

Clicks == {"login", "logout", "register", "resend", "reserve", "confirm", "cancel",
           "cancelMeal", "reviewsPage", "createMeal", "saveMeal", "send", "review",
           "raiseAlert", "approve", "reject", "escalate"} \cup AccountClicks

\* The first call a handler makes, when it is not named after the button.
FirstCall(click, photos) == IF click = "review" /\ photos THEN "target" ELSE click

\* changedFields: only the fields whose value differs from the copy that was loaded.
ChangedFields(original, next) ==
    [f \in {g \in Fields : original[g] # next[g]} |-> next[f]]

\* The body the form makes of the copy loaded, with one field edited.
Edited(original, f) == [original EXCEPT ![f] = 1 - @]

\* EditMealPage.handleSubmit: the body of the PATCH.
MealBody(click, f) ==
    IF click = "saveMeal" THEN ChangedFields(view.shown.meal, Edited(view.shown.meal, f)) ELSE Nil

\* handleClick, and the handler up to its first await.  A review or a new meal has a photo
\* or none.
Click(click) ==
    /\ Clickable(click)
    /\ ~Busy(click)
    /\ Spend("clicks")
    /\ Free(net) # {}
    /\ \E f \in Fields, p \in BOOLEAN :
        net' = Put(net, [NewRequest(FirstCall(click, p), click, view.key)
                           EXCEPT !.form = MealBody(click, f), !.photo = IF p THEN Chosen ELSE Nil])
    /\ UNCHANGED <<store, view, cookie, server>>

\* Mutant: only a thread that is shown is polled.
PollsReady == Ready("messages")

\* The interval runs whatever the thread's phase.
Polls == view.page = "messages"

\* MessagesPage's timer.
Poll ==
    /\ Polls
    /\ Cardinality(Free(net)) > 1
    /\ net' = Put(net, NewRequest("thread", "poll", view.key))
    /\ UNCHANGED <<store, view, cookie, server, left>>

-----------------------------------------------------------------------------
(* The API and the network                                                 *)

Live(c) == c # Nil /\ session[c] = "live"

Public == {"login", "register", "resend", "verify", "put"}

Answer(i, r) == net' = [net EXCEPT ![i].reply = r]

Ok == [NoReply EXCEPT !.status = "ok"]

\* A session that ends on the server: it expires, or the account is deleted elsewhere.
SessionEnds(c) ==
    /\ session[c] = "live" /\ Spend("faults")
    /\ session' = [session EXCEPT ![c] = "dead"]
    /\ UNCHANGED <<store, view, net, cookie, thread, meal, photo, review>>

\* The messages of a thread that a read may return.
Visible(k) == {m \in Messages : thread[k][m] = "visible"}

Unwritten == {m \in Messages : \A k \in Keys : thread[k][m] = "none"}

FreshMessage == CHOOSE m \in Unwritten : \A n \in Unwritten : m <= n

\* ORDER BY created_at LIMIT PageSize OFFSET (n - 1) * PageSize
PageOf(t, n) == {m \in t : Cardinality({x \in t : x < m}) \div PageSize = n - 1}

\* Math.ceil(total / pageSize)
LastPage(total) == (total + PageSize - 1) \div PageSize

\* The other participant writes in a thread.
OtherWrites(k) ==
    /\ Spend("faults")
    /\ thread' = [thread EXCEPT ![k][FreshMessage] = "visible"]
    /\ UNCHANGED <<store, view, net, cookie, session, meal, photo, review>>

\* Moderation hides a message.
MessageRejected(k) ==
    /\ Spend("faults")
    /\ \E m \in Visible(k) : thread' = [thread EXCEPT ![k][m] = "rejected"]
    /\ UNCHANGED <<store, view, net, cookie, session, meal, photo, review>>

\* The host edits the meal in another tab.
OtherEdits(k, f) ==
    /\ Spend("faults")
    /\ meal' = [meal EXCEPT ![k][f] = 1 - @]
    /\ UNCHANGED <<store, view, net, cookie, session, thread, photo, review>>

\* POST /auth/login: a new session, in a cookie.
Login(i, r) ==
    /\ r.op = "login"
    /\ LET c == CHOOSE d \in Sessions : session[d] = "new" IN
        /\ session' = [session EXCEPT ![c] = "live"]
        /\ Answer(i, [Ok EXCEPT !.session = c])
    /\ UNCHANGED <<thread, meal, photo, review>>

\* POST /auth/logout
Logout(i, r) ==
    /\ r.op = "logout"
    /\ session' = [session EXCEPT ![r.cookie] = "dead"]
    /\ Answer(i, Ok)
    /\ UNCHANGED <<thread, meal, photo, review>>

\* DELETE /users/me: every session of the account ends.
DeleteMe(i, r) ==
    /\ r.op = "deleteAccount"
    /\ session' = [c \in Sessions |-> IF session[c] = "live" THEN "dead" ELSE session[c]]
    /\ Answer(i, Ok)
    /\ UNCHANGED <<thread, meal, photo, review>>

\* One of the two statements of a read: the answer is there when both have run.
ReadPart(i, part, reply) ==
    /\ part \notin reply.read
    /\ Answer(i, [reply EXCEPT !.read = @ \cup {part},
                               !.status = IF reply.read = {} THEN "none" ELSE "ok"])

\* GET /bookings/:id/messages: a page of the thread and its length, read side by side; of
\* the second request's answer, the length is not used.
ListMessages(i, r) ==
    /\ \/ /\ r.op = "thread"
          /\ \/ ReadPart(i, "rows", [r.reply EXCEPT !.thread = PageOf(Visible(r.key), 1)])
             \/ ReadPart(i, "total", [r.reply EXCEPT !.total = Cardinality(Visible(r.key))])
       \/ /\ r.op = "latest"
          /\ Answer(i, [Ok EXCEPT !.thread = PageOf(Visible(r.key), r.page)])
    /\ UNCHANGED server

\* POST /bookings/:id/messages
PostMessage(i, r) ==
    /\ r.op = "send"
    /\ thread' = [thread EXCEPT ![r.key][FreshMessage] = "visible"]
    /\ Answer(i, [Ok EXCEPT !.thread = {FreshMessage}])
    /\ UNCHANGED <<session, meal, photo, review>>

\* The routes a page's effect asks; of what they answer, only a meal's fields matter here.
GetPage(i, r) ==
    /\ r.op = "load"
    /\ Answer(i, [Ok EXCEPT !.meal = IF r.key = Nil THEN Nil ELSE meal[r.key]])
    /\ UNCHANGED server

\* PATCH /listings/:id: the fields in the body.
PatchListing(i, r) ==
    /\ r.op = "saveMeal"
    /\ meal' = [meal EXCEPT ![r.key] =
                   [f \in Fields |-> IF f \in DOMAIN r.form THEN r.form[f] ELSE @[f]]]
    /\ Answer(i, Ok)
    /\ UNCHANGED <<session, thread, photo, review>>

\* POST /media/upload-targets
UploadTarget(i, r) ==
    /\ r.op = "target"
    /\ LET p == CHOOSE q \in Photos : photo[q] = "none" IN
        /\ photo' = [photo EXCEPT ![p] = "minted"]
        /\ Answer(i, [Ok EXCEPT !.photo = p])
    /\ UNCHANGED <<session, thread, meal, review>>

\* The object store takes the bytes at the key minted.
PutObject(i, r) ==
    /\ r.op = "put"
    /\ photo' = [photo EXCEPT ![r.photo] = "uploaded"]
    /\ Answer(i, [Ok EXCEPT !.photo = r.photo])
    /\ UNCHANGED <<session, thread, meal, review>>

\* POST /media
Attach(i, r) ==
    /\ r.op = "attach"
    /\ photo' = [photo EXCEPT ![r.photo] = "attached"]
    /\ Answer(i, [Ok EXCEPT !.photo = r.photo])
    /\ UNCHANGED <<session, thread, meal, review>>

\* POST /bookings/:id/reviews: one review per booking.
CreateReview(i, r) ==
    /\ r.op = "review"
    /\ IF review = Nil
       THEN review' = {r.photo} \ {Nil} /\ Answer(i, Ok)
       ELSE Answer(i, [NoReply EXCEPT !.status = "refused"]) /\ UNCHANGED review
    /\ UNCHANGED <<session, thread, meal, photo>>

\* The other routes change nothing this module keeps.
OtherRoute(i, r) ==
    /\ r.op \in {"me", "verify", "createMeal", "escalate"} \cup
              (Clicks \ {"login", "logout", "deleteAccount", "send", "saveMeal", "review"})
    /\ Answer(i, Ok)
    /\ UNCHANGED server

Route(i, r) ==
    \/ Login(i, r) \/ Logout(i, r) \/ DeleteMe(i, r) \/ ListMessages(i, r) \/ PostMessage(i, r)
    \/ GetPage(i, r) \/ PatchListing(i, r) \/ UploadTarget(i, r) \/ PutObject(i, r)
    \/ Attach(i, r) \/ CreateReview(i, r) \/ OtherRoute(i, r)

Waits(i) == net[i] # Idle /\ net[i].reply.status = "none"

\* requireSession, then the route; a read that has begun is past the check.
Serve(i) ==
    /\ Waits(i)
    /\ IF net[i].op \in Public \/ Live(net[i].cookie) \/ net[i].reply.read # {}
       THEN Route(i, net[i])
       ELSE Answer(i, [NoReply EXCEPT !.status = "401"]) /\ UNCHANGED server
    /\ UNCHANGED <<store, view, cookie, left>>

\* The API refuses: bad credentials are a 401, the rest a typed 403, 404, 409, 422, 429.
Refuse(i) ==
    /\ Waits(i)
    /\ Spend("faults")
    /\ net[i].op # "me"
    /\ net[i].op \in Public \/ Live(net[i].cookie)
    /\ Answer(i, [NoReply EXCEPT !.status = IF net[i].op = "login" THEN "401" ELSE "refused"])
    /\ UNCHANGED <<store, view, cookie, server>>

\* The request, or its answer, is lost: fetch rejects.
Lose(i) ==
    /\ net[i] # Idle /\ net[i].reply.status # "network"
    /\ Spend("faults")
    /\ Answer(i, [NoReply EXCEPT !.status = "network"])
    /\ UNCHANGED <<store, view, cookie, server>>

-----------------------------------------------------------------------------
(* The answers                                                             *)

Status(i) == net[i].reply.status

Answered(i, op) == net[i].op = op /\ Status(i) # "none"

Done(i) == [net EXCEPT ![i] = Idle]

\* Mutant: only the hydration of the session notices that it is gone.
HeardByRefresh(i) == IF Status(i) = "401" /\ net[i].op = "me" THEN "anonymous" ELSE store

\* request: a 401 is broadcast before it is thrown, whatever the caller does with it.
Heard(i) == IF Status(i) = "401" THEN "anonymous" ELSE store

\* setState on a component that is gone does nothing.
Shown(i, v) == IF net[i].at = "gone" THEN view ELSE v

InPhase(i, ph) == Shown(i, [view EXCEPT !.phase = ph])

\* refresh
MeAnswered(i) ==
    /\ Answered(i, "me")
    /\ React(IF Status(i) = "ok" THEN "authenticated" ELSE Heard(i), view, Done(i))
    /\ UNCHANGED <<cookie, server, left>>

\* login, LoginPage: the destination is read from location.state, which no page sets.
LoginAnswered(i) ==
    /\ Answered(i, "login")
    /\ IF Status(i) = "ok"
       THEN /\ cookie' = net[i].reply.session
            /\ React("authenticated", Page("account", Nil), Done(i))
       ELSE React(Heard(i), view, Done(i)) /\ UNCHANGED cookie
    /\ UNCHANGED <<server, left>>

\* logout, onSignOut: the store says anonymous even when the call failed.
LogoutAnswered(i) ==
    /\ Answered(i, "logout")
    /\ cookie' = IF Status(i) = "ok" THEN Nil ELSE cookie
    /\ React("anonymous", IF Status(i) \in {"ok", "401"} THEN Page("home", Nil) ELSE view, Done(i))
    /\ UNCHANGED <<server, left>>

\* Mutant: the effect does not look at its cancelled flag.
CurrentAlways(i) == net[i].at # "gone"

\* The cancelled flag of the effect that asked.
Current(i) == net[i].at = "current"

Loaded(i) == [view EXCEPT !.phase = "ready",
                          !.shown = [Nothing EXCEPT !.key = net[i].key, !.meal = net[i].reply.meal]]

\* SearchPage, ListingDetailPage, HostProfilePage: a 401 leads to the login page.
GatedLoaded(i) ==
    /\ Answered(i, "load") /\ view.page \in Gated /\ Current(i)
    /\ React(Heard(i), CASE Status(i) = "ok" -> Loaded(i)
                         [] Status(i) = "401" -> Page("login", Nil)
                         [] OTHER -> InPhase(i, "error"), Done(i))
    /\ UNCHANGED <<cookie, server, left>>

\* BookingsListPage: a 401 has flipped the store already, so nothing is reported.
BookingsLoaded(i) ==
    /\ Answered(i, "load") /\ view.page = "bookings" /\ Current(i)
    /\ React(Heard(i), CASE Status(i) = "ok" -> Loaded(i)
                         [] Status(i) = "401" -> InPhase(i, "idle")
                         [] OTHER -> InPhase(i, "error"), Done(i))
    /\ UNCHANGED <<cookie, server, left>>

\* The other pages that ask: every failure is shown.
PageLoaded(i) ==
    /\ Answered(i, "load") /\ view.page \notin Gated \cup {"bookings"} /\ Current(i)
    /\ React(Heard(i), IF Status(i) = "ok" THEN Loaded(i) ELSE InPhase(i, "error"), Done(i))
    /\ UNCHANGED <<cookie, server, left>>

\* An answer to an effect that was cleaned up: only the broadcast is left of it.
LoadDropped(i) ==
    /\ Answered(i, "load") /\ ~Current(i)
    /\ React(Heard(i), view, Done(i))
    /\ UNCHANGED <<cookie, server, left>>

\* load: the page answered replaces the thread shown, however old it is; a failure replaces
\* it too, unless it is a poll's.
ThreadShown(i) ==
    CASE Status(i) = "ok" -> Shown(i, [view EXCEPT !.phase = "ready",
                                   !.shown = [Nothing EXCEPT !.thread = net[i].reply.thread]])
      [] Status(i) # "ok" /\ net[i].click = "poll" -> view
      [] OTHER -> Shown(i, [view EXCEPT !.phase = "error", !.shown = Nothing])

\* The first page is not the whole thread.
Truncated(i) ==
    Status(i) = "ok" /\ net[i].reply.total > Cardinality(net[i].reply.thread)

\* The second request of load, which nothing cancels.
AskLatest(i) ==
    Put(Done(i), [NewRequest("latest", net[i].click, net[i].key)
                    EXCEPT !.page = LastPage(net[i].reply.total), !.at = net[i].at])

\* MessagesPage.load: the first page, and the last one of a longer thread.
ThreadLoaded(i) ==
    /\ Answered(i, "thread")
    /\ IF Truncated(i) THEN React(store, view, AskLatest(i))
                       ELSE React(Heard(i), ThreadShown(i), Done(i))
    /\ UNCHANGED <<cookie, server, left>>

LatestLoaded(i) ==
    /\ Answered(i, "latest")
    /\ React(Heard(i), ThreadShown(i), Done(i))
    /\ UNCHANGED <<cookie, server, left>>

\* handleSend: the message answered is appended to the thread shown.
MessageSent(i) ==
    /\ Answered(i, "send")
    /\ React(Heard(i), IF Status(i) = "ok" /\ view.phase = "ready"
                       THEN Shown(i, [view EXCEPT !.shown.thread = @ \cup net[i].reply.thread])
                       ELSE view, Done(i))
    /\ UNCHANGED <<cookie, server, left>>

\* VerifyEmailPage: a verified address refreshes the session.
EmailVerified(i) ==
    /\ Answered(i, "verify")
    /\ LET hears == net[i].at = "current" IN
       React(Heard(i), IF hears THEN InPhase(i, IF Status(i) = "ok" THEN "done" ELSE "error") ELSE view,
             IF hears /\ Status(i) = "ok" THEN Put(Done(i), NewRequest("me", Nil, Nil)) ELSE Done(i))
    /\ UNCHANGED <<cookie, server, left>>

\* onReserve: the booking is shown wherever the user is by now.
SeatReserved(i) ==
    /\ Answered(i, "reserve")
    /\ React(Heard(i), IF Status(i) = "ok" THEN Page("booking", net[i].key) ELSE view, Done(i))
    /\ UNCHANGED <<cookie, server, left>>

\* onConfirmCompletion, onConfirmCancel: the booking answered replaces the one shown.
BookingChanged(i) ==
    /\ Answered(i, "confirm") \/ Answered(i, "cancel")
    /\ React(Heard(i), IF Status(i) = "ok" THEN Shown(i, [view EXCEPT !.shown.key = net[i].key])
                       ELSE view, Done(i))
    /\ UNCHANGED <<cookie, server, left>>

MealPage(k) == Page("listing", k)

\* EditMealPage.handleSubmit
MealSaved(i) ==
    /\ Answered(i, "saveMeal")
    /\ React(Heard(i), IF Status(i) = "ok" THEN MealPage(net[i].key) ELSE view, Done(i))
    /\ UNCHANGED <<cookie, server, left>>

\* The next call of a handler that makes several.
Then(i, op, p) ==
    Put(Done(i), [NewRequest(op, net[i].click, net[i].key) EXCEPT !.photo = p, !.at = net[i].at])

\* Mutant: the review is sent without waiting for the upload.
AfterTarget(i) ==
    CASE net[i].op = "target" -> "review" [] net[i].op = "put" -> "attach" [] OTHER -> "review"

\* uploadPhotos: target, bytes, attachment, then the review.
AfterUpload(i) ==
    CASE net[i].op = "target" -> "put" [] net[i].op = "put" -> "attach" [] OTHER -> "review"

\* ReviewPage.handleSubmit: a step that fails ends it.
ReviewStep(i) ==
    /\ net[i].click = "review" /\ Status(i) # "none"
    /\ IF Status(i) = "ok" /\ net[i].op # "review"
       THEN React(store, view, Then(i, AfterUpload(i), net[i].reply.photo))
       ELSE React(Heard(i), IF Status(i) = "ok" THEN InPhase(i, "done") ELSE view, Done(i))
    /\ UNCHANGED <<cookie, server, left>>

\* CreateMealPage.handleSubmit: once the meal exists, a photo that fails is only noted.
MealStep(i) ==
    /\ net[i].click = "createMeal" /\ Status(i) # "none"
    /\ LET ok == Status(i) = "ok" IN
       CASE net[i].op = "createMeal" /\ ~ok -> React(Heard(i), view, Done(i))
         [] net[i].op = "createMeal" /\ net[i].photo # Nil -> React(store, view, Then(i, "target", Nil))
         [] ok /\ net[i].op = "target" -> React(store, view, Then(i, "put", net[i].reply.photo))
         [] ok /\ net[i].op = "put" -> React(store, view, Then(i, "attach", net[i].reply.photo))
         [] OTHER -> React(Heard(i), MealPage(CHOOSE k \in Keys : TRUE), Done(i))
    /\ UNCHANGED <<cookie, server, left>>

\* EscalationForm: the list is read again.
AlertEscalated(i) ==
    /\ Answered(i, "escalate")
    /\ React(Heard(i), IF Status(i) = "ok" THEN Shown(i, [view EXCEPT !.run = 1 - @]) ELSE view, Done(i))
    /\ UNCHANGED <<cookie, server, left>>

\* ProfileForm, handleSaved: the session is refreshed.
ProfileSaved(i) ==
    /\ Answered(i, "saveProfile")
    /\ React(Heard(i), view, IF Status(i) = "ok" THEN Put(Done(i), NewRequest("me", Nil, Nil)) ELSE Done(i))
    /\ UNCHANGED <<cookie, server, left>>

\* DeleteAccountSection, handleDeletionAccepted: the server has ended every session.
AccountDeleted(i) ==
    /\ Answered(i, "deleteAccount")
    /\ cookie' = IF Status(i) = "ok" THEN Nil ELSE cookie
    /\ IF Status(i) = "ok"
       THEN React(store, InPhase(i, "done"),
                  Put(Done(i), [NewRequest("me", Nil, Nil) EXCEPT !.cookie = Nil]))
       ELSE React(Heard(i), view, Done(i))
    /\ UNCHANGED <<server, left>>

\* A handler whose outcome is a message on the page, and one that replaces the form by it.
Told(i, op) ==
    /\ Answered(i, op)
    /\ React(Heard(i), view, Done(i))
    /\ UNCHANGED <<cookie, server, left>>

Concluded(i, op) ==
    /\ Answered(i, op)
    /\ React(Heard(i), IF Status(i) = "ok" THEN InPhase(i, "done") ELSE view, Done(i))
    /\ UNCHANGED <<cookie, server, left>>

\* SignupPage.handleSubmit
SignedUp(i) == Concluded(i, "register")

\* ResendVerificationForm.handleSubmit
VerificationResent(i) == Told(i, "resend")

\* ExportSection.handleRequest
ExportRequested(i) == Told(i, "requestExport")

\* ReviewsSection.goTo: the page of reviews is not what the view keeps.
ReviewsTurned(i) == Told(i, "reviewsPage")

\* ListingDetailPage.onConfirmCancel: the listing shown turns cancelled in place.
MealCancelled(i) == Told(i, "cancelMeal")

\* SafetyAlertPage.confirmRaise
AlertRaised(i) == Concluded(i, "raiseAlert")

\* QueueItem.decide: the item shown is replaced in place.
ItemDecided(i) == Told(i, "approve") \/ Told(i, "reject")

-----------------------------------------------------------------------------
(* The tab                                                                 *)

\* The tab opens a page, with a live session or without one; its conversation fills a page.
TabInit ==
    /\ cookie \in {Nil, CHOOSE c \in Sessions : TRUE}
    /\ session = [c \in Sessions |-> IF c = cookie THEN "live" ELSE "new"]
    /\ meal = [k \in Keys |-> [f \in Fields |-> 0]]
    /\ photo = [p \in Photos |-> "none"]
    /\ review = Nil
    /\ left = [moves |-> MaxMoves, clicks |-> MaxClicks, faults |-> MaxFaults]
    /\ store = "unknown"
    /\ \E p \in Pages : LET k == CHOOSE k \in KeysOf(p) : TRUE IN view = Opened(p, k) /\ net = Asked(p, k)
    /\ thread = [k \in Keys |-> [m \in Messages |->
                    IF k = view.key /\ m \in PageOf(Messages, 1) THEN "visible" ELSE "none"]]

User == \/ Reload \/ TryAgain
        \/ \E p \in Pages : \E k \in KeysOf(p) : Follow(p, k)
        \/ \E click \in Clicks : Click(click)

Others == \/ \E c \in Sessions : SessionEnds(c)
          \/ \E k \in Keys : OtherWrites(k) \/ MessageRejected(k)
          \/ \E k \in Keys, f \in Fields : OtherEdits(k, f)

\* The promise or the handler waiting for slot i goes on.
Handle(i) ==
    \/ MeAnswered(i) \/ LoginAnswered(i) \/ LogoutAnswered(i)
    \/ GatedLoaded(i) \/ BookingsLoaded(i) \/ PageLoaded(i) \/ LoadDropped(i)
    \/ ThreadLoaded(i) \/ LatestLoaded(i) \/ MessageSent(i) \/ EmailVerified(i) \/ SeatReserved(i)
    \/ BookingChanged(i) \/ MealSaved(i) \/ ReviewStep(i) \/ MealStep(i)
    \/ AlertEscalated(i) \/ ProfileSaved(i) \/ AccountDeleted(i)
    \/ SignedUp(i) \/ VerificationResent(i) \/ ExportRequested(i) \/ ReviewsTurned(i)
    \/ MealCancelled(i) \/ AlertRaised(i) \/ ItemDecided(i)

TabNext == \/ User \/ Others \/ Poll
        \/ \E i \in Slots : Serve(i) \/ Refuse(i) \/ Lose(i) \/ Handle(i)

\* The API answers, the event loop delivers, the interval fires; users and others may stop.
Fairness == /\ WF_tabvars(Poll)
            /\ \A i \in Slots : WF_tabvars(Serve(i) \/ Refuse(i)) /\ WF_tabvars(Handle(i))

TabSpec == TabInit /\ [][TabNext]_tabvars /\ Fairness

-----------------------------------------------------------------------------
(* What the client promises                                                *)

\* The tab's state has its type; no handler is left waiting for a slot that is not there.
TabTypeOK ==
    /\ store \in {"unknown", "anonymous", "authenticated"}
    /\ view.page \in Pages /\ view.key \in KeysOf(view.page)
    /\ view.phase \in {"idle", "loading", "ready", "error", "done"}
    /\ view.shown.thread \subseteq Messages /\ view.run \in {0, 1}
    /\ DOMAIN net = Slots
    /\ \A i \in Slots : net[i].at \in {"current", "mounted", "gone"}
                         /\ net[i].cookie \in Sessions \cup {Nil}
    /\ cookie \in Sessions \cup {Nil}
    /\ session \in [Sessions -> {"new", "live", "dead"}]
    /\ thread \in [Keys -> [Messages -> {"none", "visible", "rejected"}]]
    /\ meal \in [Keys -> [Fields -> {0, 1}]]
    /\ photo \in [Photos -> {"none", "minted", "uploaded", "attached"}]
    /\ review \in SUBSET Photos \cup {Nil}

\* What a page shows answers its own URL, however late and in whatever order the answers
\* to the URLs before it come (the cancelled flag of each effect).  BookingDetailPage and
\* MessagesPage are left out: a handler or a poll of theirs outlives a change of id.
ShownAnswersQuery ==
    view.phase = "ready" /\ view.page \in (Keyed \cap Fetching) \ {"booking", "messages"}
        => view.shown.key = view.key

\* The verification token, good for one redemption, is under way at most once, although
\* StrictMode runs the effect twice (VerifyEmailPage's ref).
RedeemedOnce ==
    \A i, j \in {k \in Slots : net[k].op = "verify" /\ Status(k) = "none"} : i = j

\* A page that shows a spinner for its request comes to show an outcome, or asks for a
\* session: no cancelled effect is the last one that listened.
NoEndlessSpinner ==
    view.phase = "loading" ~> view.phase # "loading" \/ Gate(view.page, store) = "blocked"

\* What a reader of the thread should see: the latest page of the messages not rejected.
Latest(k) == PageOf(Visible(k), LastPage(Cardinality(Visible(k))))

\* FR-06, NFR-02, AB-04: once nobody writes or moderates any more, as the bounds make sure,
\* the conversation on the screen settles on the LATEST page of its thread, whatever late
\* answer has put an older one back, whatever was stored between the two requests of load
\* and whichever of them failed; or the tab learns from the 401 of a poll, whose failure is
\* otherwise ignored, that its session has ended.
ThreadCatchesUp ==
    <>[](view.page = "messages" /\ store = "authenticated"
            => view.phase = "ready" /\ view.shown.thread = Latest(view.key))
=============================================================================
