-------------------------- MODULE DiscoveryProofs ---------------------------
(***************************************************************************)
(* Proofs about what a user is shown.  Module Discovery: search answers,   *)
(* for any number of searches, any places, radii and distances, any TTL    *)
(* and any load time.  Module Client: the pages of a browser tab, for any  *)
(* URLs, links, messages and sessions, and any number of requests in       *)
(* flight.                                                                 *)
(*                                                                         *)
(* A page that is out of date is so for a bounded time: what is wrong in a *)
(* page that has t ticks to live was read at most LoadLimit + PageTtl - t  *)
(* ticks ago, so the last change is not older than that (StalenessBounded).*)
(* A request that may still change a page is one of that page (Belongs).   *)
(***************************************************************************)
EXTENDS Discovery, Client, TLAPS

\* What is shown under a key agrees with the listing as it is now.
Right(key, shows) ==
    /\ shows \subseteq {geo}
    /\ shows # {} => VisibleNow
    /\ VisibleNow /\ key.location = None => shows = {geo}

\* Everything shown under a key lies within its radius of its place.
Near(key, shows) ==
    key.location # None /\ shows # {} =>
        /\ key.location \in DOMAIN Distance
        /\ \A g \in shows : g # None /\ Distance[key.location][g] <= key.radius

\* A page that is not right was read before the last change, and how long
\* before now is bounded by what is left of its life.
StalenessBounded ==
    /\ \A k \in CacheKeys : pages[k] # None /\ ~Right(k, pages[k].shows)
          => settled <= LoadLimit + (PageTtl - pages[k].ttl)
    /\ \A s \in Searchers : search[s] # None /\ ~Right(search[s].key, search[s].shows)
          => settled <= IF search[s].at = "store" THEN search[s].age ELSE Bound

\* A load takes at most LoadLimit.
LoadsEnd == \A s \in Searchers : search[s] # None => search[s].age <= LoadLimit

\* No page was read during an outage; a search is degraded when its own call
\* of the provider failed.
OutageIsPrivate ==
    /\ \A k \in CacheKeys : pages[k] # None => ~pages[k].degraded
    /\ \A s \in Searchers : search[s] # None =>
          (search[s].degraded <=> search[s].call = "failed")

\* Pages and searches show what is near to their own key's place.
AllNear ==
    /\ \A k \in CacheKeys : pages[k] # None => Near(k, pages[k].shows)
    /\ \A s \in Searchers : search[s] # None => Near(search[s].key, search[s].shows)

\* The inductive invariant.
DInv == TypeOK /\ StalenessBounded /\ LoadsEnd /\ OutageIsPrivate /\ AllNear

-----------------------------------------------------------------------------
(* Keys, pages and requests                                                *)

\* A normalized query is a key, and keeps its location.
LEMMA KeysTyped ==
    ASSUME NEW q \in Query
    PROVE  NormalizeQuery(q) \in CacheKeys /\ NormalizeQuery(q).location = q.location
BY DEF CacheKeys, NormalizeQuery

\* A page that is loaded shows the listing as it is, and nothing that is not
\* near to one of the areas that were found.
LEMMA LoadedPage ==
    ASSUME TypeOK, NEW key, NEW found,
           key.location = None \/ found = Resolve(key.location)
    PROVE  /\ PageFor(key, found) \in SUBSET (Spots \cup {None})
           /\ Right(key, PageFor(key, found))
           /\ Near(key, PageFor(key, found))
<1>1. CASE ~Matches(key, found)
  BY <1>1 DEF PageFor, Right, Near, Matches
<1>2. CASE Matches(key, found)
  <2>1. PageFor(key, found) = {geo} /\ VisibleNow
    BY <1>2 DEF PageFor, PublicListing, Matches
  <2>2. Near(key, {geo})
    <3>1. SUFFICES ASSUME key.location # None
                   PROVE  /\ key.location \in DOMAIN Distance
                          /\ geo # None /\ Distance[key.location][geo] <= key.radius
      BY DEF Near
    <3>2. PICK a \in Resolve(key.location) : AreaBranch(a, key.radius)
      BY <1>2, <3>1 DEF Matches
    <3>. QED
      BY <3>2 DEF Resolve, AreaBranch
  <2>. QED
    BY <2>1, <2>2 DEF Right, TypeOK
<1>. QED
  BY <1>1, <1>2

\* A request has its fields.
LEMMA RequestFields ==
    ASSUME NEW at \in {"store", "answer"}, NEW key \in CacheKeys,
           NEW shows \in SUBSET (Spots \cup {None}),
           NEW call \in {"none", "ok", "failed"}, NEW degraded \in BOOLEAN
    PROVE  /\ Request(at, key, shows, call, degraded) \in SearchRow
           /\ Request(at, key, shows, call, degraded).at = at
           /\ Request(at, key, shows, call, degraded).key = key
           /\ Request(at, key, shows, call, degraded).shows = shows
           /\ Request(at, key, shows, call, degraded).call = call
           /\ Request(at, key, shows, call, degraded).degraded = degraded
           /\ Request(at, key, shows, call, degraded).age = 0
BY DEF Request, SearchRow

\* While the listing stays as it is, what is right stays right.
LEMMA RightStays ==
    ASSUME UNCHANGED <<geo, approved, offer>>, NEW k, NEW x
    PROVE  Right(k, x)' <=> Right(k, x)
BY DEF Right, VisibleNow

-----------------------------------------------------------------------------
(* One lemma per action                                                    *)

\* A change of the listing: everything may be out of date, since now.
LEMMA ListingChanged ==
    ASSUME DInv, settled' = 0, UNCHANGED <<mapsUp, pages, areas, search>>,
           geo' \in Spots \cup {None}, approved' \in BOOLEAN, offer' \in Offers
    PROVE  DInv'
<1>1. TypeOK'
  BY DiscoveryAssumption DEF DInv, TypeOK, Bound
<1>2. StalenessBounded'
  <2>1. \A k \in CacheKeys : pages[k] # None => pages[k].ttl \in 1..PageTtl
    BY DEF DInv, TypeOK, PageRow
  <2>2. \A s \in Searchers : search[s] # None => search[s].age \in Nat
    BY DEF DInv, TypeOK, SearchRow
  <2>. QED
    BY <2>1, <2>2, DiscoveryAssumption DEF StalenessBounded, Bound
<1>3. LoadsEnd' /\ OutageIsPrivate'
  BY DEF DInv, LoadsEnd, OutageIsPrivate
<1>4. AllNear'
  BY DEF DInv, AllNear, Near
<1>. QED
  BY <1>1, <1>2, <1>3, <1>4 DEF DInv

\* An outage, a recovery or the end of a copy of an area changes no page.
LEMMA ProviderChanged ==
    ASSUME DInv, UNCHANGED <<geo, approved, offer, pages, search, settled>>,
           mapsUp' \in BOOLEAN, areas' \in [Locations -> AreaRow]
    PROVE  DInv'
<1>1. TypeOK' /\ LoadsEnd' /\ OutageIsPrivate'
  BY DEF DInv, TypeOK, LoadsEnd, OutageIsPrivate
<1>2. StalenessBounded'
  BY RightStays DEF DInv, StalenessBounded
<1>3. AllNear'
  BY DEF DInv, AllNear, Near
<1>. QED
  BY <1>1, <1>2, <1>3 DEF DInv

\* A search that begins or ends: nothing else changes but the areas.
LEMMA SearchChanged ==
    ASSUME DInv, NEW s \in Searchers, NEW r \in SearchRow \cup {None},
           search' = [search EXCEPT ![s] = r],
           UNCHANGED <<geo, approved, offer, mapsUp, pages, settled>>,
           areas' \in [Locations -> AreaRow],
           r # None =>
              /\ Right(r.key, r.shows)
                    \/ settled <= IF r.at = "store" THEN r.age ELSE Bound
              /\ r.age <= LoadLimit
              /\ r.degraded <=> r.call = "failed"
              /\ Near(r.key, r.shows)
    PROVE  DInv'
<1>1. \A x \in Searchers : search'[x] = IF x = s THEN r ELSE search[x]
  BY DEF DInv, TypeOK
<1>2. TypeOK'
  BY DEF DInv, TypeOK
<1>3. StalenessBounded'
  BY <1>1, RightStays DEF DInv, StalenessBounded
<1>4. LoadsEnd' /\ OutageIsPrivate'
  BY <1>1 DEF DInv, LoadsEnd, OutageIsPrivate
<1>5. AllNear'
  BY <1>1 DEF DInv, AllNear, Near
<1>. QED
  BY <1>2, <1>3, <1>4, <1>5 DEF DInv

\* A page that is hit passes on what it shows and how old it is.
LEMMA PageHitKeeps ==
    ASSUME DInv, NEW s \in Searchers, NEW q \in Query, PageHit(s, q)
    PROVE  DInv'
<1>. DEFINE key == NormalizeQuery(q)
            r == Request("answer", key, pages[key].shows, "none", pages[key].degraded)
<1>1. key \in CacheKeys
  BY KeysTyped
<1>2. pages[key] # None /\ pages[key] \in PageRow
  BY <1>1 DEF PageHit, DInv, TypeOK
<1>3. /\ pages[key].shows \in SUBSET (Spots \cup {None})
      /\ pages[key].degraded \in BOOLEAN
      /\ pages[key].ttl \in 1..PageTtl
  BY <1>2 DEF PageRow
<1>4. /\ r \in SearchRow /\ r.at = "answer" /\ r.key = key /\ r.age = 0
      /\ r.shows = pages[key].shows /\ r.degraded = pages[key].degraded /\ r.call = "none"
  BY SMTT(20), <1>1, <1>3, RequestFields
<1>5. Right(r.key, r.shows) \/ settled <= Bound
  <2>1. Right(key, pages[key].shows) \/ settled <= LoadLimit + (PageTtl - pages[key].ttl)
    BY <1>1, <1>2 DEF DInv, StalenessBounded
  <2>. QED
    BY <2>1, <1>3, <1>4, DiscoveryAssumption DEF Bound, DInv, TypeOK
<1>6. r.degraded <=> r.call = "failed"
  BY <1>1, <1>2, <1>4 DEF DInv, OutageIsPrivate
<1>7. Near(r.key, r.shows)
  BY <1>1, <1>2, <1>4 DEF DInv, AllNear
<1>8. /\ search' = [search EXCEPT ![s] = r]
      /\ UNCHANGED <<geo, approved, offer, mapsUp, pages, settled>>
      /\ areas' \in [Locations -> AreaRow]
  BY DEF PageHit, DInv, TypeOK
<1>. HIDE DEF key, r
<1>9. /\ Right(r.key, r.shows) \/ settled <= IF r.at = "store" THEN r.age ELSE Bound
      /\ r.age <= LoadLimit
  BY <1>4, <1>5, DiscoveryAssumption
<1>. QED
  BY <1>4, <1>6, <1>7, <1>8, <1>9, SearchChanged

\* A loaded page is right when it is read, and degraded only when the call
\* failed.
LEMMA LoadPageKeeps ==
    ASSUME DInv, NEW s \in Searchers, NEW q \in Query, NEW found,
           NEW call \in {"none", "ok", "failed"}, NEW degraded \in BOOLEAN,
           LoadPage(s, q, found, call, degraded),
           degraded <=> call = "failed",
           q.location = None \/ found = Resolve(q.location),
           areas' \in [Locations -> AreaRow]
    PROVE  DInv'
<1>. DEFINE key == NormalizeQuery(q)
            r == Request("store", key, PageFor(key, found), call, degraded)
<1>1. key \in CacheKeys /\ key.location = q.location
  BY KeysTyped
<1>2. /\ PageFor(key, found) \in SUBSET (Spots \cup {None})
      /\ Right(key, PageFor(key, found)) /\ Near(key, PageFor(key, found))
  BY <1>1, LoadedPage DEF DInv
<1>3. /\ r \in SearchRow /\ r.key = key /\ r.age = 0
      /\ r.shows = PageFor(key, found) /\ r.degraded = degraded /\ r.call = call
  <2>1. PICK shows \in SUBSET (Spots \cup {None}) : shows = PageFor(key, found)
    BY <1>2
  <2>2. r = Request("store", key, shows, call, degraded)
    BY <2>1
  <2>. HIDE DEF key, r
  <2>. QED BY SMTT(30), <1>1, <2>1, <2>2, RequestFields
<1>4. /\ search' = [search EXCEPT ![s] = r]
      /\ UNCHANGED <<geo, approved, offer, mapsUp, pages, settled>>
  BY DEF LoadPage
<1>. HIDE DEF key, r
<1>5. /\ Right(r.key, r.shows) /\ Near(r.key, r.shows)
      /\ r.age <= LoadLimit
      /\ r.degraded <=> r.call = "failed"
  BY <1>2, <1>3, DiscoveryAssumption
<1>. QED
  BY <1>3, <1>4, <1>5, SearchChanged

\* The four ways to load a page.
LEMMA LoadKeeps ==
    ASSUME DInv, NEW s \in Searchers, NEW q \in Query,
           \/ LoadBrowse(s, q) \/ LoadFromFresh(s, q)
           \/ LoadFromProvider(s, q) \/ LoadFromStale(s, q)
    PROVE  DInv'
<1>1. areas \in [Locations -> AreaRow]
  BY DEF DInv, TypeOK
<1>2. CASE LoadBrowse(s, q)
  <2>1. LoadPage(s, q, {}, "none", FALSE) /\ q.location = None /\ areas' = areas
    BY <1>2 DEF LoadBrowse
  <2>. QED
    BY <2>1, <1>1, LoadPageKeeps
<1>3. CASE LoadFromFresh(s, q)
  <2>1. LoadPage(s, q, Resolve(q.location), "none", FALSE) /\ areas' = areas
    BY <1>3 DEF LoadFromFresh
  <2>. QED
    BY <2>1, <1>1, LoadPageKeeps
<1>4. CASE LoadFromProvider(s, q)
  <2>1. LoadPage(s, q, Resolve(q.location), "ok", FALSE)
    BY <1>4 DEF LoadFromProvider
  <2>2. areas' \in [Locations -> AreaRow]
    <3>1. PICK fresh, stale \in BOOLEAN :
             areas' = [areas EXCEPT ![q.location] = [fresh |-> @.fresh \/ fresh,
                                                     stale |-> @.stale \/ stale]]
      BY <1>4 DEF LoadFromProvider
    <3>2. q.location \in Locations
      BY <1>4 DEF LoadFromProvider, Query
    <3>3. areas[q.location].fresh \in BOOLEAN /\ areas[q.location].stale \in BOOLEAN
      BY <1>1, <3>2 DEF AreaRow
    <3>. QED
      BY <1>1, <3>1, <3>2, <3>3 DEF AreaRow
  <2>. QED
    BY <2>1, <2>2, LoadPageKeeps
<1>5. CASE LoadFromStale(s, q)
  <2>1. LoadPage(s, q, Resolve(q.location), "failed", TRUE) /\ areas' = areas
    BY <1>5 DEF LoadFromStale
  <2>. QED
    BY <2>1, <1>1, LoadPageKeeps
<1>. QED
  BY <1>2, <1>3, <1>4, <1>5

\* A page that is stored has its whole life before it and was read at most
\* LoadLimit ago.
LEMMA StoreKeeps ==
    ASSUME DInv, NEW s \in Searchers, StorePage(s)
    PROVE  DInv'
<1>. DEFINE r == search[s]
            a == [r EXCEPT !.at = "answer", !.age = 0]
<1>1. /\ r # None /\ r.at = "store" /\ r \in SearchRow
      /\ UNCHANGED <<geo, approved, offer, mapsUp, areas, settled>>
  BY DEF StorePage, DInv, TypeOK
<1>2. search' = [search EXCEPT ![s] = a]
  BY <1>1 DEF StorePage, DInv, TypeOK, SearchRow
<1>3. /\ a \in SearchRow /\ a.at = "answer" /\ a.age = 0 /\ a.key = r.key
      /\ a.shows = r.shows /\ a.degraded = r.degraded /\ a.call = r.call
  BY <1>1 DEF SearchRow
<1>4. /\ r.key \in CacheKeys /\ r.age \in Nat /\ r.age <= LoadLimit
      /\ r.shows \in SUBSET (Spots \cup {None})
      /\ Right(r.key, r.shows) \/ settled <= r.age
      /\ Near(r.key, r.shows)
      /\ r.degraded <=> r.call = "failed"
      /\ r.degraded \in BOOLEAN
  BY <1>1 DEF DInv, StalenessBounded, LoadsEnd, AllNear, OutageIsPrivate, SearchRow
<1>5. PICK p \in PageRow : /\ pages' = pages \/ pages' = [pages EXCEPT ![r.key] = p]
                           /\ p.shows = r.shows /\ ~p.degraded /\ p.ttl = PageTtl
  <2>. DEFINE pg == [shows |-> r.shows, degraded |-> FALSE, ttl |-> PageTtl]
  <2>1. pg \in PageRow /\ pg.shows = r.shows /\ ~pg.degraded /\ pg.ttl = PageTtl
    BY <1>4, DiscoveryAssumption DEF PageRow
  <2>2. CASE MayStore(r) /\ pages' = [pages EXCEPT ![r.key] = Stored(r)]
    <3>1. Stored(r) = pg
      BY <1>4, <2>2 DEF Stored, MayStore
    <3>. QED
      BY <2>1, <2>2, <3>1
  <2>3. CASE UNCHANGED pages
    BY <2>1, <2>3
  <2>. QED
    BY <2>2, <2>3 DEF StorePage
<1>. HIDE DEF r, a
<1>6. \A x \in Searchers : search'[x] = IF x = s THEN a ELSE search[x]
  BY <1>2 DEF DInv, TypeOK
<1>7. \A k \in CacheKeys : \/ pages'[k] = pages[k]
                           \/ k = r.key /\ pages'[k] = p
  BY <1>5 DEF DInv, TypeOK
<1>8. TypeOK'
  BY <1>1, <1>2, <1>3, <1>4, <1>5 DEF DInv, TypeOK
<1>9. StalenessBounded'
  <2>1. ASSUME NEW k \in CacheKeys, pages'[k] # None, ~Right(k, pages'[k].shows)
        PROVE  settled <= LoadLimit + (PageTtl - pages'[k].ttl)
    <3>1. CASE pages'[k] = pages[k]
      BY <2>1, <3>1 DEF DInv, StalenessBounded
    <3>2. CASE k = r.key /\ pages'[k] = p
      BY <2>1, <3>2, <1>4, <1>5, DiscoveryAssumption DEF DInv, TypeOK
    <3>. QED
      BY <3>1, <3>2, <1>7
  <2>2. ASSUME NEW x \in Searchers, search'[x] # None,
               ~Right(search'[x].key, search'[x].shows)
        PROVE  settled <= IF search'[x].at = "store" THEN search'[x].age ELSE Bound
    <3>1. CASE x = s
      BY <2>2, <3>1, <1>3, <1>4, <1>6, DiscoveryAssumption DEF DInv, TypeOK, Bound
    <3>2. CASE x # s
      BY <2>2, <3>2, <1>6 DEF DInv, StalenessBounded
    <3>. QED
      BY <3>1, <3>2
  <2>. QED
    BY <1>1, <2>1, <2>2 DEF StalenessBounded, Right, VisibleNow
<1>10. LoadsEnd'
  BY <1>3, <1>6, DiscoveryAssumption DEF DInv, LoadsEnd
<1>11. OutageIsPrivate'
  BY <1>3, <1>4, <1>5, <1>6, <1>7 DEF DInv, OutageIsPrivate
<1>12. AllNear'
  BY <1>3, <1>4, <1>5, <1>6, <1>7 DEF DInv, AllNear, Near
<1>. QED
  BY <1>8, <1>9, <1>10, <1>11, <1>12 DEF DInv

\* A tick takes as much from what is left of a page as it adds to the time
\* since the last change.
LEMMA TickKeeps ==
    ASSUME DInv, Tick
    PROVE  DInv'
<1>1. /\ UNCHANGED <<geo, approved, offer, mapsUp, areas>>
      /\ pages' = [k \in CacheKeys |-> Aged(pages[k])]
      /\ settled' = IF settled > Bound THEN settled ELSE settled + 1
      /\ settled \in 0..(Bound + 1)
  BY DEF Tick, DInv, TypeOK
<1>2. ASSUME NEW k \in CacheKeys, pages'[k] # None
      PROVE  /\ pages[k] # None
             /\ pages'[k] \in PageRow
             /\ pages'[k].shows = pages[k].shows
             /\ pages'[k].degraded = pages[k].degraded
             /\ pages[k].ttl \in 1..PageTtl
             /\ pages'[k].ttl = pages[k].ttl - 1
  <2>1. pages[k] # None /\ pages[k].ttl # 1 /\ pages'[k] = [pages[k] EXCEPT !.ttl = @ - 1]
    BY <1>1, <1>2 DEF Aged
  <2>2. pages[k] \in PageRow
    BY <2>1 DEF DInv, TypeOK
  <2>. QED
    BY <2>1, <2>2, DiscoveryAssumption DEF PageRow
<1>3. ASSUME NEW s \in Searchers, search[s] # None
      PROVE  /\ search'[s] \in SearchRow
             /\ search[s].at = "store" /\ search'[s].at = "store"
             /\ search[s].age \in Nat
             /\ search'[s].age = search[s].age + 1
             /\ search[s].age < LoadLimit
             /\ search'[s].key = search[s].key /\ search'[s].shows = search[s].shows
             /\ search'[s].call = search[s].call /\ search'[s].degraded = search[s].degraded
  <2>1. search[s] \in SearchRow
    BY <1>3 DEF DInv, TypeOK
  <2>2. search[s].at = "store" /\ search[s].age < LoadLimit
    BY <1>3, <2>1 DEF Tick, SearchRow
  <2>3. search'[s] = [search[s] EXCEPT !.age = @ + 1]
    BY <1>3, <2>2 DEF Tick
  <2>. QED
    BY <2>1, <2>2, <2>3 DEF SearchRow
<1>4. \A s \in Searchers : search'[s] # None => search[s] # None
  BY DEF Tick
<1>5. TypeOK'
  <2>1. pages' \in [CacheKeys -> PageRow \cup {None}]
    BY <1>1, <1>2
  <2>2. search' \in [Searchers -> SearchRow \cup {None}]
    BY <1>3, <1>4 DEF Tick
  <2>3. settled' \in 0..(Bound + 1)
    BY <1>1, DiscoveryAssumption DEF Bound
  <2>. QED
    BY <1>1, <2>1, <2>2, <2>3 DEF DInv, TypeOK
<1>6. StalenessBounded'
  <2>1. ASSUME NEW k \in CacheKeys, pages'[k] # None, ~Right(k, pages'[k].shows)
        PROVE  settled' <= LoadLimit + (PageTtl - pages'[k].ttl)
    <3>1. settled <= LoadLimit + (PageTtl - pages[k].ttl)
      BY <1>2, <2>1 DEF DInv, StalenessBounded
    <3>. QED
      BY <1>1, <1>2, <2>1, <3>1, DiscoveryAssumption DEF Bound
  <2>2. ASSUME NEW s \in Searchers, search'[s] # None,
               ~Right(search'[s].key, search'[s].shows)
        PROVE  settled' <= IF search'[s].at = "store" THEN search'[s].age ELSE Bound
    <3>1. settled <= search[s].age
      BY <1>3, <1>4, <2>2 DEF DInv, StalenessBounded
    <3>. QED
      BY <1>1, <1>3, <1>4, <2>2, <3>1, DiscoveryAssumption DEF Bound
  <2>. QED
    BY <1>1, <2>1, <2>2 DEF StalenessBounded, Right, VisibleNow
<1>7. LoadsEnd'
  BY <1>3, <1>4, DiscoveryAssumption DEF LoadsEnd
<1>8. OutageIsPrivate'
  BY <1>2, <1>3, <1>4 DEF DInv, OutageIsPrivate
<1>9. AllNear'
  BY <1>2, <1>3, <1>4 DEF DInv, AllNear, Near
<1>. QED
  BY <1>5, <1>6, <1>7, <1>8, <1>9 DEF DInv

-----------------------------------------------------------------------------
(* The invariant and the theorems                                          *)

\* Nothing is cached at first.
LEMMA InitiallyRight == Init => DInv
<1>. SUFFICES ASSUME Init PROVE DInv
  OBVIOUS
<1>1. TypeOK
  <2>1. [fresh |-> FALSE, stale |-> FALSE] \in AreaRow
    BY DEF AreaRow
  <2>2. 0 \in 0..(Bound + 1)
    BY DiscoveryAssumption DEF Bound
  <2>. QED
    BY <2>1, <2>2 DEF Init, TypeOK, Offers
<1>2. StalenessBounded /\ LoadsEnd /\ OutageIsPrivate /\ AllNear
  BY DEF Init, StalenessBounded, LoadsEnd, OutageIsPrivate, AllNear
<1>. QED
  BY <1>1, <1>2 DEF DInv

\* Every step keeps the invariant.
LEMMA NextKeeps == DInv /\ [Next]_vars => DInv'
<1>. SUFFICES ASSUME DInv, [Next]_vars PROVE DInv'
  OBVIOUS
<1>1. TypeOK
  BY DEF DInv
<1>2. CASE Moderated \/ (\E g \in Spots \cup {None} : Relocated(g))
             \/ (\E why \in Offers \ {"open"} : OfferEnds(why))
  BY <1>1, <1>2, ListingChanged DEF Moderated, Relocated, OfferEnds, TypeOK
<1>3. CASE ProviderFails \/ ProviderRecovers \/ UNCHANGED vars
  BY <1>1, <1>3, ProviderChanged DEF ProviderFails, ProviderRecovers, vars, TypeOK
<1>4. ASSUME NEW l \in Locations, AreaExpires(l) PROVE DInv'
  <2>1. areas' \in [Locations -> AreaRow]
    <3>1. areas \in [Locations -> AreaRow] /\ areas[l] \in AreaRow
      BY <1>1 DEF TypeOK
    <3>2. /\ [areas[l] EXCEPT !.fresh = FALSE] \in AreaRow
          /\ [areas[l] EXCEPT !.stale = FALSE] \in AreaRow
      BY <3>1 DEF AreaRow
    <3>. QED
      BY <1>4, <3>1, <3>2 DEF AreaExpires
  <2>. QED
    BY <1>1, <1>4, <2>1, ProviderChanged DEF AreaExpires, TypeOK
<1>5. ASSUME NEW s \in Searchers, EndSearch(s) PROVE DInv'
  BY <1>1, <1>5, SearchChanged DEF EndSearch, TypeOK
<1>. QED
  BY <1>2, <1>3, <1>4, <1>5, PageHitKeeps, LoadKeeps, StoreKeeps, TickKeeps DEF Next

\* The listing, the caches and the requests always have their types, and
\* what is stale is so for a bounded time.
THEOREM DiscoveryInvariance == Spec => []DInv
<1>. QED
  BY InitiallyRight, NextKeeps, PTL DEF Spec

\* FR-01, FR-08: nothing invalidates a page, yet a TTL and the time of a load
\* after the last change every answer shows the listing as it is, or not at
\* all when it is no longer to be seen.
THEOREM StaleAnswersEnd == Spec => []AnswersCatchUp
<1>1. DInv => AnswersCatchUp
  <2>. SUFFICES ASSUME DInv, NEW s \in Searchers, Answering(s), settled > Bound
                PROVE  Right(search[s].key, search[s].shows)
    BY DEF AnswersCatchUp, Right, VisibleNow
  <2>. QED
    BY DiscoveryAssumption DEF DInv, StalenessBounded, Answering, TypeOK, Bound
<1>. QED
  BY <1>1, DiscoveryInvariance, PTL

\* NFR-09: a cached page never carries an outage into a later answer.
THEOREM DegradedIsOwnOutage == Spec => []DegradedMeansOutage
<1>1. DInv => DegradedMeansOutage
  BY DEF DInv, OutageIsPrivate, DegradedMeansOutage, Answering
<1>. QED
  BY <1>1, DiscoveryInvariance, PTL

\* FR-01: no answer to a search around a place shows what is farther away
\* than the radius, whatever it was answered from.
THEOREM AnswersAreNear == Spec => []NearbyIsNear
<1>1. DInv => NearbyIsNear
  BY DEF DInv, AllNear, Near, NearbyIsNear, Answering
<1>. QED
  BY <1>1, DiscoveryInvariance, PTL

-----------------------------------------------------------------------------
(* The tab.  Requests and views are records of any values: what is proved  *)
(* does not depend on what they carry.                                     *)

\* The fields of a request and of a view that the invariant speaks of.
IsRequest(r) == {"op", "click", "key", "at"} \subseteq DOMAIN r

IsView(v) ==
    /\ {"page", "key", "phase", "shown", "run"} \subseteq DOMAIN v
    /\ {"key", "thread"} \subseteq DOMAIN v.shown

\* The pages ShownAnswersQuery is about.
Asking == (Keyed \cap Fetching) \ {"booking", "messages"}

\* A request whose answer the page shown may still take is one of this page: a load that is
\* not cancelled is for the URL shown, and the handlers that outlive a change of id end
\* with their page.
Belongs(r, v, st) ==
    /\ r.op = "load" /\ r.at = "current"
         => /\ r.click = Nil /\ r.key = v.key
            /\ v.page \in Fetching /\ Gate(v.page, st) # "blocked"
    /\ r.op \in {"confirm", "cancel"} /\ r.at # "gone" => v.page = "booking"
    /\ r.op \in {"thread", "latest"} /\ r.at # "gone" => v.page = "messages"

\* At most one slot of n redeems a token.
OneRedemption(n) ==
    \A i, j \in Slots : n[i].op = "verify" /\ n[j].op = "verify" => i = j

\* The requests n belong to view v and store st.
NetOk(n, v, st) ==
    /\ n = [i \in Slots |-> n[i]]
    /\ \A i \in Slots : IsRequest(n[i]) /\ Belongs(n[i], v, st)
    /\ OneRedemption(n)

\* What is shown answers the URL; a page that may not ask shows nothing.
ViewOk(v) ==
    /\ IsView(v)
    /\ v.page = view.page /\ v.key = view.key /\ v.page \in Asking /\ v.phase = "ready"
         => v.shown.key = v.key
    /\ v.page = "queue" /\ Gate(v.page, store) = "blocked" => v.phase # "ready"

\* The inductive invariant of the tab.
TabInv == NetOk(net, view, store) /\ ViewOk(view)

-----------------------------------------------------------------------------
(* Records                                                                 *)

LEMMA AtIs ==
    ASSUME NEW r, IsRequest(r), NEW x, NEW q, q = [r EXCEPT !.at = x]
    PROVE  IsRequest(q) /\ q.op = r.op /\ q.click = r.click /\ q.key = r.key /\ q.at = x
  BY DEF IsRequest

LEMMA ReplyIs ==
    ASSUME NEW r, IsRequest(r), NEW x, NEW q, q = [r EXCEPT !.reply = x]
    PROVE  IsRequest(q) /\ q.op = r.op /\ q.click = r.click /\ q.key = r.key /\ q.at = r.at
  BY DEF IsRequest

LEMMA RequestIs ==
    ASSUME NEW op, NEW click, NEW k, NEW r, r = NewRequest(op, click, k)
    PROVE  IsRequest(r) /\ r.op = op /\ r.click = click /\ r.key = k /\ r.at = "current"
  BY DEF IsRequest, NewRequest, Idle

LEMMA IdleIs == IsRequest(Idle) /\ Idle.op = "idle"
  BY DEF IsRequest, Idle

LEMMA PageIs ==
    ASSUME NEW p, NEW k
    PROVE  LET v == Page(p, k)
           IN  IsView(v) /\ v.page = p /\ v.key = k /\ v.phase = "idle"
  BY DEF IsView, Page, Nothing

-----------------------------------------------------------------------------
(* Requests                                                                *)

\* m is n with r in at most one of its slots.
WritesOne(m, n, r) ==
    \E j : \A i \in Slots : IF i = j THEN m[i] = r ELSE m[i] = n[i]

LEMMA PutIs ==
    ASSUME NEW n, n = [i \in Slots |-> n[i]], NEW r
    PROVE  WritesOne(Put(n, r), n, r)
  <1>. DEFINE j == CHOOSE j \in Free(n) : \A k \in Free(n) : j <= k
  <1>1. Put(n, r) = [n EXCEPT ![j] = r]
    BY DEF Put
  <1>. HIDE DEF j
  <1>. QED BY <1>1 DEF WritesOne

LEMMA PutIsNet ==
    ASSUME NEW n, n = [i \in Slots |-> n[i]], NEW r
    PROVE  Put(n, r) = [i \in Slots |-> Put(n, r)[i]]
  <1>. DEFINE j == CHOOSE j \in Free(n) : \A k \in Free(n) : j <= k
  <1>1. Put(n, r) = [n EXCEPT ![j] = r]
    BY DEF Put
  <1>. HIDE DEF j
  <1>. QED BY <1>1

\* A new request that belongs there, and is no redemption unless there is none.
LEMMA PutOk ==
    ASSUME NEW n, NEW v, NEW st, NetOk(n, v, st), NEW r, IsRequest(r), Belongs(r, v, st),
           r.op # "verify" \/ \A i \in Slots : n[i].op # "verify"
    PROVE  NetOk(Put(n, r), v, st)
  <1>. n = [i \in Slots |-> n[i]]
    BY DEF NetOk
  <1>. PICK m : m = Put(n, r)
    OBVIOUS
  <1>0. WritesOne(m, n, r)
    BY PutIs
  <1>1. PICK j : \A i \in Slots : IF i = j THEN m[i] = r ELSE m[i] = n[i]
    BY <1>0 DEF WritesOne
  <1>2. m = [i \in Slots |-> m[i]]
    BY PutIsNet
  <1>3. OneRedemption(m)
    BY <1>1 DEF OneRedemption, NetOk
  <1>. QED BY <1>1, <1>2, <1>3 DEF NetOk

LEMMA DoneOk ==
    ASSUME TabInv, NEW i \in Slots
    PROVE  NetOk(Done(i), view, store)
  <1>1. /\ Done(i) = [k \in Slots |-> Done(i)[k]]
        /\ \A k \in Slots : Done(i)[k] = IF k = i THEN Idle ELSE net[k]
    BY DEF TabInv, NetOk, Done
  <1>2. Belongs(Idle, view, store)
    BY IdleIs DEF Belongs
  <1>. QED BY <1>1, <1>2, IdleIs DEF TabInv, NetOk, OneRedemption

LEMMA AnswerKeeps ==
    ASSUME TabInv, NEW i \in Slots, NEW r, Answer(i, r), UNCHANGED <<store, view>>
    PROVE  TabInv'
  <1>1. /\ net' = [k \in Slots |-> net'[k]]
        /\ \A k \in Slots : net'[k] = IF k = i THEN [net[i] EXCEPT !.reply = r] ELSE net[k]
    BY DEF TabInv, NetOk, Answer
  <1>2. IsRequest(net[i])
    BY DEF TabInv, NetOk
  <1>3. PICK q : q = [net[i] EXCEPT !.reply = r]
    OBVIOUS
  <1>4. IsRequest(q) /\ q.op = net[i].op /\ q.at = net[i].at /\ q.click = net[i].click
        /\ q.key = net[i].key
    BY <1>2, <1>3, ReplyIs
  <1>5. \A k \in Slots : IsRequest(net'[k]) /\ Belongs(net'[k], view, store)
    BY ZenonT(60), <1>1, <1>3, <1>4 DEF TabInv, NetOk, Belongs
  <1>6. OneRedemption(net)'
    BY ZenonT(60), <1>1, <1>3, <1>4 DEF TabInv, NetOk, OneRedemption
  <1>. QED BY <1>1, <1>5, <1>6 DEF TabInv, NetOk, ViewOk, Belongs, Slots, Gate

\* What is left of the requests when an effect is cleaned up.
LEMMA CleanUpIs ==
    ASSUME NEW n, NEW v, NEW st, NetOk(n, v, st), NEW b
    PROVE  LET c == CleanUp(n, b)
           IN  /\ c = [i \in Slots |-> c[i]]
               /\ \A i \in Slots :
                    /\ IsRequest(c[i]) /\ c[i].op = n[i].op
                    /\ ~(c[i].op = "load" /\ c[i].at = "current")
                    /\ c[i].at # "gone" /\ c[i].op # "idle" => ~b /\ n[i].at # "gone"
                    /\ n[i].at # "gone" /\ n[i].op # "idle" => b \/ c[i].at # "gone"
  <1>. DEFINE c == CleanUp(n, b)
  <1>. SUFFICES ASSUME NEW i \in Slots
                PROVE  /\ IsRequest(c[i]) /\ c[i].op = n[i].op
                       /\ ~(c[i].op = "load" /\ c[i].at = "current")
                       /\ c[i].at # "gone" /\ c[i].op # "idle" => ~b /\ n[i].at # "gone"
                       /\ n[i].at # "gone" /\ n[i].op # "idle" => b \/ c[i].at # "gone"
    BY DEF CleanUp
  <1>. DEFINE a == IF b THEN "gone"
                   ELSE IF n[i].click = Nil /\ n[i].at = "current" THEN "mounted" ELSE n[i].at
  <1>1. PICK x : x = a
    OBVIOUS
  <1>5. c[i] = IF n[i] = Idle THEN Idle ELSE [n[i] EXCEPT !.at = x]
    BY <1>1 DEF CleanUp
  <1>2. IsRequest(n[i]) /\ Belongs(n[i], v, st)
    BY DEF NetOk
  <1>3. CASE n[i] = Idle
    BY <1>5, <1>3, IdleIs
  <1>4. CASE n[i] # Idle
    <2>1. IsRequest(c[i]) /\ c[i].op = n[i].op /\ c[i].at = x
      BY <1>5, <1>2, <1>4, AtIs
    <2>. QED BY <1>1, <1>2, <2>1 DEF Belongs
  <1>. QED BY <1>3, <1>4

\* The request of a page's effect.
LEMMA LoadIs ==
    ASSUME NEW v, NEW r, r = Load(v)
    PROVE  /\ IsRequest(r) /\ r.click = Nil /\ r.key = v.key /\ r.at = "current"
           /\ r.op = IF v.page = "messages" THEN "thread" ELSE "load"
  BY RequestIs DEF Load

-----------------------------------------------------------------------------
(* A render                                                                *)

\* An effect that is cleaned up leaves no load that is listened to, and what is left of
\* the handlers belongs to the same page.
LEMMA CleanUpOk ==
    ASSUME NEW n, NEW u, NEW old, NetOk(n, u, old), NEW unmounted, NEW v, NEW st,
           unmounted = TRUE \/ v.page = u.page
    PROVE  NetOk(CleanUp(n, unmounted), v, st)
  <1>. PICK c : c = CleanUp(n, unmounted)
    OBVIOUS
  <1>1. /\ c = [i \in Slots |-> c[i]]
        /\ \A i \in Slots :
              /\ IsRequest(c[i]) /\ c[i].op = n[i].op
              /\ ~(c[i].op = "load" /\ c[i].at = "current")
              /\ c[i].at # "gone" /\ c[i].op # "idle" => ~unmounted /\ n[i].at # "gone"
    BY CleanUpIs
  <1>2. \A i \in Slots : Belongs(n[i], u, old)
    BY DEF NetOk
  <1>3. ASSUME NEW i \in Slots PROVE Belongs(c[i], v, st)
    BY <1>1, <1>2 DEF Belongs
  <1>4. OneRedemption(c)
    BY <1>1 DEF NetOk, OneRedemption
  <1>. QED BY <1>1, <1>3, <1>4 DEF NetOk

LEMMA ReactKeeps ==
    ASSUME TabInv, NEW st, NEW v, NEW n, React(st, v, n), ViewOk(v), NetOk(n, view, store)
    PROVE  TabInv'
  <1>. DEFINE moved == v.page # view.page
              unmounted == \/ moved
                           \/ /\ v.page \in Moderation
                              /\ Gate(v.page, st) # Gate(view.page, store)
              clean == CleanUp(n, unmounted)
              asks == v.page \in Fetching /\ Gate(v.page, st) # "blocked"
              keeps == v.page = "messages" /\ ~moved
  <1>1. CASE Dependencies(v, st) = Dependencies(view, store)
    <2>1. view' = v /\ net' = n /\ store' = st
      BY <1>1 DEF React
    <2>2. /\ v.page = view.page /\ v.key = view.key
          /\ Gate(v.page, st) = Gate(view.page, store)
      BY <1>1 DEF Dependencies
    <2>3. NetOk(n, v, st)
      BY <2>2 DEF NetOk, Belongs
    <2>4. Gate(v.page, st) = Gate(v.page, store)
      BY <2>2
    <2>5. NetOk(net, view, store)'
      BY <2>1, <2>3
    <2>6. ViewOk(view)'
      BY <2>1, <2>2, <2>4 DEF ViewOk, Gate
    <2>. QED BY <2>5, <2>6 DEF TabInv
  <1>2. CASE Dependencies(v, st) # Dependencies(view, store)
    <2>1. /\ store' = st
          /\ view' = IF asks /\ ~keeps
                     THEN [v EXCEPT !.phase = "loading", !.shown = Nothing]
                     ELSE IF unmounted THEN Page(v.page, v.key) ELSE v
          /\ net' = IF asks THEN Put(clean, Load(v)) ELSE clean
      BY <1>2 DEF React
    <2>. HIDE DEF clean
    <2>2. NetOk(clean, v, st)
      <3>1. unmounted = TRUE \/ v.page = view.page
        OBVIOUS
      <3>. HIDE DEF unmounted
      <3>. QED BY <3>1, CleanUpOk DEF clean
    <2>3. NetOk(net', v, st)
      <3>1. CASE asks
        <4>1. PICK r : r = Load(v)
          OBVIOUS
        <4>2. IsRequest(r) /\ r.op # "verify" /\ Belongs(r, v, st)
          BY <3>1, <4>1, LoadIs DEF Belongs
        <4>3. net' = Put(clean, r)
          BY <2>1, <3>1, <4>1
        <4>. QED BY <2>2, <4>2, <4>3, PutOk
      <3>2. CASE ~asks
        BY <2>1, <2>2, <3>2
      <3>. QED BY <3>1, <3>2
    <2>4. view'.page = v.page /\ view'.key = v.key /\ IsView(view')
      <3>1. PICK p : p = Page(v.page, v.key)
        OBVIOUS
      <3>2. PICK l : l = [v EXCEPT !.phase = "loading", !.shown = Nothing]
        OBVIOUS
      <3>3. IsView(p) /\ p.page = v.page /\ p.key = v.key
        BY <3>1, PageIs
      <3>4. IsView(l) /\ l.page = v.page /\ l.key = v.key
        BY <3>2 DEF ViewOk, IsView, Nothing
      <3>. QED BY <2>1, <3>1, <3>2, <3>3, <3>4 DEF ViewOk
    <2>5. NetOk(net, view, store)'
      BY <2>1, <2>3, <2>4 DEF NetOk, Belongs
    <2>6. view'.phase = "ready" => view' = v /\ ~(asks /\ ~keeps) /\ ~unmounted
      <3>1. PICK p : p = Page(v.page, v.key)
        OBVIOUS
      <3>2. PICK l : l = [v EXCEPT !.phase = "loading", !.shown = Nothing]
        OBVIOUS
      <3>3. p.phase = "idle" /\ l.phase = "loading"
        BY <3>1, <3>2, PageIs DEF ViewOk, IsView
      <3>. QED BY <2>1, <3>1, <3>2, <3>3
    <2>7. ASSUME view'.phase = "ready", v.page \in Asking
          PROVE  v.shown.key = v.key /\ ~(v.page = "queue" /\ Gate(v.page, st) = "blocked")
      <3>1. view' = v /\ v.page = view.page /\ Gate(v.page, st) = "blocked"
        BY <2>6, <2>7 DEF Asking
      <3>2. v.page = "queue"
        BY <2>7, <3>1 DEF Asking, Gate, SignedInOnly, Moderation, Keyed, Gated
      <3>3. Gate(v.page, store) = "blocked"
        BY <2>6, <2>7, <3>1, <3>2 DEF Moderation
      <3>. QED BY <2>7, <3>1, <3>2, <3>3 DEF ViewOk
    <2>8. "queue" \in Asking
      BY DEF Asking, Keyed, Fetching, Moderation, Gated
    <2>9. ViewOk(view)'
      BY <2>1, <2>4, <2>6, <2>7, <2>8 DEF ViewOk, Gate
    <2>. QED BY <2>5, <2>9 DEF TabInv
  <1>. QED BY <1>1, <1>2

-----------------------------------------------------------------------------
(* The answers                                                             *)

\* What a handler may make of the view without asking the page again.
LEMMA ViewStays == ASSUME TabInv PROVE ViewOk(view)
  BY DEF TabInv

LEMMA PhaseOk ==
    ASSUME TabInv, NEW i \in Slots, NEW ph, ph # "ready"
    PROVE  ViewOk(InPhase(i, ph))
  <1>1. PICK v : v = [view EXCEPT !.phase = ph]
    OBVIOUS
  <1>2. v.phase # "ready" /\ IsView(v)
    BY <1>1 DEF TabInv, ViewOk, IsView
  <1>3. ViewOk(v)
    BY <1>2 DEF ViewOk
  <1>. QED BY <1>1, <1>3, ViewStays DEF InPhase, Shown

LEMMA PageOk ==
    ASSUME NEW p, NEW k
    PROVE  ViewOk(Page(p, k))
  <1>1. PICK v : v = Page(p, k)
    OBVIOUS
  <1>2. IsView(v) /\ v.phase = "idle"
    BY <1>1, PageIs
  <1>. QED BY <1>1, <1>2 DEF ViewOk

LEMMA RunOk ==
    ASSUME TabInv, NEW x
    PROVE  ViewOk([view EXCEPT !.run = x])
  <1>1. PICK v : v = [view EXCEPT !.run = x]
    OBVIOUS
  <1>2. /\ IsView(v) /\ v.page = view.page /\ v.key = view.key
        /\ v.phase = view.phase /\ v.shown = view.shown
    BY <1>1 DEF TabInv, ViewOk, IsView
  <1>. QED BY <1>1, <1>2 DEF ViewOk, TabInv

\* A load that is listened to is for the URL shown, and its page may ask.
LEMMA LoadedOk ==
    ASSUME TabInv, NEW i \in Slots, Answered(i, "load"), Current(i)
    PROVE  ViewOk(Loaded(i))
  <1>1. PICK s : s = [Nothing EXCEPT !.key = net[i].key, !.meal = net[i].reply.meal]
    OBVIOUS
  <1>2. {"key", "thread"} \subseteq DOMAIN s /\ s.key = net[i].key
    BY <1>1 DEF Nothing
  <1>3. PICK v : v = [view EXCEPT !.phase = "ready", !.shown = s]
    OBVIOUS
  <1>4. IsView(v) /\ v.page = view.page /\ v.key = view.key /\ v.shown = s
    BY <1>2, <1>3 DEF TabInv, ViewOk, IsView
  <1>5. net[i].key = view.key /\ Gate(view.page, store) # "blocked"
    BY DEF TabInv, NetOk, Belongs, Answered, Current
  <1>6. ViewOk(v)
    BY <1>2, <1>4, <1>5 DEF ViewOk
  <1>. QED BY <1>1, <1>3, <1>6 DEF Loaded

\* The thread is shown on its own page only.
LEMMA ThreadOk ==
    ASSUME TabInv, NEW i \in Slots, net[i].op \in {"thread", "latest"}
    PROVE  ViewOk(ThreadShown(i))
  <1>1. ASSUME NEW s, {"key", "thread"} \subseteq DOMAIN s, NEW ph,
               NEW v, v = [view EXCEPT !.phase = ph, !.shown = s]
        PROVE  ViewOk(Shown(i, v))
    <2>1. CASE net[i].at = "gone"
      BY <2>1, ViewStays DEF Shown
    <2>2. CASE net[i].at # "gone"
      <3>1. view.page = "messages"
        BY <2>2 DEF TabInv, NetOk, Belongs
      <3>2. IsView(v) /\ v.page = "messages"
        BY <1>1, <3>1 DEF TabInv, ViewOk, IsView
      <3>3. ViewOk(v)
        BY <3>2 DEF ViewOk, Asking
      <3>. QED BY <2>2, <3>3 DEF Shown
    <2>. QED BY <2>1, <2>2
  <1>2. PICK s : s = [Nothing EXCEPT !.thread = net[i].reply.thread]
    OBVIOUS
  <1>3. {"key", "thread"} \subseteq DOMAIN s /\ {"key", "thread"} \subseteq DOMAIN Nothing
    BY <1>2 DEF Nothing
  <1>4. PICK v : v = [view EXCEPT !.phase = "ready", !.shown = s]
    OBVIOUS
  <1>5. PICK e : e = [view EXCEPT !.phase = "error", !.shown = Nothing]
    OBVIOUS
  <1>6. ViewOk(Shown(i, v)) /\ ViewOk(Shown(i, e))
    BY <1>1, <1>3, <1>4, <1>5
  <1>7. ThreadShown(i) = Shown(i, v) \/ ThreadShown(i) = view \/ ThreadShown(i) = Shown(i, e)
    BY <1>2, <1>4, <1>5 DEF ThreadShown
  <1>. QED BY <1>6, <1>7, ViewStays

LEMMA AppendOk ==
    ASSUME TabInv, NEW i \in Slots, NEW x
    PROVE  ViewOk(Shown(i, [view EXCEPT !.shown.thread = x]))
  <1>1. PICK s : s = [view.shown EXCEPT !.thread = x]
    OBVIOUS
  <1>2. {"key", "thread"} \subseteq DOMAIN s /\ s.key = view.shown.key
    BY <1>1 DEF TabInv, ViewOk, IsView
  <1>3. PICK v : v = [view EXCEPT !.shown = s]
    OBVIOUS
  <1>4. /\ IsView(v) /\ v.page = view.page /\ v.key = view.key
        /\ v.phase = view.phase /\ v.shown.key = view.shown.key
    BY <1>2, <1>3 DEF TabInv, ViewOk, IsView
  <1>5. ViewOk(v)
    BY <1>4 DEF ViewOk, TabInv
  <1>6. v = [view EXCEPT !.shown.thread = x]
    BY <1>1, <1>3 DEF TabInv, ViewOk, IsView
  <1>. QED BY <1>5, <1>6, ViewStays DEF Shown

LEMMA BookingOk ==
    ASSUME TabInv, NEW i \in Slots, net[i].op \in {"confirm", "cancel"}, NEW x
    PROVE  ViewOk(Shown(i, [view EXCEPT !.shown.key = x]))
  <1>1. CASE net[i].at = "gone"
    BY <1>1, ViewStays DEF Shown
  <1>2. CASE net[i].at # "gone"
    <2>1. view.page = "booking"
      BY <1>2 DEF TabInv, NetOk, Belongs
    <2>2. PICK s : s = [view.shown EXCEPT !.key = x]
      OBVIOUS
    <2>3. {"key", "thread"} \subseteq DOMAIN s
      BY <2>2 DEF TabInv, ViewOk, IsView
    <2>4. PICK v : v = [view EXCEPT !.shown = s]
      OBVIOUS
    <2>5. IsView(v) /\ v.page = "booking"
      BY <2>1, <2>3, <2>4 DEF TabInv, ViewOk, IsView
    <2>6. ViewOk(v)
      BY <2>5 DEF ViewOk, Asking
    <2>7. v = [view EXCEPT !.shown.key = x]
      BY <2>2, <2>4 DEF TabInv, ViewOk, IsView
    <2>. QED BY <1>2, <2>6, <2>7 DEF Shown
  <1>. QED BY <1>1, <1>2

\* A handler's next request is of no kind that belongs to a page.
LEMMA NextRequestOk ==
    ASSUME TabInv, NEW i \in Slots, NEW r, IsRequest(r),
           r.op \notin {"load", "thread", "latest", "confirm", "cancel", "verify"}
    PROVE  NetOk(Put(Done(i), r), view, store)
  BY DoneOk, PutOk DEF Belongs

LEMMA ThenOk ==
    ASSUME TabInv, NEW i \in Slots, NEW op \in {"target", "put", "attach", "review"}, NEW p
    PROVE  NetOk(Then(i, op, p), view, store)
  <1>1. PICK q : q = NewRequest(op, net[i].click, net[i].key)
    OBVIOUS
  <1>2. PICK r : r = [q EXCEPT !.photo = p, !.at = net[i].at]
    OBVIOUS
  <1>3. IsRequest(q) /\ q.op = op
    BY <1>1, RequestIs
  <1>4. IsRequest(r) /\ r.op = op
    BY <1>2, <1>3 DEF IsRequest
  <1>. QED BY <1>1, <1>2, <1>4, NextRequestOk DEF Then

\* The second request of a thread is one of the page that made the first.
LEMMA LatestOk ==
    ASSUME TabInv, NEW i \in Slots, net[i].op = "thread"
    PROVE  NetOk(AskLatest(i), view, store)
  <1>1. PICK q : q = NewRequest("latest", net[i].click, net[i].key)
    OBVIOUS
  <1>2. PICK r : r = [q EXCEPT !.page = LastPage(net[i].reply.total), !.at = net[i].at]
    OBVIOUS
  <1>3. IsRequest(q) /\ q.op = "latest"
    BY <1>1, RequestIs
  <1>4. IsRequest(r) /\ r.op = "latest" /\ r.at = net[i].at
    BY <1>2, <1>3 DEF IsRequest
  <1>5. Belongs(r, view, store)
    BY <1>4 DEF TabInv, NetOk, Belongs
  <1>. QED BY <1>1, <1>2, <1>4, <1>5, DoneOk, PutOk DEF AskLatest

LEMMA MeOk ==
    ASSUME TabInv, NEW i \in Slots
    PROVE  /\ NetOk(Put(Done(i), NewRequest("me", Nil, Nil)), view, store)
           /\ NetOk(Put(Done(i), [NewRequest("me", Nil, Nil) EXCEPT !.cookie = Nil]),
                    view, store)
  <1>1. PICK r : r = NewRequest("me", Nil, Nil)
    OBVIOUS
  <1>2. PICK q : q = [r EXCEPT !.cookie = Nil]
    OBVIOUS
  <1>3. IsRequest(r) /\ r.op = "me"
    BY <1>1, RequestIs
  <1>4. IsRequest(q) /\ q.op = "me"
    BY <1>2, <1>3 DEF IsRequest
  <1>5. NetOk(Put(Done(i), r), view, store) /\ NetOk(Put(Done(i), q), view, store)
    BY <1>3, <1>4, NextRequestOk
  <1>. QED BY <1>1, <1>2, <1>5

-----------------------------------------------------------------------------
(* Steps                                                                   *)

\* The answer to slot i is taken, and the view becomes v.
LEMMA Taken ==
    ASSUME TabInv, NEW i \in Slots, NEW st, NEW v, ViewOk(v), React(st, v, Done(i))
    PROVE  TabInv'
  BY DoneOk, ReactKeeps

LEMMA LoadsKeep ==
    ASSUME TabInv, NEW i \in Slots,
           \/ GatedLoaded(i) \/ BookingsLoaded(i) \/ PageLoaded(i)
           \/ LoadDropped(i)
    PROVE  TabInv'
  <1>1. CASE LoadDropped(i)
    BY <1>1, ViewStays, Taken DEF LoadDropped
  <1>2. CASE GatedLoaded(i)
    <2>1. PICK v : v = CASE Status(i) = "ok" -> Loaded(i)
                         [] Status(i) = "401" -> Page("login", Nil)
                         [] OTHER -> InPhase(i, "error")
      OBVIOUS
    <2>2. ViewOk(v)
      BY <1>2, <2>1, LoadedOk, PageOk, PhaseOk DEF GatedLoaded
    <2>. QED BY <1>2, <2>1, <2>2, Taken DEF GatedLoaded
  <1>3. CASE BookingsLoaded(i)
    <2>1. PICK v : v = CASE Status(i) = "ok" -> Loaded(i)
                         [] Status(i) = "401" -> InPhase(i, "idle")
                         [] OTHER -> InPhase(i, "error")
      OBVIOUS
    <2>2. ViewOk(v)
      BY <1>3, <2>1, LoadedOk, PhaseOk DEF BookingsLoaded
    <2>. QED BY <1>3, <2>1, <2>2, Taken DEF BookingsLoaded
  <1>4. CASE PageLoaded(i)
    <2>1. PICK v : v = IF Status(i) = "ok" THEN Loaded(i) ELSE InPhase(i, "error")
      OBVIOUS
    <2>2. ViewOk(v)
      BY <1>4, <2>1, LoadedOk, PhaseOk DEF PageLoaded
    <2>. QED BY <1>4, <2>1, <2>2, Taken DEF PageLoaded
  <1>. QED BY <1>1, <1>2, <1>3, <1>4

LEMMA ThreadKeeps ==
    ASSUME TabInv, NEW i \in Slots, ThreadLoaded(i) \/ LatestLoaded(i) \/ MessageSent(i)
    PROVE  TabInv'
  <1>1. CASE ThreadLoaded(i)
    <2>1. CASE Truncated(i)
      BY <1>1, <2>1, LatestOk, ViewStays, ReactKeeps DEF ThreadLoaded, Answered
    <2>2. CASE ~Truncated(i)
      BY <1>1, <2>2, ThreadOk, Taken DEF ThreadLoaded, Answered
    <2>. QED BY <2>1, <2>2
  <1>3. CASE LatestLoaded(i)
    BY <1>3, ThreadOk, Taken DEF LatestLoaded, Answered
  <1>2. CASE MessageSent(i)
    <2>1. PICK x : x = view.shown.thread \cup net[i].reply.thread
      OBVIOUS
    <2>2. PICK v : v = IF Status(i) = "ok" /\ view.phase = "ready"
                       THEN Shown(i, [view EXCEPT !.shown.thread = @ \cup net[i].reply.thread])
                       ELSE view
      OBVIOUS
    <2>3. v = view \/ v = Shown(i, [view EXCEPT !.shown.thread = x])
      BY <2>1, <2>2
    <2>4. ViewOk(v)
      BY <2>3, AppendOk, ViewStays
    <2>. QED BY <1>2, <2>2, <2>4, Taken DEF MessageSent
  <1>. QED BY <1>1, <1>2, <1>3

\* Handlers that lead to another page, or to a message on theirs.
LEMMA HandlersKeep ==
    ASSUME TabInv, NEW i \in Slots,
           \/ MeAnswered(i) \/ LoginAnswered(i) \/ LogoutAnswered(i)
           \/ SeatReserved(i) \/ BookingChanged(i) \/ MealSaved(i)
           \/ AlertEscalated(i)
           \/ \E op \in Clicks : Told(i, op) \/ Concluded(i, op)
    PROVE  TabInv'
  <1>1. CASE MeAnswered(i)
    BY <1>1, ViewStays, Taken DEF MeAnswered
  <1>2. CASE LoginAnswered(i)
    BY <1>2, PageOk, ViewStays, Taken DEF LoginAnswered
  <1>3. CASE LogoutAnswered(i)
    <2>1. PICK v : v = IF Status(i) \in {"ok", "401"} THEN Page("home", Nil) ELSE view
      OBVIOUS
    <2>2. ViewOk(v)
      BY <2>1, PageOk, ViewStays
    <2>. QED BY <1>3, <2>1, <2>2, Taken DEF LogoutAnswered
  <1>4. CASE SeatReserved(i)
    <2>1. PICK v : v = IF Status(i) = "ok" THEN Page("booking", net[i].key) ELSE view
      OBVIOUS
    <2>2. ViewOk(v)
      BY <2>1, PageOk, ViewStays
    <2>. QED BY <1>4, <2>1, <2>2, Taken DEF SeatReserved
  <1>5. CASE BookingChanged(i)
    <2>1. PICK v : v = IF Status(i) = "ok"
                       THEN Shown(i, [view EXCEPT !.shown.key = net[i].key]) ELSE view
      OBVIOUS
    <2>2. net[i].op \in {"confirm", "cancel"}
      BY <1>5 DEF BookingChanged, Answered
    <2>3. ViewOk(v)
      BY <2>1, <2>2, BookingOk, ViewStays
    <2>. QED BY <1>5, <2>1, <2>3, Taken DEF BookingChanged
  <1>6. CASE MealSaved(i)
    <2>1. PICK v : v = IF Status(i) = "ok" THEN MealPage(net[i].key) ELSE view
      OBVIOUS
    <2>2. ViewOk(v)
      BY <2>1, PageOk, ViewStays DEF MealPage
    <2>. QED BY <1>6, <2>1, <2>2, Taken DEF MealSaved
  <1>7. CASE AlertEscalated(i)
    <2>1. PICK v : v = IF Status(i) = "ok"
                       THEN Shown(i, [view EXCEPT !.run = 1 - @]) ELSE view
      OBVIOUS
    <2>2. v = view \/ v = [view EXCEPT !.run = 1 - @]
      BY <2>1 DEF Shown
    <2>3. ViewOk(v)
      BY <2>2, RunOk, ViewStays
    <2>. QED BY <1>7, <2>1, <2>3, Taken DEF AlertEscalated
  <1>8. ASSUME NEW op \in Clicks, Told(i, op) \/ Concluded(i, op) PROVE TabInv'
    <2>1. PICK v : v = IF Status(i) = "ok" THEN InPhase(i, "done") ELSE view
      OBVIOUS
    <2>2. ViewOk(v)
      BY <2>1, PhaseOk, ViewStays
    <2>. QED BY <1>8, <2>1, <2>2, ViewStays, Taken DEF Told, Concluded
  <1>. QED BY <1>1, <1>2, <1>3, <1>4, <1>5, <1>6, <1>7, <1>8

\* Handlers that ask for something more.
LEMMA SequelsKeep ==
    ASSUME TabInv, NEW i \in Slots,
           \/ EmailVerified(i) \/ ReviewStep(i) \/ MealStep(i)
           \/ ProfileSaved(i) \/ AccountDeleted(i)
    PROVE  TabInv'
  <1>1. CASE EmailVerified(i)
    <2>1. PICK v : v = IF net[i].at = "current"
                       THEN InPhase(i, IF Status(i) = "ok" THEN "done" ELSE "error")
                       ELSE view
      OBVIOUS
    <2>2. PICK n : n = IF net[i].at = "current" /\ Status(i) = "ok"
                       THEN Put(Done(i), NewRequest("me", Nil, Nil))
                       ELSE Done(i)
      OBVIOUS
    <2>3. ViewOk(v)
      BY <2>1, PhaseOk, ViewStays
    <2>4. NetOk(n, view, store)
      BY <2>2, MeOk, DoneOk
    <2>. QED BY <1>1, <2>1, <2>2, <2>3, <2>4, ReactKeeps DEF EmailVerified
  <1>2. CASE ReviewStep(i)
    <2>1. AfterUpload(i) \in {"target", "put", "attach", "review"}
      BY DEF AfterUpload
    <2>2. PICK v : v = IF Status(i) = "ok" THEN InPhase(i, "done") ELSE view
      OBVIOUS
    <2>3. ViewOk(v)
      BY <2>2, PhaseOk, ViewStays
    <2>. QED BY <1>2, <2>1, <2>2, <2>3, ThenOk, ViewStays, ReactKeeps, Taken DEF ReviewStep
  <1>3. CASE MealStep(i)
    <2>1. \/ \E st : React(st, view, Done(i))
          \/ \E op \in {"target", "put", "attach"} : \E p :
               React(store, view, Then(i, op, p))
          \/ \E st, k : React(st, Page("listing", k), Done(i))
      BY <1>3 DEF MealStep, MealPage
    <2>. QED BY <2>1, ThenOk, ViewStays, PageOk, ReactKeeps, Taken
  <1>4. CASE ProfileSaved(i)
    <2>1. PICK n : n = IF Status(i) = "ok"
                       THEN Put(Done(i), NewRequest("me", Nil, Nil))
                       ELSE Done(i)
      OBVIOUS
    <2>2. NetOk(n, view, store)
      BY <2>1, MeOk, DoneOk
    <2>. QED BY <1>4, <2>1, <2>2, ViewStays, ReactKeeps DEF ProfileSaved
  <1>5. CASE AccountDeleted(i)
    BY <1>5, MeOk, ViewStays, PhaseOk, ReactKeeps, Taken DEF AccountDeleted
  <1>. QED BY <1>1, <1>2, <1>3, <1>4, <1>5

LEMMA HandleKeeps ==
    ASSUME TabInv, NEW i \in Slots, Handle(i)
    PROVE  TabInv'
  <1>1. \A op \in {"register", "resend", "requestExport", "reviewsPage", "cancelMeal",
                   "raiseAlert", "approve", "reject"} : op \in Clicks
    BY DEF Clicks, AccountClicks
  <1>. QED BY <1>1, LoadsKeep, ThreadKeeps, HandlersKeep, SequelsKeep
          DEF Handle, SignedUp, VerificationResent, ExportRequested,
              ReviewsTurned, MealCancelled, AlertRaised, ItemDecided

\* The API and the network change no request but its answer.
LEMMA NetworkKeeps ==
    ASSUME TabInv, NEW i \in Slots, Serve(i) \/ Refuse(i) \/ Lose(i)
    PROVE  TabInv'
  <1>1. UNCHANGED <<store, view>>
    BY DEF Serve, Refuse, Lose
  <1>2. ASSUME Route(i, net[i]) PROVE \E r : Answer(i, r)
    BY <1>2 DEF Route, Login, Logout, DeleteMe, ListMessages, ReadPart,
                PostMessage, GetPage, PatchListing, UploadTarget,
                PutObject, Attach, CreateReview, OtherRoute
  <1>3. \E r : Answer(i, r)
    BY <1>2 DEF Serve, Refuse, Lose
  <1>. QED BY <1>1, <1>3, AnswerKeeps

-----------------------------------------------------------------------------
(* A document is loaded                                                    *)

\* No request is a redemption.
Unredeemed(n) == \A i \in Slots : n[i].op # "verify"

\* Every redemption has someone waiting for it.
Awaited(n) == \A i \in Slots : n[i].op = "verify" => n[i].at = "current"

LEMMA HydrationOk ==
    ASSUME NEW n, n = Put([i \in Slots |-> Idle], NewRequest("me", Nil, Nil)),
           NEW v, NEW st
    PROVE  NetOk(n, v, st) /\ Unredeemed(n)
  <1>1. PICK z : z = [i \in Slots |-> Idle]
    OBVIOUS
  <1>2. PICK r : r = NewRequest("me", Nil, Nil)
    OBVIOUS
  <1>3. z = [i \in Slots |-> z[i]] /\ \A i \in Slots : z[i] = Idle
    BY <1>1
  <1>4. IsRequest(r) /\ r.op = "me"
    BY <1>2, RequestIs
  <1>5. NetOk(z, v, st)
    BY <1>3, IdleIs DEF NetOk, Belongs, OneRedemption
  <1>6. n = Put(z, r)
    BY <1>1, <1>2
  <1>7. NetOk(n, v, st)
    BY <1>4, <1>5, <1>6, PutOk DEF Belongs
  <1>8. WritesOne(n, z, r)
    BY <1>3, <1>6, PutIs
  <1>9. Unredeemed(n)
    BY <1>3, <1>4, <1>8, IdleIs DEF WritesOne, Unredeemed
  <1>. QED BY <1>7, <1>9

\* The first run of VerifyEmailPage's effect sends the token.
LEMMA FirstRun ==
    ASSUME NEW n, NEW v, NEW st, NetOk(n, v, st), Unredeemed(n), NEW k
    PROVE  NetOk(VerifyEffect(n, k), v, st) /\ Awaited(VerifyEffect(n, k))
  <1>1. PICK r : r = NewRequest("verify", Nil, k)
    OBVIOUS
  <1>2. PICK m : m = Put(n, r)
    OBVIOUS
  <1>3. VerifyEffect(n, k) = m
    BY <1>1, <1>2 DEF VerifyEffect, Unredeemed
  <1>4. IsRequest(r) /\ r.op = "verify" /\ r.at = "current"
    BY <1>1, RequestIs
  <1>5. NetOk(m, v, st)
    BY <1>2, <1>4, PutOk DEF Unredeemed, Belongs
  <1>6. n = [i \in Slots |-> n[i]]
    BY DEF NetOk
  <1>7. WritesOne(m, n, r)
    BY <1>2, <1>6, PutIs
  <1>8. Awaited(m)
    BY <1>4, <1>7 DEF WritesOne, Awaited, Unredeemed
  <1>. QED BY <1>3, <1>5, <1>8

\* The second run, under StrictMode, listens to the answer of the first.
LEMMA SecondRun ==
    ASSUME NEW n, NEW v, NEW st, NetOk(n, v, st), Awaited(n), NEW k
    PROVE  NetOk(VerifyEffect(CleanUp(n, FALSE), k), v, st)
  <1>1. PICK c : c = CleanUp(n, FALSE)
    OBVIOUS
  <1>2. NetOk(c, v, st)
    BY <1>1, CleanUpOk
  <1>3. \A i \in Slots : c[i].op = "verify" => c[i].at # "gone"
    <2>. SUFFICES ASSUME NEW i \in Slots, c[i].op = "verify" PROVE c[i].at # "gone"
      OBVIOUS
    <2>1. c[i].op = n[i].op
      BY <1>1, CleanUpIs
    <2>2. n[i].at # "gone" /\ n[i].op # "idle" => c[i].at # "gone"
      BY ZenonT(60), <1>1, CleanUpIs
    <2>. QED BY <2>1, <2>2 DEF Awaited
  <1>4. CASE \E i \in Slots : c[i].op = "verify" /\ c[i].at # "gone"
    <2>1. PICK m : m = [i \in Slots |-> IF c[i].op = "verify" /\ c[i].at # "gone"
                                            THEN [c[i] EXCEPT !.at = "current"] ELSE c[i]]
      OBVIOUS
    <2>2. VerifyEffect(c, k) = m
      BY <1>4, <2>1 DEF VerifyEffect
    <2>3. ASSUME NEW i \in Slots
          PROVE  IsRequest(m[i]) /\ m[i].op = c[i].op /\ Belongs(m[i], v, st)
      <3>1. IsRequest(c[i]) /\ Belongs(c[i], v, st)
        BY <1>2 DEF NetOk
      <3>2. CASE c[i].op = "verify" /\ c[i].at # "gone"
        <4>1. PICK q : q = [c[i] EXCEPT !.at = "current"]
          OBVIOUS
        <4>2. IsRequest(q) /\ q.op = c[i].op
          BY <3>1, <4>1, AtIs
        <4>. QED BY <2>1, <3>2, <4>1, <4>2 DEF Belongs
      <3>3. CASE ~(c[i].op = "verify" /\ c[i].at # "gone")
        BY <2>1, <3>1, <3>3
      <3>. QED BY <3>2, <3>3
    <2>4. m = [i \in Slots |-> m[i]]
      BY <2>1
    <2>5. OneRedemption(m)
      BY <1>2, <2>3 DEF NetOk, OneRedemption
    <2>6. NetOk(m, v, st)
      BY <2>3, <2>4, <2>5 DEF NetOk
    <2>. QED BY <1>1, <2>2, <2>6
  <1>5. CASE ~\E i \in Slots : c[i].op = "verify" /\ c[i].at # "gone"
    BY <1>1, <1>2, <1>3, <1>5, FirstRun DEF Unredeemed
  <1>. QED BY <1>4, <1>5

\* A document's own requests belong to it.
LEMMA AskedOk ==
    ASSUME NEW p, NEW k
    PROVE  NetOk(Asked(p, k), Opened(p, k), "unknown")
  <1>. DEFINE me == Put([i \in Slots |-> Idle], NewRequest("me", Nil, Nil))
  <1>1. PICK v : v = Opened(p, k)
    OBVIOUS
  <1>2. v.page = p /\ v.key = k
    BY <1>1 DEF Opened, Page
  <1>3. PICK m : m = me
    OBVIOUS
  <1>4. NetOk(m, v, "unknown") /\ Unredeemed(m)
    BY <1>3, HydrationOk
  <1>5. CASE p = "verify"
    <2>1. PICK f : f = VerifyEffect(m, k)
      OBVIOUS
    <2>2. NetOk(f, v, "unknown") /\ Awaited(f)
      BY <1>4, <2>1, FirstRun
    <2>3. Asked(p, k) = VerifyEffect(CleanUp(f, FALSE), k)
      BY <1>3, <1>5, <2>1 DEF Asked
    <2>. QED BY <1>1, <2>2, <2>3, SecondRun
  <1>6. CASE p # "verify" /\ Opens(p)
    <2>1. PICK g : g = Page(p, k)
      OBVIOUS
    <2>2. PICK r : r = Load(g)
      OBVIOUS
    <2>3. g.page = p /\ g.key = k
      BY <2>1, PageIs
    <2>4. p \in Fetching /\ Gate(p, "unknown") # "blocked"
      BY <1>6 DEF Opens, Gate
    <2>5. IsRequest(r) /\ r.op # "verify" /\ Belongs(r, v, "unknown")
      BY <1>2, <2>2, <2>3, <2>4, LoadIs DEF Belongs
    <2>6. Asked(p, k) = Put(m, r)
      BY <1>3, <1>6, <2>1, <2>2 DEF Asked
    <2>. QED BY <1>1, <1>4, <2>5, <2>6, PutOk
  <1>7. CASE p # "verify" /\ ~Opens(p)
    <2>1. Asked(p, k) = m
      BY <1>3, <1>7 DEF Asked
    <2>. QED BY <1>1, <1>4, <2>1
  <1>. QED BY <1>5, <1>6, <1>7

LEMMA OpenedIs ==
    ASSUME NEW p, NEW k, NEW v, v = Opened(p, k)
    PROVE  IsView(v) /\ v.phase # "ready"
  <1>1. PICK g : g = Page(p, k)
    OBVIOUS
  <1>2. PICK ph \in {"loading", "idle"} : ph = IF Opens(p) THEN "loading" ELSE "idle"
    OBVIOUS
  <1>3. v = [g EXCEPT !.phase = ph]
    BY <1>1, <1>2 DEF Opened
  <1>4. IsView(g)
    BY <1>1, PageIs
  <1>. QED BY <1>3, <1>4 DEF IsView

LEMMA TabStarts == TabInit => TabInv
  <1>. SUFFICES ASSUME TabInit PROVE TabInv
    OBVIOUS
  <1>1. PICK p, k : store = "unknown" /\ view = Opened(p, k) /\ net = Asked(p, k)
    BY DEF TabInit
  <1>2. NetOk(net, view, store)
    BY <1>1, AskedOk
  <1>3. ViewOk(view)
    BY <1>1, OpenedIs DEF ViewOk
  <1>. QED BY <1>2, <1>3 DEF TabInv

LEMMA UserKeeps ==
    ASSUME TabInv, User \/ Poll
    PROVE  TabInv'
  <1>1. CASE Reload
    <2>1. PICK p, k : p = view.page /\ k = view.key
      OBVIOUS
    <2>2. store' = "unknown" /\ view' = Opened(p, k) /\ net' = Asked(p, k)
      BY <1>1, <2>1 DEF Reload
    <2>3. NetOk(net, view, store)'
      BY <2>2, AskedOk
    <2>4. IsView(view') /\ view'.phase # "ready"
      BY <2>2, OpenedIs
    <2>5. ViewOk(view)'
      BY <2>4 DEF ViewOk
    <2>. QED BY <2>3, <2>5 DEF TabInv
  <1>2. CASE TryAgain
    BY <1>2, RunOk, ReactKeeps DEF TryAgain, TabInv
  <1>3. ASSUME NEW p \in Pages, NEW k \in KeysOf(p), Follow(p, k) PROVE TabInv'
    <2>1. CASE p # view.page
      BY <1>3, <2>1, PageOk, ReactKeeps DEF Follow, TabInv
    <2>2. CASE p = view.page
      <3>1. PICK x : x = IF p \in Gated THEN 1 - view.run ELSE view.run
        OBVIOUS
      <3>2. PICK v : v = [view EXCEPT !.key = k, !.run = x]
        OBVIOUS
      <3>3. /\ IsView(v) /\ v.page = view.page /\ v.key = k
            /\ v.phase = view.phase /\ v.shown = view.shown
        BY <3>2 DEF TabInv, ViewOk, IsView
      <3>4. ViewOk(v)
        BY <3>3 DEF TabInv, ViewOk
      <3>5. React(store, v, net)
        BY <1>3, <2>2, <3>1, <3>2 DEF Follow
      <3>. QED BY <3>4, <3>5, ReactKeeps DEF TabInv
    <2>. QED BY <2>1, <2>2
  <1>4. ASSUME NEW click \in Clicks, Click(click) PROVE TabInv'
    <2>1. PICK f \in Fields, p \in BOOLEAN :
              net' = Put(net, [NewRequest(FirstCall(click, p), click, view.key)
                                     EXCEPT !.form = MealBody(click, f),
                                            !.photo = IF p THEN Chosen ELSE Nil])
      BY <1>4 DEF Click
    <2>2. PICK q : q = NewRequest(FirstCall(click, p), click, view.key)
      OBVIOUS
    <2>3. PICK r : r = [q EXCEPT !.form = MealBody(click, f),
                                 !.photo = IF p THEN Chosen ELSE Nil]
      OBVIOUS
    <2>4. IsRequest(q) /\ q.op = FirstCall(click, p)
      BY <2>2, RequestIs
    <2>5. IsRequest(r) /\ r.op = FirstCall(click, p)
      BY <2>3, <2>4 DEF IsRequest
    <2>6. /\ r.op \notin {"load", "thread", "latest", "verify"}
          /\ r.op \in {"confirm", "cancel"} => view.page = "booking"
      BY <1>4, <2>5
         DEF FirstCall, Clicks, AccountClicks, Click, Clickable, Ready
    <2>7. NetOk(Put(net, r), view, store)
      BY <2>5, <2>6, PutOk DEF Belongs, TabInv
    <2>8. net' = Put(net, r) /\ UNCHANGED <<store, view>>
      BY <1>4, <2>1, <2>2, <2>3 DEF Click
    <2>. QED BY <2>7, <2>8 DEF TabInv, ViewOk, NetOk, Belongs, Gate
  <1>5. CASE Poll
    <2>1. PICK r : r = NewRequest("thread", "poll", view.key)
      OBVIOUS
    <2>2. IsRequest(r) /\ r.op = "thread"
      BY <2>1, RequestIs
    <2>3. view.page = "messages" /\ net' = Put(net, r) /\ UNCHANGED <<store, view>>
      BY <1>5, <2>1 DEF Poll, Polls
    <2>4. NetOk(Put(net, r), view, store)
      BY <2>2, <2>3, PutOk DEF Belongs, TabInv
    <2>. QED BY <2>3, <2>4 DEF TabInv, ViewOk, NetOk, Belongs, Gate
  <1>. QED BY <1>1, <1>2, <1>3, <1>4, <1>5 DEF User

LEMMA TabNextKeeps == TabInv /\ [TabNext]_tabvars => TabInv'
  <1>. SUFFICES ASSUME TabInv, [TabNext]_tabvars PROVE TabInv'
    OBVIOUS
  <1>1. CASE Others \/ UNCHANGED tabvars
    <2>1. UNCHANGED <<store, view, net>>
      BY <1>1 DEF Others, SessionEnds, OtherWrites, MessageRejected, OtherEdits, tabvars
    <2>. QED BY <2>1 DEF TabInv, ViewOk, Gate
  <1>. QED BY <1>1, UserKeeps, NetworkKeeps, HandleKeeps DEF TabNext

\* Whatever the user follows and clicks, in whatever order answers come and whatever is
\* lost, a request that may still change what is shown belongs to the page shown.
THEOREM TabInvariance == TabSpec => []TabInv
  <1>. QED BY TabStarts, TabNextKeeps, PTL DEF TabSpec

\* The pages for one URL never show what another one answered.
THEOREM PagesAnswerTheirUrl == TabSpec => []ShownAnswersQuery
  <1>1. TabInv => ShownAnswersQuery
    BY DEF TabInv, ViewOk, ShownAnswersQuery, Asking
  <1>. QED BY <1>1, TabInvariance, PTL

\* A verification token is never sent twice at a time: StrictMode's second run of the effect
\* finds the first one's request.
THEOREM TokenSentOnce == TabSpec => []RedeemedOnce
  <1>1. TabInv => RedeemedOnce
    BY DEF TabInv, NetOk, OneRedemption, RedeemedOnce
  <1>. QED BY <1>1, TabInvariance, PTL
=============================================================================
