----------------------------- MODULE Discovery ------------------------------
(***************************************************************************)
(* Search (src/modules/search) over one listing.  A search reads a page    *)
(* cache in Redis; on a miss it resolves the location through the Maps     *)
(* adapter, which has a cache of its own, queries PostgreSQL and stores    *)
(* the page.  Nothing invalidates a page: it expires.  Meanwhile the       *)
(* listing is moderated, geocoded, cancelled, its host deleted, and the    *)
(* Maps provider goes down and comes back.                                 *)
(*                                                                         *)
(* A page is what it shows of the listing.  Any single access to Redis may *)
(* fail.  Time is counted in ticks that age the cached pages.              *)
(***************************************************************************)
EXTENDS Naturals

CONSTANTS Searchers,   \* search requests served at the same time
          Spots,       \* coarse coordinates the listing may have
          Locations,   \* normalized location texts
          Radii,       \* values of radiusKm
          Default,     \* DEFAULT_RADIUS_KM
          Distance,    \* km from a place the provider knows to a spot
          PageTtl,     \* config.search.cacheTtlSeconds
          LoadLimit,   \* longest time from the page query to the cache write
          None         \* no coordinates, no location, no radius, no request

ASSUME DiscoveryAssumption ==
    /\ Radii \subseteq Nat
    /\ Default \in Nat
    /\ DOMAIN Distance \subseteq Locations
    /\ \A p \in DOMAIN Distance : Distance[p] \in [Spots -> Nat]
    /\ PageTtl \in Nat \ {0}
    /\ LoadLimit \in Nat

VARIABLES geo,       \* coarse_lat, coarse_lng and area_label of the listing
          approved,  \* listings.moderation_status = 'approved'
          offer,     \* what ended the offer, if anything has
          mapsUp,    \* the Maps provider answers
          pages,     \* page cache: what each key holds
          areas,     \* Maps cache: the fresh and the stale copy of each location
          search,    \* the search each request is in
          settled    \* ticks since the last change of what a search can show

vars == <<geo, approved, offer, mapsUp, pages, areas, search, settled>>

-----------------------------------------------------------------------------
Bound == PageTtl + LoadLimit

Query == [location : Locations \cup {None}, radius : Radii \cup {None}]

\* normalizeQuery: a radius means something only with a location.
NormalizeQuery(q) ==
    [location |-> q.location,
     radius |-> CASE q.location = None -> None
                  [] q.radius = None -> Default
                  [] OTHER -> q.radius]

\* cacheKeyFor: one key per normalized query.
CacheKeys == {NormalizeQuery(q) : q \in Query}

\* "over": status = 'cancelled' or scheduled_start <= now(); "withdrawn": the
\* host's users.deleted_at is set.
Offers == {"open", "over", "withdrawn"}

\* VISIBLE_PREDICATES
VisibleNow == approved /\ offer = "open"

\* Mutant: a listing without coordinates is near to everything.
AreaBranchNull(area, radius) == geo = None \/ Distance[area][geo] <= radius

\* areaBranch: the coarse location lies within the radius of the area.
AreaBranch(area, radius) == geo # None /\ Distance[area][geo] <= radius

\* buildPredicates; no areas means no place of that name, hence no result.
Matches(key, found) ==
    /\ VisibleNow
    /\ key.location # None => \E a \in found : AreaBranch(a, key.radius)

\* publicListing: the coarse location, never the address.
PublicListing == geo

\* What a page shows: nothing, or the listing's public projection.
PageFor(key, found) == IF Matches(key, found) THEN {PublicListing} ELSE {}

\* The answer of the provider: the candidate areas of a location.
Resolve(location) == IF location \in DOMAIN Distance THEN {location} ELSE {}

PageRow == [shows : SUBSET (Spots \cup {None}), degraded : BOOLEAN, ttl : 1..PageTtl]

AreaRow == [fresh : BOOLEAN, stale : BOOLEAN]

\* "store": rows read, the page not cached yet; "answer": the response leaves.
\* call: what the call of the Maps provider did, if there was one.
SearchRow == [at : {"store", "answer"},
              key : CacheKeys,
              shows : SUBSET (Spots \cup {None}),
              call : {"none", "ok", "failed"},
              degraded : BOOLEAN,
              age : Nat]

ASSUME NoneAssumption == None \notin PageRow /\ None \notin SearchRow

Init ==
    /\ geo = None
    /\ approved = FALSE
    /\ offer = "open"
    /\ mapsUp = TRUE
    /\ pages = [k \in CacheKeys |-> None]
    /\ areas = [l \in Locations |-> [fresh |-> FALSE, stale |-> FALSE]]
    /\ search = [s \in Searchers |-> None]
    /\ settled = 0

-----------------------------------------------------------------------------
(* The listing and the provider change                                     *)

\* An automatic or human decision, or the reset by a material edit.
Moderated ==
    /\ approved' = ~approved
    /\ settled' = 0
    /\ UNCHANGED <<geo, offer, mapsUp, pages, areas, search>>

\* An address change clears the coordinates, setGeocode writes new ones.
Relocated(g) ==
    /\ g # geo
    /\ geo' = g
    /\ settled' = 0
    /\ UNCHANGED <<approved, offer, mapsUp, pages, areas, search>>

\* The meal starts, the host cancels, or the host's account is deleted (the
\* erasure cancels the listing some time later).
OfferEnds(why) ==
    /\ offer # why
    /\ offer # "withdrawn"
    /\ offer' = why
    /\ settled' = 0
    /\ UNCHANGED <<geo, approved, mapsUp, pages, areas, search>>

\* An outage of the Maps provider begins or ends.
ProviderFails ==
    /\ mapsUp
    /\ mapsUp' = FALSE
    /\ UNCHANGED <<geo, approved, offer, pages, areas, search, settled>>

ProviderRecovers ==
    /\ ~mapsUp
    /\ mapsUp' = TRUE
    /\ UNCHANGED <<geo, approved, offer, pages, areas, search, settled>>

-----------------------------------------------------------------------------
(* A search, up to the read of the rows                                    *)

Request(at, key, shows, call, degraded) ==
    [at |-> at, key |-> key, shows |-> shows, call |-> call, degraded |-> degraded, age |-> 0]

\* Mutant: a page that is read lives on for another TTL.
PageHitRenewed(s, q) ==
    LET key == NormalizeQuery(q) IN
    /\ search[s] = None
    /\ pages[key] # None
    /\ search' = [search EXCEPT
                    ![s] = Request("answer", key, pages[key].shows, "none", pages[key].degraded)]
    /\ pages' = [pages EXCEPT ![key].ttl = PageTtl]
    /\ UNCHANGED <<geo, approved, offer, mapsUp, areas, settled>>

\* cache.wrap, hit: the page is answered as it was stored.
PageHit(s, q) ==
    LET key == NormalizeQuery(q) IN
    /\ search[s] = None
    /\ pages[key] # None
    /\ search' = [search EXCEPT
                    ![s] = Request("answer", key, pages[key].shows, "none", pages[key].degraded)]
    /\ UNCHANGED <<geo, approved, offer, mapsUp, pages, areas, settled>>

\* cache.wrap, miss or Redis failure: the loader reads the rows as they are now.
LoadPage(s, q, found, call, degraded) ==
    LET key == NormalizeQuery(q) IN
    /\ search[s] = None
    /\ search' = [search EXCEPT
                    ![s] = Request("store", key, PageFor(key, found), call, degraded)]
    /\ UNCHANGED <<geo, approved, offer, mapsUp, pages, settled>>

\* Without a location the adapter is never called.
LoadBrowse(s, q) ==
    /\ q.location = None
    /\ LoadPage(s, q, {}, "none", FALSE)
    /\ UNCHANGED areas

\* cachedLookup answers from the fresh key.
LoadFromFresh(s, q) ==
    /\ q.location # None
    /\ areas[q.location].fresh
    /\ LoadPage(s, q, Resolve(q.location), "none", FALSE)
    /\ UNCHANGED areas

\* The provider answers, and each key is written unless Redis fails.
LoadFromProvider(s, q) ==
    /\ q.location # None
    /\ mapsUp
    /\ \E fresh, stale \in BOOLEAN :
          areas' = [areas EXCEPT ![q.location] = [fresh |-> @.fresh \/ fresh,
                                                  stale |-> @.stale \/ stale]]
    /\ LoadPage(s, q, Resolve(q.location), "ok", FALSE)

\* onFallback: every try failed and the stale key answers.  Without a stale
\* copy the request ends in 503 SEARCH_DEGRADED and changes nothing.
LoadFromStale(s, q) ==
    /\ q.location # None
    /\ ~mapsUp
    /\ areas[q.location].stale
    /\ LoadPage(s, q, Resolve(q.location), "failed", TRUE)
    /\ UNCHANGED areas

-----------------------------------------------------------------------------
(* The end of a search                                                     *)

\* Mutant: the degraded page is stored like any other.
MayStoreAlways(r) == TRUE

\* The loader of searchListings returns undefined for a degraded page.
MayStore(r) == ~r.degraded

\* cache.set with its TTL
Stored(r) == [shows |-> r.shows, degraded |-> r.degraded, ttl |-> PageTtl]

\* The page is stored unless it is degraded or Redis fails, and answered.
StorePage(s) ==
    LET r == search[s] IN
    /\ r # None
    /\ r.at = "store"
    /\ \/ MayStore(r) /\ pages' = [pages EXCEPT ![r.key] = Stored(r)]
       \/ UNCHANGED pages
    /\ search' = [search EXCEPT ![s].at = "answer", ![s].age = 0]
    /\ UNCHANGED <<geo, approved, offer, mapsUp, areas, settled>>

\* The response leaves, or a query failed after the rows were read.
EndSearch(s) ==
    /\ search[s] # None
    /\ search' = [search EXCEPT ![s] = None]
    /\ UNCHANGED <<geo, approved, offer, mapsUp, pages, areas, settled>>

-----------------------------------------------------------------------------
(* Time                                                                    *)

Aged(p) == IF p = None \/ p.ttl = 1 THEN None ELSE [p EXCEPT !.ttl = @ - 1]

\* A tick ages the cached pages and the pages being loaded.  A response
\* leaves at once, and a load takes at most LoadLimit.
Tick ==
    /\ \A s \in Searchers : search[s] # None =>
          /\ search[s].at # "answer"
          /\ search[s].at = "store" => search[s].age < LoadLimit
    /\ pages' = [k \in CacheKeys |-> Aged(pages[k])]
    /\ search' = [s \in Searchers |->
                    IF search[s] # None /\ search[s].at = "store"
                    THEN [search[s] EXCEPT !.age = @ + 1] ELSE search[s]]
    /\ settled' = IF settled > Bound THEN settled ELSE settled + 1
    /\ UNCHANGED <<geo, approved, offer, mapsUp, areas>>

\* A key of the Maps cache expires; a stale copy that a failed write has not
\* renewed may be older than the fresh one.
AreaExpires(l) ==
    /\ \/ areas[l].fresh /\ areas' = [areas EXCEPT ![l].fresh = FALSE]
       \/ areas[l].stale /\ areas' = [areas EXCEPT ![l].stale = FALSE]
    /\ UNCHANGED <<geo, approved, offer, mapsUp, pages, search, settled>>

-----------------------------------------------------------------------------
Next ==
    \/ Moderated
    \/ \E g \in Spots \cup {None} : Relocated(g)
    \/ \E why \in Offers \ {"open"} : OfferEnds(why)
    \/ ProviderFails \/ ProviderRecovers
    \/ \E s \in Searchers :
          \/ \E q \in Query :
                \/ PageHit(s, q) \/ LoadBrowse(s, q) \/ LoadFromFresh(s, q)
                \/ LoadFromProvider(s, q) \/ LoadFromStale(s, q)
          \/ StorePage(s) \/ EndSearch(s)
    \/ Tick
    \/ \E l \in Locations : AreaExpires(l)

Spec == Init /\ [][Next]_vars

-----------------------------------------------------------------------------
(* Properties                                                              *)

\* The listing, the caches and the requests have their types.
TypeOK ==
    /\ geo \in Spots \cup {None}
    /\ approved \in BOOLEAN
    /\ offer \in Offers
    /\ mapsUp \in BOOLEAN
    /\ pages \in [CacheKeys -> PageRow \cup {None}]
    /\ areas \in [Locations -> AreaRow]
    /\ search \in [Searchers -> SearchRow \cup {None}]
    /\ settled \in 0..(Bound + 1)

Answering(s) == search[s] # None /\ search[s].at = "answer"

\* FR-01, FR-08, NFR-12: nothing invalidates a page, yet a TTL and the time of
\* a load after the last change every answer is right: a listing that was
\* rejected, cancelled, moved or whose host is gone is no longer shown, and
\* one that is visible is shown where it is.
AnswersCatchUp ==
    \A s \in Searchers :
        Answering(s) /\ settled > Bound =>
            /\ search[s].shows \subseteq {geo}
            /\ search[s].shows # {} => approved /\ offer = "open"
            /\ approved /\ offer = "open" /\ search[s].key.location = None
                 => search[s].shows = {geo}

\* NFR-09: "recovery is visible within one request": an answer is flagged
\* degraded exactly when its own call of the provider failed.
DegradedMeansOutage ==
    \A s \in Searchers :
        Answering(s) => (search[s].degraded <=> search[s].call = "failed")

\* FR-01: a search around a place, fresh, cached or degraded, shows only
\* listings that lie within its radius of that place.
NearbyIsNear ==
    \A s \in Searchers :
        LET r == search[s] IN
        Answering(s) /\ r.key.location # None /\ r.shows # {} =>
            /\ r.key.location \in DOMAIN Distance
            /\ \A g \in r.shows : g # None /\ Distance[r.key.location][g] <= r.key.radius
=============================================================================
