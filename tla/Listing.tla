------------------------------ MODULE Listing ------------------------------
(***************************************************************************)
(* The walk of run_preset over the listing of lots: pages of the API by    *)
(* cursor, shared by the walkers through a Redis cache with a fetch lock   *)
(* (api/client.py), and the HTML listing by page number when the API fails *)
(* (sources.py FallbackSource, scraper/search.py).  The portal changes     *)
(* under the walk.                                                         *)
(***************************************************************************)
EXTENDS Integers, FiniteSets, FiniteSetsExt

CONSTANTS
    MaxLot,       \* bound: lots are 1..MaxLot in the order of their ids
    OnPortal,     \* lots listed from the start
    Walkers,      \* preset walks with the same API filter
    Limit,        \* lots on a page of the API
    PerPage,      \* lots on a page of the HTML listing
    PageCap,     \* cap of the preset
    CacheTtl,     \* life of a cached page (cache_ttl = 900)
    LockTtl,      \* life of the fetch lock (ex=90)
    Patience,     \* how long a follower waits (120 x 0.5 s)
    MaxFlight,    \* bound: longest time from the source's read to the answer
    ListingTime       \* bound: ticks after the start

Lots == 1..MaxLot
Top == MaxLot + 1
Cursors == Lots \cup {Top}

ASSUME ListingAssumption ==
    /\ MaxLot \in Nat /\ OnPortal \subseteq 1..MaxLot
    /\ {Limit, PerPage, PageCap} \subseteq Nat \ {0}
    /\ CacheTtl \in Nat \ {0}
    /\ {LockTtl, Patience, MaxFlight, ListingTime} \subseteq Nat

VARIABLES
    time,
    listed,       \* lots the portal lists now
    bornAt,       \* when a lot appeared
    cache,        \* cursor -> a page and the time it expires; no page: until = 0
    fetchLock,    \* cursor -> the time its lock expires
    walk          \* walker -> its position and what it has yielded

listingVars == <<time, listed, bornAt, cache, fetchLock, walk>>

(* A page: its lots, the cursor of the next one, and whether there is one. *)
NewestOf(S, n) == {l \in S : Cardinality({m \in S : m > l}) < n}
PageAfter(cursor) ==
    LET below  == {l \in listed : l < cursor}
        items == NewestOf(below, Limit)
    IN  [items |-> items, more |-> items # below,
         last |-> IF items = {} THEN cursor ELSE Min(items)]
NoPage == [items |-> {}, more |-> FALSE, last |-> Top]

(* The page p of the HTML listing, newest first, by offset. *)
PageNumber(p) == NewestOf(listed, p * PerPage) \ NewestOf(listed, (p - 1) * PerPage)

Horizon == CacheTtl + MaxFlight    \* how old an answer can be

Idle == [at |-> "idle", after |-> Top, pages |-> 0, seen |-> {}, since |-> 0,
         until |-> 0, reply |-> NoPage, total |-> 0, calm |-> TRUE, shift |-> 0]

ListingTypeOK ==
    /\ time \in 0..(Horizon + ListingTime)
    /\ listed \subseteq Lots
    /\ bornAt \in [Lots -> 0..(Horizon + ListingTime)]
    /\ \A c \in Cursors : cache[c].page.items \subseteq Lots
    /\ \A v \in Walkers :
        /\ walk[v].at \in {"idle", "look", "wait", "fetch", "reply", "html",
                           "done", "htmlDone", "capped", "cut"}
        /\ walk[v].after \in Cursors /\ walk[v].seen \subseteq Lots

ListingInit ==
    /\ time = Horizon
    /\ listed = OnPortal
    /\ bornAt = [l \in Lots |-> 0]
    /\ cache = [c \in Cursors |-> [page |-> NoPage, until |-> 0]]
    /\ fetchLock = [c \in Cursors |-> 0]
    /\ walk = [v \in Walkers |-> Idle]

(***************************************************************************)
(* The portal: a new lot is listed first, a lot leaves the filtered list.  *)
(***************************************************************************)
LotAppears ==
    \E l \in Lots \ listed :
        /\ bornAt[l] = 0 /\ \A m \in listed : m < l
        /\ listed' = listed \cup {l}
        /\ bornAt' = [bornAt EXCEPT ![l] = time]
        /\ walk' = [v \in Walkers |-> [walk[v] EXCEPT
                        !.shift = IF walk[v].at = "html" THEN @ + 1 ELSE @]]
        /\ UNCHANGED <<time, cache, fetchLock>>

Withdraw ==
    \E l \in listed :
        /\ listed' = listed \ {l}
        /\ bornAt' = [bornAt EXCEPT ![l] = time]
        /\ walk' = [v \in Walkers |-> [walk[v] EXCEPT
                        !.calm = @ /\ walk[v].at # "html"]]
        /\ UNCHANGED <<time, cache, fetchLock>>

(***************************************************************************)
(* iter_graphql over graphql with cache_ttl.                               *)
(***************************************************************************)
Cached(c) == cache[c].until > time
LockedPage(c) == fetchLock[c] > time

Begin(v) ==
    /\ walk[v].at = "idle"
    /\ walk' = [walk EXCEPT ![v].at = "look", ![v].since = time]
    /\ UNCHANGED <<time, listed, bornAt, cache, fetchLock>>

\* Mutant: the cursor is taken for the first id of the next page.
ConsumedPastCursor(v, page) ==
    LET pages == walk[v].pages + 1
        ended == page.items = {} \/ ~page.more \/ page.last = walk[v].after
    IN  walk' = [walk EXCEPT ![v] = [walk[v] EXCEPT
            !.seen = @ \cup page.items, !.pages = pages, !.reply = NoPage,
            !.until = 0, !.after = IF ended THEN Top ELSE Max({1, page.last - 1}),
            !.at = IF ended THEN "done"
                   ELSE IF pages >= PageCap THEN "capped" ELSE "look"]]

(* The page is yielded; the next cursor is the lastId of this page. *)
Consumed(v, page) ==
    LET pages == walk[v].pages + 1
        ended == page.items = {} \/ ~page.more \/ page.last = walk[v].after
    IN  walk' = [walk EXCEPT ![v] = [walk[v] EXCEPT
            !.seen = @ \cup page.items, !.pages = pages, !.reply = NoPage,
            !.until = 0, !.after = IF ended THEN Top ELSE page.last,
            !.at = IF ended THEN "done"
                   ELSE IF pages >= PageCap THEN "capped" ELSE "look"]]

(* _cached_or_wait: a hit, at once or while waiting. *)
Hit(v) ==
    /\ walk[v].at \in {"look", "wait"} /\ Cached(walk[v].after)
    /\ Consumed(v, cache[walk[v].after].page)
    /\ UNCHANGED <<time, listed, bornAt, cache, fetchLock>>

(* The lock is free or has run out: this walker downloads the page. *)
Lead(v) ==
    /\ walk[v].at \in {"look", "wait"}
    /\ ~Cached(walk[v].after) /\ ~LockedPage(walk[v].after)
    /\ fetchLock' = [fetchLock EXCEPT ![walk[v].after] = time + LockTtl]
    /\ walk' = [walk EXCEPT ![v].at = "fetch", ![v].until = 0]
    /\ UNCHANGED <<time, listed, bornAt, cache>>

Follow(v) ==
    /\ walk[v].at = "look"
    /\ ~Cached(walk[v].after) /\ LockedPage(walk[v].after)
    /\ walk' = [walk EXCEPT ![v].at = "wait", ![v].until = time + Patience]
    /\ UNCHANGED <<time, listed, bornAt, cache, fetchLock>>

(* 120 sleeps are over, or Redis failed: it downloads without the lock. *)
GoAlone(v) ==
    /\ walk[v].at = "wait" /\ walk[v].until <= time
    /\ walk' = [walk EXCEPT ![v].at = "fetch", ![v].until = 0]
    /\ UNCHANGED <<time, listed, bornAt, cache, fetchLock>>

(* The source computes the page, the walker has it later. *)
Read(v) ==
    /\ walk[v].at = "fetch"
    /\ walk' = [walk EXCEPT ![v].at = "reply", ![v].until = time + MaxFlight,
                            ![v].reply = PageAfter(walk[v].after)]
    /\ UNCHANGED <<time, listed, bornAt, cache, fetchLock>>

(* The answer goes to the cache and the lock of the cursor is deleted,     *)
(* whoever holds it by now.                                                *)
Store(v) ==
    /\ walk[v].at = "reply"
    /\ cache' = [cache EXCEPT ![walk[v].after] =
                    [page |-> walk[v].reply, until |-> time + CacheTtl]]
    /\ fetchLock' = [fetchLock EXCEPT ![walk[v].after] = 0]
    /\ Consumed(v, walk[v].reply)
    /\ UNCHANGED <<time, listed, bornAt>>

(***************************************************************************)
(* FallbackSource.iter_listing: OwsApiError starts the HTML listing from   *)
(* its first page, after the hits the API has already yielded.             *)
(***************************************************************************)
FallBack(v) ==
    /\ walk[v].at \in {"fetch", "reply"}
    /\ walk' = [walk EXCEPT ![v] = [Idle EXCEPT !.at = "html", !.since = time]]
    /\ UNCHANGED <<time, listed, bornAt, cache, fetchLock>>

(* One page of iter_listing: it ends on a page with nothing new, or when   *)
(* it has seen as many lots as the first page announced.                   *)
HtmlPage(v) ==
    /\ walk[v].at = "html"
    /\ LET p     == walk[v].pages + 1
           fresh == PageNumber(p) \ walk[v].seen
           total == IF p = 1 THEN Cardinality(listed) ELSE walk[v].total
           seen  == walk[v].seen \cup fresh
       IN  walk' = [walk EXCEPT ![v] = [walk[v] EXCEPT
              !.pages = p, !.seen = seen, !.total = total, !.shift = 0,
              !.calm = @ /\ walk[v].shift < PerPage,
              !.at = IF fresh = {} \/ Cardinality(seen) >= total THEN "htmlDone"
                     ELSE IF p >= PageCap THEN "capped" ELSE "html"]]
    /\ UNCHANGED <<time, listed, bornAt, cache, fetchLock>>

(* raise_for_status, a time limit or a death ends the walk; the lock it    *)
(* held stays until it runs out.                                           *)
WalkBroken(v) ==
    /\ walk[v].at \in {"fetch", "html"}
    /\ walk' = [walk EXCEPT ![v] = [Idle EXCEPT !.at = "cut"]]
    /\ UNCHANGED <<time, listed, bornAt, cache, fetchLock>>

(* What has expired is gone from Redis. *)
TimePasses ==
    /\ time < Horizon + ListingTime
    /\ \A v \in Walkers : walk[v].at = "reply" => time < walk[v].until
    /\ time' = time + 1
    /\ cache' = [c \in Cursors |-> IF cache[c].until <= time + 1
                                    THEN [page |-> NoPage, until |-> 0] ELSE cache[c]]
    /\ fetchLock' = [c \in Cursors |->
                        IF fetchLock[c] <= time + 1 THEN 0 ELSE fetchLock[c]]
    /\ UNCHANGED <<listed, bornAt, walk>>

ListingNext ==
    \/ LotAppears \/ Withdraw \/ TimePasses
    \/ \E v \in Walkers :
        \/ Begin(v) \/ Hit(v) \/ Lead(v) \/ Follow(v) \/ GoAlone(v) \/ Read(v)
        \/ Store(v) \/ FallBack(v) \/ HtmlPage(v) \/ WalkBroken(v)

ListingSpec == ListingInit /\ [][ListingNext]_listingVars

(* Lots the portal has listed without a break since the moment t. *)
ListedSince(t) == {l \in listed : bornAt[l] <= t}

(* A walk that comes to its own end has yielded every lot that was there   *)
(* all along: through the API, whatever the portal adds and withdraws and  *)
(* however old the shared pages are, every lot listed since the oldest     *)
(* page it may have used (sources.py:134-136); through HTML pages by       *)
(* number, when nothing was withdrawn and less than a page was added       *)
(* between two reads, every lot listed since its first page                *)
(* (search.py:222-225).                                                    *)
FinishedWalkMissesNothing ==
    \A v \in Walkers :
        /\ walk[v].at = "done" =>
            ListedSince(walk[v].since - Horizon) \subseteq walk[v].seen
        /\ (walk[v].at = "htmlDone" /\ walk[v].calm) =>
            ListedSince(walk[v].since - 1) \subseteq walk[v].seen
=============================================================================
