---------------------------- MODULE GammaClient -----------------------------
(***************************************************************************)
(* data/gamma_client.py: coroutines that list all markets through one      *)
(* client.  The pages of the catalogue and the assembled list go through   *)
(* the same _TTLCache; each page is a _request of up to three attempts.    *)
(* The API is external: it serves the pages 1..Pages.  A page is reduced   *)
(* to the time it was fetched and to whether it came back short of `limit` *)
(* markets, as the last one does, and any other one with a market that     *)
(* _parse_market drops.                                                    *)
(***************************************************************************)
EXTENDS Clock, Sequences

CONSTANTS Readers,     \* coroutines that call get_all_markets
          Pages,       \* pages of the catalogue
          Attempts,    \* _max_retries
          TTL,         \* 300 s, of a page and of the list
          MaxListings  \* bound: get_all_markets calls in a run

ASSUME GammaAssumption ==
    /\ Pages \in Nat \ {0} /\ Attempts \in Nat \ {0} /\ TTL \in Nat /\ MaxListings \in Nat

VARIABLES pageCache,  \* the cached page, and its expiry; <<>> when not cached
          listCache,  \* the cached list, and its expiry; <<>> when not cached
          reader,     \* what each coroutine is at, its list so far and its attempt
          listings,   \* calls so far
          answer      \* history: the list served last, when, and how long it took to assemble

gammaVars == <<pageCache, listCache, reader, listings, answer>>

None == <<>>
Page == [at : 0..Horizon, short : BOOLEAN]

GammaTypeOK ==
    /\ DOMAIN pageCache = 1..Pages
    /\ \A p \in 1..Pages : pageCache[p] = None \/ pageCache[p] \in [page : Page, expires : 0..Horizon + TTL]
    /\ listCache = None \/ listCache.pages \in Seq(Page)
    /\ \A r \in Readers : reader[r].at \in {"idle", "paging", "requesting"} /\ Len(reader[r].pages) <= Pages
    /\ listings \in 0..MaxListings
    /\ answer.pages \in Seq(Page) /\ answer.at \in 0..Horizon

Resting == [at |-> "idle", pages |-> <<>>, attempt |-> 0, began |-> 0]

GammaInit ==
    /\ pageCache = [p \in 1..Pages |-> None] /\ listCache = None
    /\ reader = [r \in Readers |-> Resting]
    /\ listings = 0 /\ answer = [pages |-> <<>>, took |-> 0, at |-> 0]

\* Mutant of Hit: entries leave the cache only when something evicts them.
HitUntilEvicted(entry) == entry # None

\* _TTLCache.get: an entry counts until its expiry has passed.
Hit(entry) == entry # None /\ now <= entry.expires

\* get_all_markets on a cached list ...
ServeCached(r) ==
    /\ reader[r].at = "idle" /\ listings < MaxListings /\ Hit(listCache)
    /\ listings' = listings + 1
    /\ answer' = [pages |-> listCache.pages, took |-> listCache.took, at |-> now]
    /\ UNCHANGED <<pageCache, listCache, reader, now>>

\* ... or page by page.
BeginListing(r) ==
    /\ reader[r].at = "idle" /\ listings < MaxListings /\ ~Hit(listCache)
    /\ listings' = listings + 1
    /\ listCache' = None
    /\ reader' = [reader EXCEPT ![r] = [Resting EXCEPT !.at = "paging", !.began = now]]
    /\ UNCHANGED <<pageCache, answer, now>>

\* A short page, or none, ends the list, which is cached and served.
Finish(r, list) ==
    LET took == Since(reader[r].began) IN
    /\ listCache' = [pages |-> list, took |-> took, expires |-> now + TTL]
    /\ answer' = [pages |-> list, took |-> took, at |-> now]
    /\ reader' = [reader EXCEPT ![r] = Resting]

Extend(r, page) ==
    LET list == Append(reader[r].pages, page) IN
    IF page.short
        THEN Finish(r, list)
        ELSE /\ reader' = [reader EXCEPT ![r].at = "paging", ![r].pages = list, ![r].attempt = 0]
             /\ UNCHANGED <<listCache, answer>>

NextPage(r) == Len(reader[r].pages) + 1

\* get_markets of the next page: from the cache, or a request.
TakePage(r) ==
    /\ reader[r].at = "paging"
    /\ LET entry == pageCache[NextPage(r)] IN
       IF Hit(entry)
          THEN Extend(r, entry.page) /\ UNCHANGED pageCache
          ELSE /\ pageCache' = [pageCache EXCEPT ![NextPage(r)] = None]
               /\ reader' = [reader EXCEPT ![r].at = "requesting", ![r].attempt = 1]
               /\ UNCHANGED <<listCache, answer>>
    /\ UNCHANGED <<listings, now>>

\* 200: the page is cached and appended.
RequestOk(r) ==
    /\ reader[r].at = "requesting"
    /\ \E short \in (IF NextPage(r) = Pages THEN {TRUE} ELSE BOOLEAN) :
          LET page == [at |-> now, short |-> short] IN
          /\ pageCache' = [pageCache EXCEPT ![NextPage(r)] = [page |-> page, expires |-> now + TTL]]
          /\ Extend(r, page)
    /\ UNCHANGED <<listings, now>>

\* 429, 5xx, another error status or a ClientError: wait and try again, up to Attempts.
RequestAgain(r) ==
    /\ reader[r].at = "requesting" /\ reader[r].attempt < Attempts
    /\ reader' = [reader EXCEPT ![r].attempt = @ + 1]
    /\ UNCHANGED <<pageCache, listCache, listings, answer, now>>

\* After the last, _request gives None, the page counts as empty and so as the last one.
RequestExhausted(r) ==
    /\ reader[r].at = "requesting" /\ reader[r].attempt = Attempts
    /\ Finish(r, reader[r].pages)
    /\ UNCHANGED <<pageCache, listings, now>>

\* The total timeout is not a ClientError: it ends get_all_markets and the caller's cycle.
RequestTimesOut(r) ==
    /\ reader[r].at = "requesting"
    /\ reader' = [reader EXCEPT ![r] = Resting]
    /\ UNCHANGED <<pageCache, listCache, listings, answer, now>>

ClearCache ==
    /\ listCache # None \/ \E p \in 1..Pages : pageCache[p] # None
    /\ pageCache' = [p \in 1..Pages |-> None] /\ listCache' = None
    /\ UNCHANGED <<reader, listings, answer, now>>

GammaTick == Tick /\ UNCHANGED gammaVars

GammaNext ==
    \/ \E r \in Readers :
          \/ ServeCached(r) \/ BeginListing(r) \/ TakePage(r)
          \/ RequestOk(r) \/ RequestAgain(r) \/ RequestExhausted(r) \/ RequestTimesOut(r)
    \/ ClearCache \/ GammaTick

GammaSpec == now = 0 /\ GammaInit /\ [][GammaNext]_<<gammaVars, now>>

-----------------------------------------------------------------------------
\* Safety.  How stale the market list a scan trades on can be: a page may have been in its own
\* cache for TTL when the list is assembled, and the list is cached for TTL again, so what
\* get_all_markets returned is never older than twice the TTL and the time the assembly took.
ListingsAreRecent ==
    \A i \in DOMAIN answer.pages : answer.at - answer.pages[i].at <= 2 * TTL + answer.took
=============================================================================
