--------------------------- MODULE DeliveryProofs ---------------------------
(***************************************************************************)
(* Safety of the components that carry messages, orders and lists: the     *)
(* websocket client, the market listing, the order state machine, the      *)
(* event bus and the batches.  For each one: the inductive invariant, that *)
(* the initial state has it, that each action keeps it, and what follows.  *)
(* At the end, the types of all the components that MCUnits puts side by   *)
(* side.                                                                   *)
(***************************************************************************)
EXTENDS MCUnits, ComponentProofs

-----------------------------------------------------------------------------
(* WsClient: a token that is subscribed is served, failed, or still to be  *)
(* sent again.                                                             *)

WsInv ==
    /\ wsOpen /\ task = "listening" => subscribed \subseteq served \cup sendFailed
    /\ wsOpen /\ task = "resubscribing" => subscribed \subseteq served \cup sendFailed \cup resend

\* Nothing is connected (OrderBookWebSocket.__init__).
LEMMA WsInitially == WsInit => WsInv
BY DEF WsInit, WsInv

\* No subscription, drop, reconnect or message leaves a subscribed token out.
LEMMA WsStep == WsInv /\ [WsNext]_wsVars => WsInv'
<1> SUFFICES ASSUME WsInv, [WsNext]_wsVars PROVE WsInv'
    OBVIOUS
<1>1. CASE StartClient \/ StopClient \/ Connected \/ ConnectFails \/ Listen \/ Drop
           \/ StopListening \/ HandlerRaises \/ Retry \/ UNCHANGED wsVars
      BY <1>1 DEF StartClient, StopClient, Connected, ConnectFails, Listen, Drop,
                  StopListening, HandlerRaises, Retry, wsVars, WsInv
<1>2. ASSUME NEW t \in Tokens, SubscribeToken(t) PROVE WsInv'
      BY <1>2 DEF SubscribeToken, Send, WsInv
<1>3. ASSUME NEW t \in Tokens, UnsubscribeToken(t) PROVE WsInv'
      BY <1>3 DEF UnsubscribeToken, WsInv
<1>4. ASSUME NEW t \in Tokens, Resubscribe(t) PROVE WsInv'
      BY <1>4 DEF Resubscribe, Send, WsInv
<1>5. ASSUME NEW t \in Tokens, NEW bids, NEW asks, HandleMessage(t, bids, asks) PROVE WsInv'
      BY <1>5 DEF HandleMessage, WsInv
<1> QED BY <1>1, <1>2, <1>3, <1>4, <1>5 DEF WsNext

\* No subscription is lost to a reconnection it meets (_connect_and_listen copies the tokens
\* after the socket is set), for any number of tokens, drops and failed sends.
THEOREM SubscriptionsSurviveReconnects == WsSpec => []SubscriptionsReachServer
<1>1. WsInv => SubscriptionsReachServer
      BY DEF WsInv, SubscriptionsReachServer
<1> QED BY <1>1, WsInitially, WsStep, PTL DEF WsSpec

-----------------------------------------------------------------------------
(* GammaClient: how old a page can be where it is kept.                    *)

\* The pages of a list put together from `began` on were in their cache at most TTL before.
FreshSince(pages, began) ==
    /\ pages \in Seq(Page)
    /\ \A i \in DOMAIN pages : pages[i].at >= began - TTL

GammaInv ==
    /\ now \in 0..Horizon
    /\ DOMAIN pageCache = 1..Pages
    /\ \A p \in 1..Pages : pageCache[p] # None =>
         /\ pageCache[p].page \in Page /\ pageCache[p].page.at <= now
         /\ pageCache[p].expires = pageCache[p].page.at + TTL
         /\ p = Pages => pageCache[p].page.short
    /\ listCache # None =>
         /\ listCache.took \in Nat /\ listCache.expires \in Int
         /\ FreshSince(listCache.pages, listCache.expires - TTL - listCache.took)
    /\ reader \in [Readers -> [at : {"idle", "paging", "requesting"}, pages : Seq(Page),
                               attempt : Nat, began : Int]]
    /\ \A r \in Readers : reader[r].at # "idle" =>
         /\ Len(reader[r].pages) < Pages
         /\ reader[r].began <= now
         /\ FreshSince(reader[r].pages, reader[r].began)
    /\ answer.at \in Int
    /\ ListingsAreRecent

\* An empty cache, nobody listing (GammaClient.__init__).
LEMMA GammaInitially == now = 0 /\ GammaInit => GammaInv
<1> SUFFICES ASSUME now = 0, GammaInit PROVE GammaInv
    OBVIOUS
<1>1. reader = [r \in Readers |-> Resting]
      BY DEF GammaInit
<1>2. reader \in [Readers -> [at : {"idle", "paging", "requesting"}, pages : Seq(Page),
                              attempt : Nat, began : Int]]
      BY <1>1 DEF Resting
<1>3. \A r \in Readers : reader[r].at = "idle"
      BY <1>1 DEF Resting
<1>4. ListingsAreRecent /\ answer.at \in Int
      BY DEF GammaInit, ListingsAreRecent
<1>5. (\A p \in 1..Pages : pageCache[p] = None) /\ DOMAIN pageCache = 1..Pages /\ listCache = None
      BY DEF GammaInit
<1>6. now \in 0..Horizon
      BY ClockAssumption
<1> QED BY <1>2, <1>3, <1>4, <1>5, <1>6 DEF GammaInv

\* When a page was fetched is a time.
LEMMA PageTimes == \A page \in Page : page.at \in Int
BY ClockAssumption DEF Page

\* A page that is fresh enough keeps the list it is appended to fresh.
LEMMA FreshAppend ==
    ASSUME NEW pages, NEW began \in Int, NEW page \in Page,
           FreshSince(pages, began), page.at >= began - TTL
    PROVE  /\ FreshSince(Append(pages, page), began)
           /\ Append(pages, page) \in Seq(Page) /\ Len(Append(pages, page)) = Len(pages) + 1
<1>1. pages \in Seq(Page) /\ \A i \in DOMAIN pages : pages[i].at >= began - TTL
      BY DEF FreshSince
<1>2. Append(pages, page) \in Seq(Page) /\ Len(Append(pages, page)) = Len(pages) + 1
      BY <1>1
<1>3. \A i \in DOMAIN Append(pages, page) : Append(pages, page)[i].at >= began - TTL
      BY <1>1
<1> QED BY <1>2, <1>3 DEF FreshSince

\* The list a reader ends with is cached and served; it is as fresh as its pages.
LEMMA FinishKeeps ==
    ASSUME GammaInv, NEW r \in Readers, reader[r].at # "idle", NEW list,
           FreshSince(list, reader[r].began), Finish(r, list), now' = now,
           \A p \in 1..Pages : pageCache'[p] # None =>
             /\ pageCache'[p].page \in Page /\ pageCache'[p].page.at <= now
             /\ pageCache'[p].expires = pageCache'[p].page.at + TTL
             /\ p = Pages => pageCache'[p].page.short,
           DOMAIN pageCache' = 1..Pages
    PROVE  GammaInv'
<1> DEFINE began == reader[r].began
           took == now - began
<1>1. /\ now \in Int /\ TTL \in Nat /\ began \in Int /\ began <= now
      BY GammaAssumption DEF GammaInv
<1>2. /\ listCache' = [pages |-> list, took |-> took, expires |-> now + TTL]
      /\ answer' = [pages |-> list, took |-> took, at |-> now]
      /\ reader' = [reader EXCEPT ![r] = Resting]
      BY DEF Finish, Since
<1>3. list \in Seq(Page) /\ \A i \in DOMAIN list : list[i].at >= began - TTL /\ list[i].at \in Int
  <2>1. list \in Seq(Page) /\ \A i \in DOMAIN list : list[i].at >= began - TTL
        BY DEF FreshSince
  <2>2. \A i \in DOMAIN list : list[i] \in Page
        BY <2>1
  <2> QED BY <2>1, <2>2, PageTimes
<1>4. took \in Nat /\ now + TTL - TTL - took = began
      BY <1>1
<1>5. /\ listCache'.took \in Nat /\ listCache'.expires \in Int
      /\ FreshSince(listCache'.pages, listCache'.expires - TTL - listCache'.took)
  <2>1. FreshSince(list, now + TTL - TTL - took)
        BY <1>4
  <2> QED BY <1>1, <1>2, <1>4, <2>1
<1>6. ListingsAreRecent' /\ answer'.at \in Int
  <2> SUFFICES ASSUME NEW i \in DOMAIN list PROVE now - list[i].at <= 2 * TTL + took
      BY <1>1, <1>2 DEF ListingsAreRecent
  <2> QED BY <1>1, <1>3
<1>7. reader' \in [Readers -> [at : {"idle", "paging", "requesting"}, pages : Seq(Page),
                               attempt : Nat, began : Int]]
      BY <1>2 DEF GammaInv, Resting
<1>8. \A s \in Readers : reader'[s].at # "idle" => reader'[s] = reader[s]
      BY <1>2 DEF GammaInv, Resting
<1> QED BY <1>5, <1>6, <1>7, <1>8 DEF GammaInv, FreshSince

\* So does the next page, which ends the list if it is short, as the last one always is.
LEMMA ExtendKeeps ==
    ASSUME GammaInv, NEW r \in Readers, reader[r].at # "idle", NEW page \in Page,
           page.at >= reader[r].began - TTL, NextPage(r) = Pages => page.short,
           Extend(r, page), now' = now,
           \A p \in 1..Pages : pageCache'[p] # None =>
             /\ pageCache'[p].page \in Page /\ pageCache'[p].page.at <= now
             /\ pageCache'[p].expires = pageCache'[p].page.at + TTL
             /\ p = Pages => pageCache'[p].page.short,
           DOMAIN pageCache' = 1..Pages
    PROVE  GammaInv'
<1> DEFINE list == Append(reader[r].pages, page)
<1>1. reader[r].began \in Int /\ FreshSince(reader[r].pages, reader[r].began)
      BY DEF GammaInv
<1>2. FreshSince(list, reader[r].began) /\ list \in Seq(Page) /\ Len(list) = NextPage(r)
      BY <1>1, FreshAppend DEF NextPage
<1>3. CASE page.short
      BY <1>2, <1>3, FinishKeeps DEF Extend
<1>4. CASE ~ page.short
  <2> HIDE DEF list
  <2>1. /\ reader' = [reader EXCEPT ![r].at = "paging", ![r].pages = list, ![r].attempt = 0]
        /\ UNCHANGED <<listCache, answer>>
        BY <1>4 DEF Extend, list
  <2>2. Len(list) < Pages
        BY <1>1, <1>2, <1>4, GammaAssumption DEF GammaInv, NextPage
  <2>3. reader' \in [Readers -> [at : {"idle", "paging", "requesting"}, pages : Seq(Page),
                                 attempt : Nat, began : Int]]
    <3>1. list \in Seq(Page)
          BY <1>2
    <3>2. reader \in [Readers -> [at : {"idle", "paging", "requesting"}, pages : Seq(Page),
                                  attempt : Nat, began : Int]]
          BY DEF GammaInv
    <3>3. [reader[r] EXCEPT !.at = "paging", !.pages = list, !.attempt = 0]
            \in [at : {"idle", "paging", "requesting"}, pages : Seq(Page), attempt : Nat, began : Int]
          BY <3>1, <3>2
    <3> QED BY <2>1, <3>2, <3>3
  <2>4. \A s \in Readers \ {r} : reader'[s] = reader[s]
        BY <2>1 DEF GammaInv
  <2>5. reader'[r].pages = list /\ reader'[r].began = reader[r].began
        BY <2>1 DEF GammaInv
  <2>6. ListingsAreRecent' /\ answer'.at = answer.at
        BY <2>1 DEF GammaInv, ListingsAreRecent
  <2>7. \A s \in Readers : reader'[s].at # "idle" =>
          /\ Len(reader'[s].pages) < Pages
          /\ reader'[s].began <= now
          /\ FreshSince(reader'[s].pages, reader'[s].began)
        BY <1>2, <2>2, <2>4, <2>5 DEF GammaInv
  <2> QED BY <2>1, <2>3, <2>6, <2>7 DEF GammaInv, FreshSince
<1> QED BY <1>3, <1>4

\* Every request, answer, retry, timeout, expiry and clearing keeps the ages bounded.
LEMMA GammaStep == GammaInv /\ [GammaNext]_<<gammaVars, now>> => GammaInv'
<1> SUFFICES ASSUME GammaInv, [GammaNext]_<<gammaVars, now>> PROVE GammaInv'
    OBVIOUS
<1> USE GammaAssumption, ClockAssumption
<1>1. ASSUME NEW r \in Readers, ServeCached(r) PROVE GammaInv'
  <2> DEFINE l == listCache
  <2>1. /\ l # None /\ now <= l.expires /\ UNCHANGED <<pageCache, listCache, reader, now>>
        /\ answer' = [pages |-> l.pages, took |-> l.took, at |-> now]
        BY <1>1 DEF ServeCached, Hit
  <2>2. /\ l.took \in Nat /\ l.expires \in Int /\ now \in Int /\ l.pages \in Seq(Page)
        /\ \A i \in DOMAIN l.pages : l.pages[i].at >= l.expires - TTL - l.took - TTL
        BY <2>1 DEF GammaInv, FreshSince
  <2>3. \A i \in DOMAIN l.pages : l.pages[i].at \in Int
    <3>1. \A i \in DOMAIN l.pages : l.pages[i] \in Page
          BY <2>2
    <3> QED BY <3>1, PageTimes
  <2>4. ListingsAreRecent' /\ answer'.at \in Int
    <3> SUFFICES ASSUME NEW i \in DOMAIN l.pages PROVE now - l.pages[i].at <= 2 * TTL + l.took
        BY <2>1, <2>2 DEF ListingsAreRecent
    <3>1. l.pages[i].at \in Int /\ l.pages[i].at >= l.expires - TTL - l.took - TTL
          BY <2>2, <2>3
    <3>2. l.took \in Nat /\ l.expires \in Int /\ now \in Int /\ now <= l.expires
          BY <2>1, <2>2
    <3> HIDE DEF l
    <3> QED BY <3>1, <3>2
  <2> QED BY <2>1, <2>4 DEF GammaInv, FreshSince
<1>2. ASSUME NEW r \in Readers, BeginListing(r) PROVE GammaInv'
  <2>1. /\ listCache' = None /\ UNCHANGED <<pageCache, answer, now>>
        /\ reader' = [reader EXCEPT ![r] = [Resting EXCEPT !.at = "paging", !.began = now]]
        BY <1>2 DEF BeginListing
  <2> DEFINE begun == [Resting EXCEPT !.at = "paging", !.began = now]
  <2>2. /\ begun \in [at : {"idle", "paging", "requesting"}, pages : Seq(Page), attempt : Nat, began : Int]
        /\ begun.pages = <<>> /\ begun.began = now
    <3>1. now \in Int
          BY DEF GammaInv
    <3>2. Resting \in [at : {"idle", "paging", "requesting"}, pages : Seq(Page), attempt : Nat, began : Int]
          BY DEF Resting
    <3>3. Resting.pages = <<>>
          BY DEF Resting
    <3> QED BY <3>1, <3>2, <3>3
  <2>3. reader' \in [Readers -> [at : {"idle", "paging", "requesting"}, pages : Seq(Page),
                                 attempt : Nat, began : Int]]
    <3>1. reader' = [reader EXCEPT ![r] = begun]
          BY <2>1
    <3> HIDE DEF begun
    <3> QED BY <2>2, <3>1 DEF GammaInv
  <2>4. FreshSince(<<>>, now)
        BY DEF FreshSince
  <2>5. /\ \A s \in Readers \ {r} : reader'[s] = reader[s]
        /\ reader'[r].pages = <<>> /\ reader'[r].began = now
    <3>1. reader' = [reader EXCEPT ![r] = begun]
          BY <2>1
    <3> HIDE DEF begun
    <3> QED BY <2>2, <3>1 DEF GammaInv
  <2>6. ListingsAreRecent' /\ answer'.at \in Int
        BY <2>1 DEF GammaInv, ListingsAreRecent
  <2>7. \A s \in Readers : reader'[s].at # "idle" =>
          /\ Len(reader'[s].pages) < Pages
          /\ reader'[s].began <= now
          /\ FreshSince(reader'[s].pages, reader'[s].began)
    <3> HIDE DEF begun
    <3>1. Len(<<>>) < Pages /\ now <= now
          BY DEF GammaInv
    <3>2. /\ Len(reader'[r].pages) < Pages
          /\ reader'[r].began <= now
          /\ FreshSince(reader'[r].pages, reader'[r].began)
          BY <2>4, <2>5, <3>1
    <3> QED BY <2>5, <3>2 DEF GammaInv
  <2>8. now' = now /\ listCache' = None
        BY <2>1
  <2>9. pageCache' = pageCache
        BY <2>1
  <2> QED BY <2>3, <2>6, <2>7, <2>8, <2>9 DEF GammaInv, FreshSince
<1>3. ASSUME NEW r \in Readers, TakePage(r) PROVE GammaInv'
  <2> DEFINE n == NextPage(r)
             entry == pageCache[n]
  <2>1. reader[r].at # "idle" /\ n \in 1..Pages /\ now' = now
        BY <1>3 DEF TakePage, GammaInv, NextPage
  <2>2. CASE Hit(entry)
    <3>1. entry # None /\ now <= entry.expires /\ Extend(r, entry.page) /\ pageCache' = pageCache
          BY <1>3, <2>2 DEF TakePage, Hit
    <3>2. entry.page \in Page /\ entry.expires = entry.page.at + TTL /\ (n = Pages => entry.page.short)
          BY <2>1, <3>1 DEF GammaInv
    <3>3. reader[r].began \in Int /\ reader[r].began <= now /\ now \in Int
          BY <2>1 DEF GammaInv
    <3>4. entry.page.at >= reader[r].began - TTL
          BY <3>1, <3>2, <3>3 DEF Page
    <3>5. /\ DOMAIN pageCache' = 1..Pages
          /\ \A p \in 1..Pages : pageCache'[p] # None =>
               /\ pageCache'[p].page \in Page /\ pageCache'[p].page.at <= now
               /\ pageCache'[p].expires = pageCache'[p].page.at + TTL
               /\ p = Pages => pageCache'[p].page.short
          BY <3>1 DEF GammaInv
    <3> HIDE DEF entry
    <3> QED BY <2>1, <3>1, <3>2, <3>4, <3>5, ExtendKeeps
  <2>3. CASE ~ Hit(entry)
    <3>1. /\ pageCache' = [pageCache EXCEPT ![n] = None]
          /\ reader' = [reader EXCEPT ![r].at = "requesting", ![r].attempt = 1]
          /\ UNCHANGED <<listCache, answer, now>>
          BY <1>3, <2>3 DEF TakePage
    <3>2. /\ DOMAIN pageCache' = 1..Pages
          /\ \A p \in 1..Pages : pageCache'[p] # None => pageCache'[p] = pageCache[p]
          BY <2>1, <3>1 DEF GammaInv
    <3>3. reader' \in [Readers -> [at : {"idle", "paging", "requesting"}, pages : Seq(Page),
                                   attempt : Nat, began : Int]]
      <4> DEFINE rd == [reader[r] EXCEPT !.at = "requesting", !.attempt = 1]
      <4>1. reader \in [Readers -> [at : {"idle", "paging", "requesting"}, pages : Seq(Page),
                                   attempt : Nat, began : Int]]
            BY DEF GammaInv
      <4>2. rd \in [at : {"idle", "paging", "requesting"}, pages : Seq(Page), attempt : Nat, began : Int]
            BY <4>1
      <4>3. reader' = [reader EXCEPT ![r] = rd]
            BY <3>1, <4>1
      <4> HIDE DEF rd
      <4> QED BY <4>1, <4>2, <4>3
    <3>4. \A s \in Readers : /\ reader'[s].pages = reader[s].pages /\ reader'[s].began = reader[s].began
                             /\ reader'[s].at # "idle" => reader[s].at # "idle"
          BY <2>1, <3>1 DEF GammaInv
    <3>5. ListingsAreRecent' /\ answer'.at \in Int
          BY <3>1 DEF GammaInv, ListingsAreRecent
    <3>6. \A p \in 1..Pages : pageCache'[p] # None =>
            /\ pageCache'[p].page \in Page /\ pageCache'[p].page.at <= now
            /\ pageCache'[p].expires = pageCache'[p].page.at + TTL
            /\ p = Pages => pageCache'[p].page.short
      <4> SUFFICES ASSUME NEW p \in 1..Pages, pageCache'[p] # None
                   PROVE  /\ pageCache'[p].page \in Page /\ pageCache'[p].page.at <= now
                          /\ pageCache'[p].expires = pageCache'[p].page.at + TTL
                          /\ p = Pages => pageCache'[p].page.short
          OBVIOUS
      <4>1. pageCache'[p] = pageCache[p]
            BY <3>2
      <4> QED BY <4>1 DEF GammaInv
    <3>7. \A s \in Readers : reader'[s].at # "idle" =>
            /\ Len(reader'[s].pages) < Pages
            /\ reader'[s].began <= now
            /\ FreshSince(reader'[s].pages, reader'[s].began)
          BY <3>4 DEF GammaInv
    <3>8. now' = now /\ listCache' = listCache
          BY <3>1
    <3>9. /\ now \in 0..Horizon
          /\ listCache # None =>
               /\ listCache.took \in Nat /\ listCache.expires \in Int
               /\ FreshSince(listCache.pages, listCache.expires - TTL - listCache.took)
          BY DEF GammaInv
    <3> QED BY <3>2, <3>3, <3>5, <3>6, <3>7, <3>8, <3>9 DEF GammaInv, FreshSince
  <2> QED BY <2>2, <2>3
<1>4. ASSUME NEW r \in Readers, RequestOk(r) PROVE GammaInv'
  <2>1. reader[r].at # "idle" /\ NextPage(r) \in 1..Pages /\ now' = now
        BY <1>4 DEF RequestOk, GammaInv, NextPage
  <2>2. PICK short \in (IF NextPage(r) = Pages THEN {TRUE} ELSE BOOLEAN) :
          /\ pageCache' = [pageCache EXCEPT ![NextPage(r)] =
                             [page |-> [at |-> now, short |-> short], expires |-> now + TTL]]
          /\ Extend(r, [at |-> now, short |-> short])
        BY <1>4 DEF RequestOk
  <2> DEFINE page == [at |-> now, short |-> short]
  <2>3. short \in BOOLEAN /\ (NextPage(r) = Pages => short)
        BY <2>2
  <2>4. page \in Page /\ page.at = now /\ page.short = short
        BY <2>3 DEF GammaInv, Page
  <2>5. /\ DOMAIN pageCache' = 1..Pages
        /\ \A p \in 1..Pages : pageCache'[p] # None =>
             /\ pageCache'[p].page \in Page /\ pageCache'[p].page.at <= now
             /\ pageCache'[p].expires = pageCache'[p].page.at + TTL
             /\ p = Pages => pageCache'[p].page.short
        BY <2>1, <2>2, <2>3, <2>4 DEF GammaInv
  <2>6. page.at >= reader[r].began - TTL
        BY <2>1, <2>4 DEF GammaInv
  <2>7. Extend(r, page)
        BY <2>2
  <2> HIDE DEF page
  <2> QED BY <2>1, <2>3, <2>4, <2>5, <2>6, <2>7, ExtendKeeps
<1>5. ASSUME NEW r \in Readers, RequestAgain(r) PROVE GammaInv'
  <2>1. reader' = [reader EXCEPT ![r].attempt = @ + 1] /\ UNCHANGED <<pageCache, listCache, answer, now>>
        BY <1>5 DEF RequestAgain
  <2>2. reader' \in [Readers -> [at : {"idle", "paging", "requesting"}, pages : Seq(Page),
                                 attempt : Nat, began : Int]]
    <3>1. reader[r].attempt + 1 \in Nat
          BY DEF GammaInv
    <3> DEFINE n == reader[r].attempt + 1
    <3>2. n \in Nat /\ reader' = [reader EXCEPT ![r].attempt = n]
          BY <2>1, <3>1
    <3> HIDE DEF n
    <3> QED BY <3>2 DEF GammaInv
  <2>3. \A s \in Readers : /\ reader'[s].pages = reader[s].pages /\ reader'[s].began = reader[s].began
                           /\ reader'[s].at = reader[s].at
        BY <2>1 DEF GammaInv
  <2>4. ListingsAreRecent'
        BY <2>1 DEF GammaInv, ListingsAreRecent
  <2> QED BY <2>1, <2>2, <2>3, <2>4 DEF GammaInv, FreshSince
<1>6. ASSUME NEW r \in Readers, RequestExhausted(r) PROVE GammaInv'
  <2>1. reader[r].at # "idle" /\ Finish(r, reader[r].pages) /\ UNCHANGED <<pageCache, now>>
        BY <1>6 DEF RequestExhausted
  <2>2. FreshSince(reader[r].pages, reader[r].began)
        BY <2>1 DEF GammaInv
  <2>3. /\ DOMAIN pageCache' = 1..Pages
        /\ \A p \in 1..Pages : pageCache'[p] # None =>
             /\ pageCache'[p].page \in Page /\ pageCache'[p].page.at <= now
             /\ pageCache'[p].expires = pageCache'[p].page.at + TTL
             /\ p = Pages => pageCache'[p].page.short
        BY <2>1 DEF GammaInv
  <2> QED BY <2>1, <2>2, <2>3, FinishKeeps
<1>7. ASSUME NEW r \in Readers, RequestTimesOut(r) PROVE GammaInv'
  <2>1. reader' = [reader EXCEPT ![r] = Resting] /\ UNCHANGED <<pageCache, listCache, answer, now>>
        BY <1>7 DEF RequestTimesOut
  <2>2. reader' \in [Readers -> [at : {"idle", "paging", "requesting"}, pages : Seq(Page),
                                 attempt : Nat, began : Int]]
        BY <2>1 DEF GammaInv, Resting
  <2>3. \A s \in Readers : reader'[s].at # "idle" => reader'[s] = reader[s]
        BY <2>1 DEF GammaInv, Resting
  <2>4. ListingsAreRecent'
        BY <2>1 DEF GammaInv, ListingsAreRecent
  <2> QED BY <2>1, <2>2, <2>3, <2>4 DEF GammaInv, FreshSince
<1>8. CASE ClearCache
  <2>1. /\ pageCache' = [p \in 1..Pages |-> None] /\ listCache' = None
        /\ UNCHANGED <<reader, answer, now>>
        BY <1>8 DEF ClearCache
  <2>2. ListingsAreRecent'
        BY <2>1 DEF GammaInv, ListingsAreRecent
  <2> QED BY <2>1, <2>2 DEF GammaInv, FreshSince
<1>9. CASE GammaTick
  <2>1. now' = now + 1 /\ UNCHANGED <<pageCache, listCache, reader, answer>>
        BY <1>9 DEF GammaTick, Tick, gammaVars
  <2>2. now \in Int /\ now' <= Horizon /\ now' \in Int /\ now' >= now
        BY <1>9 DEF GammaTick, Tick, GammaInv
  <2>3. ListingsAreRecent'
        BY <2>1 DEF GammaInv, ListingsAreRecent
  <2>4. \A p \in 1..Pages : pageCache[p] # None => pageCache[p].page.at <= now'
        BY <2>2 DEF GammaInv, Page
  <2>5. \A r \in Readers : reader[r].at # "idle" => reader[r].began <= now'
        BY <2>2 DEF GammaInv
  <2> QED BY <2>1, <2>2, <2>3, <2>4, <2>5 DEF GammaInv, FreshSince
<1>10. CASE UNCHANGED <<gammaVars, now>>
      BY <1>10 DEF gammaVars, GammaInv, FreshSince, ListingsAreRecent
<1> QED BY <1>1, <1>2, <1>3, <1>4, <1>5, <1>6, <1>7, <1>8, <1>9, <1>10 DEF GammaNext

\* However readers, retries, timeouts and expiries interleave, a served list is at most two
\* times to live and its own assembly old: the stale page is the one that was cached longest
\* when a list was begun, and the list was cached as long again (_TTLCache, get_all_markets).
THEOREM ListingsStayRecent == GammaSpec => []ListingsAreRecent
<1>1. GammaInv => ListingsAreRecent
      BY DEF GammaInv
<1> QED BY <1>1, GammaInitially, GammaStep, PTL DEF GammaSpec
-----------------------------------------------------------------------------
(* OrderLifecycle: a trail explains a state.                               *)

\* What the trail of an order that was never forced shows of the state it led to.
Earned(s, h) ==
    /\ s \in {"acknowledged", "partial_fill"} => \E j \in DOMAIN h : h[j].to = "acknowledged"
    /\ s \in {"filled", "settled", "redeemed"} =>
         \E j, k \in DOMAIN h : j < k /\ h[j].to = "acknowledged" /\ h[k].to = "filled"
    /\ \A k \in DOMAIN h : h[k].from \notin TerminalStates

Explains(s, h) ==
    /\ s \in OrderStates /\ h \in Seq(StateTransitions)
    /\ \A k \in DOMAIN h : h[k].from = IF k = 1 THEN "created" ELSE h[k - 1].to
    /\ s = IF h = <<>> THEN "created" ELSE h[Len(h)].to
    /\ (\A k \in DOMAIN h : ~ h[k].forced) => Earned(s, h)

LifecycleInv ==
    /\ Explains(state, history)
    /\ saved # <<>> => Explains(saved.state, saved.history)

\* A recorded transition, allowed by the table or forced, keeps the trail an explanation.
LEMMA RecordingExplains ==
    ASSUME NEW s, NEW h, Explains(s, h), NEW next \in OrderStates, NEW forced \in BOOLEAN,
           ~ forced => s \notin TerminalStates /\ <<s, next>> \in ValidTransitions
    PROVE  Explains(next, Append(h, [from |-> s, to |-> next, forced |-> forced]))
<1> DEFINE entry == [from |-> s, to |-> next, forced |-> forced]
           n == Len(h)
           longer == Append(h, entry)
<1>1. s \in OrderStates /\ h \in Seq(StateTransitions) /\ n \in Nat /\ entry \in StateTransitions
      BY DEF Explains, StateTransitions
<1>2. entry.from = s /\ entry.to = next /\ entry.forced = forced
      OBVIOUS
<1> HIDE DEF entry
<1>3. /\ longer \in Seq(StateTransitions) /\ Len(longer) = n + 1 /\ DOMAIN longer = 1..(n + 1)
      /\ longer[n + 1] = entry /\ \A k \in 1..n : longer[k] = h[k]
      /\ DOMAIN h = 1..n /\ longer # <<>>
      BY <1>1
<1> HIDE DEF longer
<1>4. ASSUME NEW k \in DOMAIN longer PROVE longer[k].from = IF k = 1 THEN "created" ELSE longer[k - 1].to
  <2>1. CASE k \in 1..n
        BY <1>1, <1>3, <2>1 DEF Explains
  <2>2. CASE k = n + 1 /\ n = 0
        BY <1>1, <1>2, <1>3, <2>2 DEF Explains
  <2>3. CASE k = n + 1 /\ n > 0
        BY <1>1, <1>2, <1>3, <2>3 DEF Explains
  <2> QED BY <1>1, <1>3, <2>1, <2>2, <2>3
<1>5. ASSUME \A k \in DOMAIN longer : ~ longer[k].forced PROVE Earned(next, longer)
  <2>1. ~ forced /\ \A k \in DOMAIN h : ~ h[k].forced
        BY <1>1, <1>2, <1>3, <1>5
  <2>2. Earned(s, h) /\ s \notin TerminalStates /\ <<s, next>> \in ValidTransitions
        BY <2>1 DEF Explains
  <2>3. \A k \in DOMAIN longer : longer[k].from \notin TerminalStates
        BY <1>1, <1>2, <1>3, <2>2 DEF Earned
  <2>4. ASSUME next \in {"acknowledged", "partial_fill"}
        PROVE  \E j \in DOMAIN longer : longer[j].to = "acknowledged"
    <3>1. CASE next = "acknowledged"
          BY <1>1, <1>2, <1>3, <3>1
    <3>2. CASE next = "partial_fill"
      <4>1. s \in {"acknowledged", "partial_fill"}
            BY <2>2, <3>2 DEF ValidTransitions
      <4> QED BY <1>1, <1>3, <2>2, <4>1 DEF Earned
    <3> QED BY <2>4, <3>1, <3>2
  <2>5. ASSUME next \in {"filled", "settled", "redeemed"}
        PROVE  \E j, k \in DOMAIN longer : j < k /\ longer[j].to = "acknowledged" /\ longer[k].to = "filled"
    <3>1. CASE next = "filled"
      <4>1. s \in {"acknowledged", "partial_fill"}
            BY <2>2, <3>1 DEF ValidTransitions
      <4>2. PICK j \in 1..n : h[j].to = "acknowledged"
            BY <1>3, <2>2, <4>1 DEF Earned
      <4>3. j < n + 1 /\ j \in DOMAIN longer /\ n + 1 \in DOMAIN longer
            BY <1>1, <1>3, <4>2
      <4>4. longer[j].to = "acknowledged" /\ longer[n + 1].to = "filled"
            BY <1>2, <1>3, <3>1, <4>2
      <4> QED BY <4>3, <4>4
    <3>2. CASE next \in {"settled", "redeemed"}
      <4>1. s \in {"filled", "settled"}
            BY <2>2, <3>2 DEF ValidTransitions
      <4> QED BY <1>1, <1>3, <2>2, <4>1 DEF Earned
    <3> QED BY <2>5, <3>1, <3>2
  <2> QED BY <2>3, <2>4, <2>5 DEF Earned
<1>6. next = longer[Len(longer)].to
      BY <1>2, <1>3
<1>7. Explains(next, longer)
      BY <1>3, <1>4, <1>5, <1>6 DEF Explains
<1> QED BY <1>7 DEF longer, entry

\* A created order has no trail and needs none (OrderStateMachine.__init__).
LEMMA LifecycleInitially == LifecycleInit => LifecycleInv
<1> SUFFICES ASSUME LifecycleInit PROVE LifecycleInv
    OBVIOUS
<1>1. state = "created" /\ history = <<>> /\ saved = <<>> /\ DOMAIN history = {}
      BY DEF LifecycleInit
<1>2. Explains(state, history)
      BY <1>1 DEF Explains, Earned, OrderStates
<1> QED BY <1>1, <1>2 DEF LifecycleInv

\* Transitions, forced ones, saves and restores keep trail and state together.
LEMMA LifecycleStep == LifecycleInv /\ [LifecycleNext]_lifecycleVars => LifecycleInv'
<1> SUFFICES ASSUME LifecycleInv, [LifecycleNext]_lifecycleVars PROVE LifecycleInv'
    OBVIOUS
<1>1. ASSUME NEW next \in OrderStates, Transition(next) PROVE LifecycleInv'
  <2>1. /\ state \notin TerminalStates /\ <<state, next>> \in ValidTransitions
        /\ state' = next /\ saved' = saved
        /\ history' = Append(history, [from |-> state, to |-> next, forced |-> FALSE])
        BY <1>1 DEF Transition, CanTransition, Recorded
  <2>2. Explains(next, Append(history, [from |-> state, to |-> next, forced |-> FALSE]))
        BY <2>1, RecordingExplains DEF LifecycleInv
  <2>3. Explains(state', history')
        BY <2>1, <2>2
  <2> QED BY <2>1, <2>3 DEF LifecycleInv
<1>2. ASSUME NEW next \in OrderStates, ForceState(next) PROVE LifecycleInv'
  <2>1. /\ state' = next /\ saved' = saved
        /\ history' = Append(history, [from |-> state, to |-> next, forced |-> TRUE])
        BY <1>2 DEF ForceState, Recorded
  <2>2. Explains(next, Append(history, [from |-> state, to |-> next, forced |-> TRUE]))
        BY RecordingExplains DEF LifecycleInv
  <2>3. Explains(state', history')
        BY <2>1, <2>2
  <2> QED BY <2>1, <2>3 DEF LifecycleInv
<1>3. CASE ToDict
  <2>1. /\ saved'.state = state /\ saved'.history = history /\ UNCHANGED <<state, history>>
        BY <1>3 DEF ToDict
  <2> QED BY <2>1 DEF LifecycleInv
<1>4. CASE FromDict
  <2>1. /\ saved # <<>> /\ saved' = saved
        /\ state' = saved.state /\ history' = saved.history
        BY <1>4 DEF FromDict, Restored
  <2> QED BY <2>1 DEF LifecycleInv
<1>5. CASE UNCHANGED lifecycleVars
      BY <1>5 DEF lifecycleVars, LifecycleInv
<1> QED BY <1>1, <1>2, <1>3, <1>4, <1>5 DEF LifecycleNext

\* The history of an order explains its state through any number of transitions, forced ones,
\* saves and restores from an older image (transition, force_state, to_dict, from_dict).
THEOREM TrailExplainsState == LifecycleSpec => []AuditTrailExplainsState
<1>1. LifecycleInv => AuditTrailExplainsState
  <2> SUFFICES ASSUME LifecycleInv PROVE AuditTrailExplainsState
      OBVIOUS
  <2>1. Explains(state, history) /\ DOMAIN history = 1..Len(history) /\ Len(history) \in Nat
        BY DEF LifecycleInv, Explains
  <2>2. ASSUME ForcedIn(history) = 0 PROVE \A k \in DOMAIN history : ~ history[k].forced
    <3> DEFINE forced == {k \in DOMAIN history : history[k].forced}
    <3>1. IsFiniteSet(1..Len(history)) /\ forced \in SUBSET (1..Len(history))
          BY <2>1, FS_Interval
    <3>2. IsFiniteSet(forced)
          BY <3>1, FS_Subset
    <3>3. forced = {}
          BY <2>2, <3>2, FS_EmptySet DEF ForcedIn
    <3> QED BY <3>3
  <2>3. ForcedIn(history) = 0 => Earned(state, history)
        BY <2>1, <2>2 DEF Explains
  <2> QED BY <2>1, <2>3 DEF AuditTrailExplainsState, Explains, Earned
<1> QED BY <1>1, LifecycleInitially, LifecycleStep, PTL DEF LifecycleSpec
-----------------------------------------------------------------------------
(* EventBus: where an accepted event is.                                   *)

Busy(d) == dispatch[d] # Idle
Finished(h, e) == \E i \in DOMAIN seen[h] : seen[h][i] = e
Queued(e) == \E i \in DOMAIN queue : queue[i] = e

BusTypes ==
    /\ queue \in Seq(Events) /\ published \in 0..MaxEvents
    /\ subscribers \subseteq Handlers /\ active \subseteq Dispatchers
    /\ dispatch \in [Dispatchers -> [event : 0..MaxEvents, left : SUBSET Handlers]]
    /\ seen \in [Handlers -> Seq(Events)]
    /\ overlapped \in BOOLEAN
    /\ \A e \in DOMAIN target : target[e] \subseteq Handlers

\* The queue is in the order of publication, after everything taken off it.
QueueOrder ==
    /\ \A i \in DOMAIN queue : queue[i] <= published
    /\ \A i, j \in DOMAIN queue : i < j => queue[i] < queue[j]
    /\ \A e \in DOMAIN target : e \in Events /\ e <= published /\ \A i \in DOMAIN queue : e < queue[i]

\* A dispatcher that has an event runs, and took it off the queue; handlers finish only such.
Dispatched ==
    /\ \A d \in Dispatchers : Busy(d) => d \in active /\ dispatch[d].event \in DOMAIN target
    /\ \A d \in Dispatchers : ~ Busy(d) => dispatch[d].left = {}
    /\ \A h \in Handlers : \A i \in DOMAIN seen[h] : seen[h][i] \in DOMAIN target

\* Without an overlap one dispatcher is at work, with an event newer than any its handlers did.
OneAtATime ==
    ~overlapped =>
        /\ \A c, d \in Dispatchers : Busy(c) /\ Busy(d) => c = d
        /\ \A d \in Dispatchers : \A h \in dispatch[d].left :
             \A i \in DOMAIN seen[h] : seen[h][i] < dispatch[d].event

\* An accepted event waits, or is done, under way or cut off for each of its handlers.
Accounted(e) ==
    \/ e \in dropped
    \/ Queued(e)
    \/ e \in DOMAIN target /\ \A h \in target[e] : e \in cut \/ InFlight(e, h) \/ Finished(h, e)

BusInv ==
    /\ BusTypes /\ QueueOrder /\ Dispatched /\ OneAtATime /\ HandledInOrder
    /\ \A e \in 1..published : Accounted(e)

\* The bus starts empty (EventBus.__init__).
LEMMA BusInitially == BusInit => BusInv
<1> SUFFICES ASSUME BusInit PROVE BusInv
    OBVIOUS
<1>1. /\ queue = <<>> /\ DOMAIN queue = {} /\ published = 0 /\ subscribers = {} /\ active = {}
      /\ dispatch = [d \in Dispatchers |-> Idle] /\ target = <<>> /\ DOMAIN target = {}
      /\ seen = [h \in Handlers |-> <<>>] /\ overlapped = FALSE
      BY DEF BusInit
<1>2. BusTypes
  <2>1. queue \in Seq(Events) /\ 0 \in 0..MaxEvents
        BY <1>1, BusAssumption
  <2>2. Idle \in [event : 0..MaxEvents, left : SUBSET Handlers]
        BY <2>1 DEF Idle
  <2>3. dispatch \in [Dispatchers -> [event : 0..MaxEvents, left : SUBSET Handlers]]
        BY <1>1, <2>2
  <2>4. seen \in [Handlers -> Seq(Events)]
        BY <1>1
  <2> QED BY <1>1, <2>1, <2>3, <2>4 DEF BusTypes
<1>3. /\ \A d \in Dispatchers : ~ Busy(d) /\ dispatch[d].left = {}
      /\ \A h \in Handlers : DOMAIN seen[h] = {}
      BY <1>1 DEF Busy, Idle
<1> QED BY <1>1, <1>2, <1>3 DEF BusInv, QueueOrder, Dispatched, OneAtATime, HandledInOrder

\* A step that touches neither events nor dispatches keeps the invariant.
LEMMA BusRests ==
    ASSUME BusInv, UNCHANGED <<queue, published, dropped, dispatch, target, seen, cut, overlapped>>,
           subscribers' \subseteq Handlers, active' \subseteq Dispatchers,
           \A d \in Dispatchers : Busy(d) /\ d \in active => d \in active'
    PROVE  BusInv'
BY DEF BusInv, BusTypes, QueueOrder, Dispatched, OneAtATime, HandledInOrder, Accounted, Queued,
       InFlight, Finished, Busy

\* A full queue drops the event (put_nowait), or it is queued as the newest.
LEMMA PublishKeeps == ASSUME BusInv, Publish PROVE BusInv'
<1> DEFINE e == published + 1
<1>1. /\ BusTypes /\ QueueOrder /\ Dispatched /\ OneAtATime /\ HandledInOrder
      /\ \A x \in 1..published : Accounted(x)
      BY DEF BusInv
<1>2. /\ published \in Nat /\ published < MaxEvents /\ published' = e /\ e \in Events
      /\ UNCHANGED <<subscribers, active, dispatch, target, seen, cut, overlapped>>
      BY <1>1, BusAssumption DEF Publish, BusTypes, Events
<1>3. \/ queue' = Append(queue, e) /\ dropped' = dropped
      \/ queue' = queue /\ dropped' = dropped \cup {e}
      BY <1>2 DEF Publish
<1>4. queue \in Seq(Events) /\ \A i \in DOMAIN queue : queue[i] \in Int
  <2>1. queue \in Seq(Events)
        BY <1>1 DEF BusTypes
  <2>2. \A i \in DOMAIN queue : queue[i] \in Events
        BY <2>1
  <2> QED BY <2>1, <2>2 DEF Events
<1>5. CASE queue' = queue /\ dropped' = dropped \cup {e}
  <2>1. BusTypes'
        BY <1>1, <1>2, <1>5 DEF BusTypes, Events
  <2>2. QueueOrder'
        BY <1>1, <1>2, <1>4, <1>5 DEF QueueOrder, Events
  <2>3. Dispatched' /\ OneAtATime' /\ HandledInOrder'
        BY <1>1, <1>2 DEF Dispatched, OneAtATime, HandledInOrder, Busy
  <2>4. ASSUME NEW x \in 1..published' PROVE Accounted(x)'
    <3>1. CASE x = e
          BY <1>5, <3>1 DEF Accounted
    <3>2. CASE x \in 1..published
          BY <1>1, <1>2, <1>5, <3>2 DEF Accounted, Queued, InFlight, Finished
    <3> QED BY <1>2, <3>1, <3>2
  <2> QED BY <2>1, <2>2, <2>3, <2>4 DEF BusInv
<1>6. CASE queue' = Append(queue, e) /\ dropped' = dropped
  <2> DEFINE n == Len(queue)
  <2>1. /\ n \in Nat /\ DOMAIN queue = 1..n /\ DOMAIN queue' = 1..(n + 1) /\ queue' \in Seq(Events)
        /\ queue'[n + 1] = e /\ \A i \in 1..n : queue'[i] = queue[i]
        BY <1>2, <1>4, <1>6
  <2> HIDE DEF n
  <2>2. BusTypes'
        BY <1>1, <1>2, <2>1 DEF BusTypes, Events
  <2>3. QueueOrder'
    <3>1. \A i \in DOMAIN queue' : i = n + 1 \/ i \in DOMAIN queue
          BY <2>1
    <3>2. \A i \in DOMAIN queue : queue[i] <= published /\ queue[i] < e /\ queue[i] <= e
          BY <1>1, <1>2, <1>4 DEF QueueOrder
    <3>3. \A i \in DOMAIN queue' : queue'[i] <= e
          BY <1>2, <2>1, <3>1, <3>2
    <3>4. \A i, j \in DOMAIN queue' : i < j => queue'[i] < queue'[j]
      <4> TAKE i, j \in DOMAIN queue'
      <4>1. i < j => i \in 1..n
            BY <2>1
      <4>2. CASE j = n + 1
            BY <2>1, <3>2, <4>1, <4>2
      <4>3. CASE j # n + 1
            BY <1>1, <2>1, <3>1, <4>1, <4>3 DEF QueueOrder
      <4> QED BY <4>2, <4>3
    <3>5. \A x \in DOMAIN target : x \in Events /\ x <= e /\ x < e
          BY <1>1, <1>2 DEF QueueOrder, Events
    <3>6. \A x \in DOMAIN target : \A i \in DOMAIN queue' : x < queue'[i]
          BY <1>1, <2>1, <3>1, <3>5 DEF QueueOrder
    <3> HIDE DEF e
    <3> QED BY <1>2, <3>3, <3>4, <3>5, <3>6 DEF QueueOrder
  <2>4. Dispatched' /\ OneAtATime' /\ HandledInOrder'
        BY <1>1, <1>2 DEF Dispatched, OneAtATime, HandledInOrder, Busy
  <2>5. ASSUME NEW x \in 1..published' PROVE Accounted(x)'
    <3>1. CASE x = e
      <4>1. Queued(x)'
            BY <2>1, <3>1 DEF Queued
      <4> QED BY <4>1 DEF Accounted
    <3>2. CASE x \in 1..published
      <4>1. Queued(x) => Queued(x)'
            BY <2>1 DEF Queued
      <4> QED BY <1>1, <1>2, <1>6, <3>2, <4>1 DEF Accounted, InFlight, Finished
    <3> QED BY <1>2, <3>1, <3>2
  <2> QED BY <2>2, <2>3, <2>4, <2>5 DEF BusInv
<1> QED BY <1>3, <1>5, <1>6

\* The oldest event leaves the queue for a dispatcher, with the handlers subscribed to it now.
LEMMA TakeKeeps == ASSUME BusInv, NEW d \in Dispatchers, Take(d) PROVE BusInv'
<1> DEFINE e == Head(queue)
           n == Len(queue)
<1>1. /\ BusTypes /\ QueueOrder /\ Dispatched /\ OneAtATime /\ HandledInOrder
      /\ \A x \in 1..published : Accounted(x)
      BY DEF BusInv
<1>2. /\ d \in active /\ dispatch[d] = Idle /\ queue # <<>> /\ queue' = Tail(queue)
      /\ target' = [x \in DOMAIN target \cup {e} |-> IF x = e THEN subscribers ELSE target[x]]
      /\ dispatch' = [dispatch EXCEPT ![d] = IF subscribers = {} THEN Idle ELSE [event |-> e, left |-> subscribers]]
      /\ overlapped' = (overlapped \/ \E o \in active \ {d} : dispatch[o] # Idle)
      /\ UNCHANGED <<published, dropped, subscribers, active, seen, cut>>
      BY DEF Take
<1>3. /\ queue \in Seq(Events) /\ n \in Nat /\ n > 0 /\ DOMAIN queue = 1..n /\ e = queue[1] /\ e \in Events
      /\ queue' \in Seq(Events) /\ DOMAIN queue' = 1..(n - 1) /\ \A i \in 1..(n - 1) : queue'[i] = queue[i + 1]
      BY <1>1, <1>2 DEF BusTypes
<1>4. Events \subseteq Nat \ {0} /\ Events = 1..MaxEvents /\ published \in Nat
      BY <1>1, BusAssumption DEF Events, BusTypes
<1>5. /\ DOMAIN target' = DOMAIN target \cup {e} /\ target'[e] = subscribers /\ e \notin DOMAIN target
      /\ \A x \in DOMAIN target : x # e /\ target'[x] = target[x]
  <2>1. e \notin DOMAIN target
        BY <1>1, <1>3, <1>4 DEF QueueOrder
  <2> QED BY <1>2, <2>1
<1>6. /\ \A c \in Dispatchers \ {d} : dispatch'[c] = dispatch[c]
      /\ dispatch[d].left = {} /\ ~ Busy(d) /\ dispatch'[d].left = subscribers
      /\ dispatch'[d] # Idle => dispatch'[d].event = e
      BY <1>1, <1>2 DEF BusTypes, Idle, Busy
<1> HIDE DEF e, n
<1>7. BusTypes'
  <2>1. [event |-> e, left |-> subscribers] \in [event : 0..MaxEvents, left : SUBSET Handlers]
        BY <1>1, <1>3, <1>4 DEF BusTypes
  <2>2. Idle \in [event : 0..MaxEvents, left : SUBSET Handlers]
        BY BusAssumption DEF Idle
  <2>3. \A x \in DOMAIN target' : target'[x] \subseteq Handlers
        BY <1>1, <1>5 DEF BusTypes
  <2>4. dispatch' \in [Dispatchers -> [event : 0..MaxEvents, left : SUBSET Handlers]]
        BY <1>1, <1>2, <2>1, <2>2 DEF BusTypes
  <2> QED BY <1>1, <1>2, <1>3, <2>3, <2>4 DEF BusTypes
<1>8. QueueOrder'
  <2>1. \A i \in 1..(n - 1) : i + 1 \in 1..n /\ queue'[i] = queue[i + 1] /\ 1 < i + 1
        BY <1>3
  <2>2. \A i \in DOMAIN queue' : queue'[i] <= published /\ e < queue'[i]
    <3> TAKE i \in DOMAIN queue'
    <3>1. i + 1 \in DOMAIN queue /\ 1 \in DOMAIN queue /\ queue'[i] = queue[i + 1] /\ 1 < i + 1 /\ e = queue[1]
          BY <1>3, <2>1
    <3>2. queue[i + 1] <= published /\ queue[1] < queue[i + 1]
          BY <1>1, <3>1 DEF QueueOrder
    <3> QED BY <3>1, <3>2
  <2>3. \A i, j \in DOMAIN queue' : i < j => queue'[i] < queue'[j]
    <3> TAKE i, j \in DOMAIN queue'
    <3>1. i + 1 \in 1..n /\ j + 1 \in 1..n /\ (i < j => i + 1 < j + 1)
          BY <1>3
    <3> QED BY <1>1, <1>3, <3>1 DEF QueueOrder
  <2>4. \A x \in DOMAIN target : x \in Events /\ x <= published /\ \A i \in DOMAIN queue' : x < queue'[i]
        BY <1>1, <1>3, <2>1 DEF QueueOrder
  <2>5. e <= published
        BY <1>1, <1>3 DEF QueueOrder
  <2> QED BY <1>2, <1>3, <1>5, <2>2, <2>3, <2>4, <2>5 DEF QueueOrder
<1>9. Dispatched'
  <2>1. \A c \in Dispatchers : Busy(c)' => c \in active' /\ dispatch'[c].event \in DOMAIN target'
        BY <1>1, <1>2, <1>5, <1>6 DEF Dispatched, Busy
  <2>2. \A c \in Dispatchers : ~ Busy(c)' => dispatch'[c].left = {}
    <3>1. Idle.left = {}
          BY DEF Idle
    <3> QED BY <3>1 DEF Busy
  <2> QED BY <1>1, <1>2, <1>5, <2>1, <2>2 DEF Dispatched
<1>10. OneAtATime'
  <2> SUFFICES ASSUME ~ overlapped'
               PROVE  /\ \A b, c \in Dispatchers : Busy(b)' /\ Busy(c)' => b = c
                      /\ \A c \in Dispatchers : \A h \in dispatch'[c].left :
                           \A i \in DOMAIN seen'[h] : seen'[h][i] < dispatch'[c].event
      BY DEF OneAtATime
  <2>1. ~ overlapped /\ \A o \in active \ {d} : ~ Busy(o)
        BY <1>2 DEF Busy
  <2>2. \A c \in Dispatchers \ {d} : ~ Busy(c) /\ ~ Busy(c)' /\ dispatch'[c].left = {}
        BY <1>1, <1>6, <2>1 DEF Dispatched, Busy
  <2>3. ASSUME NEW h \in dispatch'[d].left, NEW i \in DOMAIN seen'[h]
        PROVE  seen'[h][i] < dispatch'[d].event
    <3>1. h \in subscribers /\ h \in Handlers /\ dispatch'[d] = [event |-> e, left |-> subscribers]
          BY <1>1, <1>2, <1>6, <2>3 DEF BusTypes
    <3>2. seen[h][i] \in DOMAIN target
          BY <1>1, <1>2, <2>3, <3>1 DEF Dispatched
    <3>3. seen[h][i] < e
          BY <1>1, <1>3, <3>2 DEF QueueOrder
    <3> QED BY <1>2, <3>1, <3>3
  <2> QED BY <2>2, <2>3
<1>11. HandledInOrder'
      BY <1>1, <1>2 DEF HandledInOrder
<1>12. ASSUME NEW x \in 1..published' PROVE Accounted(x)'
  <2>1. Accounted(x) /\ x \in Int
        BY <1>1, <1>2
  <2>2. CASE x \in dropped
        BY <1>2, <2>2 DEF Accounted
  <2>3. CASE Queued(x) /\ x # e
    <3>1. PICK i \in 1..n : queue[i] = x
          BY <1>3, <2>3 DEF Queued
    <3>2. i - 1 \in 1..(n - 1) /\ queue'[i - 1] = queue[(i - 1) + 1] /\ (i - 1) + 1 = i
          BY <1>3, <2>3, <3>1
    <3>3. Queued(x)'
          BY <1>3, <3>1, <3>2 DEF Queued
    <3> QED BY <3>3 DEF Accounted
  <2>4. CASE x = e
    <3>1. \A h \in subscribers : InFlight(x, h)'
      <4> TAKE h \in subscribers
      <4>1. dispatch'[d] = [event |-> e, left |-> subscribers]
            BY <1>1, <1>2 DEF BusTypes
      <4> QED BY <2>4, <4>1 DEF InFlight
    <3> QED BY <1>5, <2>4, <3>1 DEF Accounted
  <2>5. CASE x \in DOMAIN target /\ \A h \in target[x] : x \in cut \/ InFlight(x, h) \/ Finished(h, x)
    <3>1. \A h : InFlight(x, h) => InFlight(x, h)'
          BY <1>6 DEF InFlight
    <3>2. \A h : Finished(h, x) => Finished(h, x)'
          BY <1>2 DEF Finished
    <3> QED BY <1>2, <1>5, <2>5, <3>1, <3>2 DEF Accounted
  <2> QED BY <2>1, <2>2, <2>3, <2>4, <2>5 DEF Accounted
<1> QED BY <1>7, <1>8, <1>9, <1>10, <1>11, <1>12 DEF BusInv

\* stop() cuts off the dispatch of the loop: its event counts as cut for whoever was not done.
LEMMA StopKeeps == ASSUME BusInv, Stop PROVE BusInv'
<1>1. /\ BusTypes /\ QueueOrder /\ Dispatched /\ OneAtATime /\ HandledInOrder
      /\ \A x \in 1..published : Accounted(x)
      BY DEF BusInv
<1>2. /\ active' = (active \ {"loop"}) \cup {"stop"}
      /\ dispatch' = [dispatch EXCEPT !["loop"] = Idle]
      /\ cut' = cut \cup ({dispatch["loop"].event} \ {0})
      /\ UNCHANGED <<queue, published, dropped, subscribers, target, seen, overlapped>>
      BY DEF Stop
<1>3. /\ dispatch'["loop"] = Idle /\ Idle.left = {}
      /\ \A c \in Dispatchers \ {"loop"} : dispatch'[c] = dispatch[c]
      BY <1>1, <1>2 DEF BusTypes, Idle, Dispatchers
<1>4. \A c \in Dispatchers : Busy(c)' => Busy(c) /\ c # "loop" /\ dispatch'[c] = dispatch[c]
      BY <1>3 DEF Busy
<1>5. \A c \in Dispatchers : dispatch'[c] = dispatch[c] \/ dispatch'[c].left = {}
      BY <1>3
<1>6. BusTypes'
  <2>1. Idle \in [event : 0..MaxEvents, left : SUBSET Handlers]
        BY BusAssumption DEF Idle
  <2> QED BY <1>1, <1>2, <2>1 DEF BusTypes, Dispatchers
<1>7. QueueOrder'
      BY <1>1, <1>2 DEF QueueOrder
<1>8. Dispatched'
  <2>1. \A c \in Dispatchers : ~ Busy(c)' => dispatch'[c].left = {}
        BY <1>3 DEF Busy
  <2> QED BY <1>1, <1>2, <1>4, <2>1 DEF Dispatched
<1>9. OneAtATime' /\ HandledInOrder'
  <2>1. OneAtATime'
        BY <1>1, <1>2, <1>4, <1>5 DEF OneAtATime
  <2> QED BY <1>1, <1>2, <2>1 DEF HandledInOrder
<1>10. ASSUME NEW x \in 1..published' PROVE Accounted(x)'
  <2>1. Accounted(x) /\ x # 0
        BY <1>1, <1>2
  <2>2. ASSUME NEW h, InFlight(x, h) PROVE x \in cut' \/ InFlight(x, h)'
    <3>1. PICK c \in Dispatchers : dispatch[c].event = x /\ h \in dispatch[c].left
          BY <2>2 DEF InFlight
    <3>2. CASE c = "loop"
          BY <1>2, <2>1, <3>1, <3>2
    <3>3. CASE c # "loop"
          BY <1>3, <3>1, <3>3 DEF InFlight
    <3> QED BY <3>2, <3>3
  <2> QED BY <1>2, <2>1, <2>2 DEF Accounted, Queued, Finished
<1> QED BY <1>6, <1>7, <1>8, <1>9, <1>10 DEF BusInv

\* A handler that is done has the event; the dispatcher waits for the others (gather).
LEMMA HandlerDoneKeeps ==
    ASSUME BusInv, NEW d \in Dispatchers, NEW h \in Handlers, HandlerDone(d, h) PROVE BusInv'
<1> DEFINE e == dispatch[d].event
           rest == IF dispatch[d].left = {h} THEN Idle ELSE [dispatch[d] EXCEPT !.left = @ \ {h}]
           s == Append(seen[h], e)
           n == Len(seen[h])
<1>1. /\ BusTypes /\ QueueOrder /\ Dispatched /\ OneAtATime /\ HandledInOrder
      /\ \A x \in 1..published : Accounted(x)
      BY DEF BusInv
<1>2. /\ h \in dispatch[d].left /\ seen' = [seen EXCEPT ![h] = s] /\ dispatch' = [dispatch EXCEPT ![d] = rest]
      /\ UNCHANGED <<queue, published, dropped, subscribers, active, target, cut, overlapped>>
  <2>1. h \in dispatch[d].left /\ seen' = [seen EXCEPT ![h] = s]
        BY DEF HandlerDone
  <2>2. dispatch' = [dispatch EXCEPT ![d] = rest]
        BY DEF HandlerDone
  <2> QED BY <2>1, <2>2 DEF HandlerDone
<1>3. Busy(d) /\ d \in active /\ e \in DOMAIN target /\ e \in Events
      BY <1>1, <1>2 DEF Dispatched, QueueOrder
<1>4. /\ dispatch[d] \in [event : 0..MaxEvents, left : SUBSET Handlers]
      /\ Idle \in [event : 0..MaxEvents, left : SUBSET Handlers] /\ Idle.left = {}
      BY <1>1, BusAssumption DEF BusTypes, Idle
<1>5. /\ rest \in [event : 0..MaxEvents, left : SUBSET Handlers]
      /\ rest.left = dispatch[d].left \ {h}
      /\ rest # Idle => rest.event = e
      BY <1>4
<1>6. /\ seen[h] \in Seq(Events) /\ n \in Nat /\ DOMAIN seen[h] = 1..n
      /\ s \in Seq(Events) /\ DOMAIN s = 1..(n + 1) /\ s[n + 1] = e /\ \A i \in 1..n : s[i] = seen[h][i]
      BY <1>1, <1>3 DEF BusTypes
<1> HIDE DEF rest, s, n, e
<1>7. /\ dispatch'[d] = rest /\ \A c \in Dispatchers \ {d} : dispatch'[c] = dispatch[c]
      /\ seen'[h] = s /\ \A g \in Handlers \ {h} : seen'[g] = seen[g]
      BY <1>1, <1>2 DEF BusTypes
<1>8. BusTypes'
      BY <1>1, <1>2, <1>5, <1>6 DEF BusTypes
<1>9. QueueOrder'
      BY <1>1, <1>2 DEF QueueOrder
<1>10. \A c \in Dispatchers : /\ Busy(c)' => Busy(c) /\ dispatch'[c].event = dispatch[c].event
                               /\ dispatch'[c].left \subseteq dispatch[c].left
      BY <1>3, <1>5, <1>7 DEF Busy, e
<1>11. Dispatched'
  <2>1. \A c \in Dispatchers : ~ Busy(c)' => dispatch'[c].left = {}
        BY <1>4 DEF Busy
  <2>2. \A g \in Handlers : \A i \in DOMAIN seen'[g] : seen'[g][i] \in DOMAIN target
    <3> TAKE g \in Handlers
    <3> TAKE i \in DOMAIN seen'[g]
    <3>1. CASE g # h
          BY <1>1, <1>7, <3>1 DEF Dispatched
    <3>2. CASE g = h
      <4>1. i \in 1..n \/ i = n + 1
            BY <1>6, <1>7, <3>2
      <4> QED BY <1>1, <1>3, <1>6, <1>7, <3>2, <4>1 DEF Dispatched
    <3> QED BY <3>1, <3>2
  <2> QED BY <1>1, <1>2, <1>10, <2>1, <2>2 DEF Dispatched
<1>12. ASSUME ~ overlapped
       PROVE  /\ \A c \in Dispatchers \ {d} : ~ Busy(c) /\ dispatch[c].left = {}
              /\ \A i \in DOMAIN seen[h] : seen[h][i] < e
      BY <1>1, <1>2, <1>3, <1>12 DEF OneAtATime, Dispatched, e
<1>13. OneAtATime'
  <2> SUFFICES ASSUME ~ overlapped
               PROVE  /\ \A b, c \in Dispatchers : Busy(b)' /\ Busy(c)' => b = c
                      /\ \A c \in Dispatchers : \A g \in dispatch'[c].left :
                           \A i \in DOMAIN seen'[g] : seen'[g][i] < dispatch'[c].event
      BY <1>2 DEF OneAtATime
  <2>1. \A b, c \in Dispatchers : Busy(b)' /\ Busy(c)' => b = c
        BY <1>1, <1>10 DEF OneAtATime
  <2>2. ASSUME NEW c \in Dispatchers, NEW g \in dispatch'[c].left, NEW i \in DOMAIN seen'[g]
        PROVE  seen'[g][i] < dispatch'[c].event
    <3>1. c = d
          BY <1>7, <1>12, <2>2
    <3>2. g \in dispatch[d].left \ {h}
          BY <1>5, <1>7, <2>2, <3>1
    <3>3. dispatch'[d].event = e /\ seen'[g] = seen[g]
          BY <1>4, <1>5, <1>7, <3>1, <3>2, <2>2
    <3> QED BY <1>1, <2>2, <3>1, <3>2, <3>3 DEF OneAtATime, e
  <2> QED BY <2>1, <2>2
<1>14. HandledInOrder'
  <2> SUFFICES ASSUME ~ overlapped, NEW g \in Handlers, NEW i \in DOMAIN seen'[g], NEW j \in DOMAIN seen'[g], i < j
               PROVE  seen'[g][i] < seen'[g][j]
      BY <1>2 DEF HandledInOrder
  <2>1. CASE g # h
        BY <1>1, <1>7, <2>1 DEF HandledInOrder
  <2>2. CASE g = h /\ j \in 1..n
    <3>1. i \in 1..n
          BY <1>6, <1>7, <2>2
    <3> QED BY <1>1, <1>6, <1>7, <2>2, <3>1 DEF HandledInOrder
  <2>3. CASE g = h /\ j = n + 1
    <3>1. i \in 1..n
          BY <1>6, <1>7, <2>3
    <3> QED BY <1>6, <1>7, <1>12, <2>3, <3>1
  <2> QED BY <1>6, <1>7, <2>1, <2>2, <2>3
<1>15. ASSUME NEW x \in 1..published' PROVE Accounted(x)'
  <2>1. Accounted(x)
        BY <1>1, <1>2
  <2>2. \A g \in Handlers : Finished(g, x) => Finished(g, x)'
    <3> TAKE g \in Handlers
    <3>1. CASE g # h
          BY <1>7, <3>1 DEF Finished
    <3>2. CASE g = h
      <4>1. \A i \in 1..n : i \in DOMAIN s /\ s[i] = seen[h][i]
            BY <1>6
      <4> QED BY <1>6, <1>7, <3>2, <4>1 DEF Finished
    <3> QED BY <3>1, <3>2
  <2>3. ASSUME NEW g \in Handlers, InFlight(x, g) PROVE InFlight(x, g)' \/ Finished(g, x)'
    <3>1. PICK c \in Dispatchers : dispatch[c].event = x /\ g \in dispatch[c].left
          BY <2>3 DEF InFlight
    <3>2. CASE c # d
          BY <1>7, <3>1, <3>2 DEF InFlight
    <3>3. CASE c = d /\ g # h
      <4>1. g \in rest.left /\ rest # Idle
            BY <1>4, <1>5, <3>1, <3>3
      <4>2. rest.event = x
            BY <1>5, <3>1, <3>3, <4>1 DEF e
      <4> QED BY <1>7, <4>1, <4>2 DEF InFlight
    <3>4. CASE c = d /\ g = h
      <4>1. n + 1 \in DOMAIN s /\ s[n + 1] = x
            BY <1>6, <3>1, <3>4 DEF e
      <4> QED BY <1>7, <3>4, <4>1 DEF Finished
    <3> QED BY <3>2, <3>3, <3>4
  <2>4. CASE /\ x \in DOMAIN target
             /\ \A g \in target[x] : x \in cut \/ InFlight(x, g) \/ Finished(g, x)
    <3>1. target[x] \subseteq Handlers
          BY <1>1, <2>4 DEF BusTypes
    <3>2. \A g \in target[x] : x \in cut \/ InFlight(x, g)' \/ Finished(g, x)'
          BY <2>2, <2>3, <2>4, <3>1
    <3> QED BY <1>2, <2>4, <3>2 DEF Accounted
  <2> QED BY <1>2, <2>1, <2>4 DEF Accounted, Queued
<1> QED BY <1>8, <1>9, <1>11, <1>13, <1>14, <1>15 DEF BusInv

\* Every publication, subscription, dispatch, completion and stop keeps the invariant.
LEMMA BusStep == BusInv /\ [BusNext]_busVars => BusInv'
<1> SUFFICES ASSUME BusInv, [BusNext]_busVars PROVE BusInv'
    OBVIOUS
<1>1. subscribers \subseteq Handlers /\ active \subseteq Dispatchers
      BY DEF BusInv, BusTypes
<1>2. ASSUME NEW h \in Handlers, Subscribe(h) \/ Unsubscribe(h) PROVE BusInv'
  <2>1. /\ UNCHANGED <<queue, published, dropped, active, dispatch, target, seen, cut, overlapped>>
        /\ subscribers' \subseteq Handlers
        BY <1>1, <1>2 DEF Subscribe, Unsubscribe
  <2> QED BY <1>1, <2>1, BusRests
<1>3. CASE Start \/ Process
  <2>1. /\ UNCHANGED <<queue, published, dropped, subscribers, dispatch, target, seen, cut, overlapped>>
        /\ active \subseteq active' /\ active' \subseteq Dispatchers
        BY <1>1, <1>3 DEF Start, Process, Activate, Dispatchers
  <2> QED BY <1>1, <2>1, BusRests
<1>4. ASSUME NEW d \in Dispatchers, Drained(d) PROVE BusInv'
  <2>1. /\ UNCHANGED <<queue, published, dropped, subscribers, dispatch, target, seen, cut, overlapped>>
        /\ active' = active \ {d} /\ ~ Busy(d)
        BY <1>4 DEF Drained, Busy
  <2> QED BY <1>1, <2>1, BusRests
<1>5. CASE UNCHANGED busVars
      BY <1>1, <1>5, BusRests DEF busVars
<1> QED BY <1>2, <1>3, <1>4, <1>5, PublishKeeps, StopKeeps, TakeKeeps, HandlerDoneKeeps DEF BusNext

\* For any handlers, queue size and number of events: an accepted event reaches every handler
\* it was dispatched to unless stop() cut it off, and in order and once while one dispatcher
\* at a time is at work (publish, _dispatch, process, stop).
THEOREM BusDelivers == BusSpec => []DeliversInOrder
<1>1. BusInv => DeliversInOrder
  <2> SUFFICES ASSUME BusInv PROVE DeliversInOrder
      OBVIOUS
  <2>1. queue \in Seq(Events) /\ seen \in [Handlers -> Seq(Events)]
        /\ \A e \in DOMAIN target : target[e] \subseteq Handlers
        BY DEF BusInv, BusTypes
  <2>2. \A e : Queued(e) => Contains(queue, e)
        BY <2>1 DEF Queued, Contains
  <2>3. \A h \in Handlers : \A e : Finished(h, e) => Contains(seen[h], e)
    <3> TAKE h \in Handlers
    <3>1. seen[h] \in Seq(Events)
          BY <2>1
    <3> QED BY <3>1 DEF Finished, Contains
  <2>4. AcceptedReachesEveryHandler
        BY <2>1, <2>2, <2>3 DEF BusInv, Accounted, AcceptedReachesEveryHandler
  <2> QED BY <2>4 DEF BusInv, DeliversInOrder
<1> QED BY <1>1, BusInitially, BusStep, PTL DEF BusSpec
-----------------------------------------------------------------------------
(* BatchOrders: where an order is, and how often the exchange took it.     *)

Holds(q, o) == \E i \in DOMAIN q : q[i] = o
Rising(q) == \A i, j \in DOMAIN q : i < j => q[i] < q[j]

Flush == [at : {"idle", "submitting", "pausing"}, batch : Seq(Orders), asked : Nat, ids : SUBSET Orders]

BatchTypes ==
    /\ client \in {"batch", "single", "dry_run"}
    /\ pending \in Seq(Orders) /\ added \in 0..MaxOrders
    /\ flusher \in [Flushers -> Flush]
    /\ totals \in [submitted : Int, succeeded : Int, failed : Int]
    /\ cleared \subseteq Orders /\ reported \subseteq Orders
    /\ live \in [Orders -> Nat]

\* Queue and batches are in the order of addition; nothing is in them that was not added.
Lined ==
    /\ Rising(pending) /\ \A f \in Flushers : Rising(flusher[f].batch)
    /\ \A o \in Orders :
         \/ Holds(pending, o)
         \/ o \in cleared \cup reported
         \/ \E f \in Flushers : Holds(flusher[f].batch, o)
         => o <= added

\* An order is pending, in one batch, cleared or reported, never two of them.
Apart ==
    /\ \A o \in Orders : Holds(pending, o) => o \notin cleared \cup reported
    /\ \A f \in Flushers, o \in Orders : Holds(flusher[f].batch, o) =>
         /\ ~ Holds(pending, o) /\ o \notin cleared \cup reported
         /\ \A g \in Flushers \ {f} : ~ Holds(flusher[g].batch, o)

\* The exchange took nothing that was not asked for, and nothing twice.
Sent ==
    /\ \A o \in Orders : live[o] <= 1
    /\ \A o \in Orders : o > added \/ Holds(pending, o) \/ o \in cleared => live[o] = 0
    /\ \A f \in Flushers :
         \A i \in DOMAIN flusher[f].batch : i > flusher[f].asked => live[flusher[f].batch[i]] = 0

Counted ==
    /\ totals.submitted = totals.succeeded + totals.failed
    /\ totals.submitted = Cardinality(reported)

BatchInv == BatchTypes /\ Lined /\ Apart /\ Sent /\ Counted

\* A manager starts with nothing pending (BatchOrderManager.__init__).
LEMMA BatchInitially == BatchInit => BatchInv
<1> SUFFICES ASSUME BatchInit PROVE BatchInv
    OBVIOUS
<1>1. /\ client \in {"batch", "single", "dry_run"} /\ pending = <<>> /\ DOMAIN pending = {} /\ added = 0
      /\ flusher = [f \in Flushers |-> NoBatch]
      /\ totals = [submitted |-> 0, succeeded |-> 0, failed |-> 0]
      /\ cleared = {} /\ reported = {} /\ live = [o \in Orders |-> 0]
      BY DEF BatchInit
<1>2. NoBatch \in Flush /\ NoBatch.batch = <<>> /\ NoBatch.asked = 0
      BY DEF NoBatch, Flush
<1>3. /\ flusher \in [Flushers -> Flush]
      /\ \A f \in Flushers : flusher[f].batch = <<>> /\ flusher[f].asked = 0 /\ DOMAIN flusher[f].batch = {}
      BY <1>1, <1>2
<1>4. BatchTypes
      BY <1>1, <1>3, BatchAssumption DEF BatchTypes
<1>5. Lined /\ Apart
      BY <1>1, <1>3 DEF Lined, Apart, Rising, Holds
<1>6. Sent
      BY <1>1, <1>3 DEF Sent, Holds
<1>7. Counted
      BY <1>1, FS_EmptySet DEF Counted
<1> QED BY <1>4, <1>5, <1>6, <1>7 DEF BatchInv

\* A rising list of orders has as many members as places.
LEMMA RisingCardinality ==
    ASSUME NEW q \in Seq(Orders), Rising(q)
    PROVE  IsFiniteSet(ToSet(q)) /\ Cardinality(ToSet(q)) = Len(q)
<1> DEFINE n == Len(q)
<1>1. n \in Nat /\ DOMAIN q = 1..n /\ Orders \subseteq Int /\ \A i \in 1..n : q[i] \in Int
      BY BatchAssumption DEF Orders
<1>2. IsFiniteSet(1..n) /\ Cardinality(1..n) = n
      BY <1>1, FS_Interval
<1>3. q \in [1..n -> ToSet(q)]
      BY <1>1 DEF ToSet
<1>4. \A i, j \in 1..n : q[i] = q[j] => i = j
      BY <1>1 DEF Rising
<1>5. \A o \in ToSet(q) : \E i \in 1..n : q[i] = o
      BY <1>1 DEF ToSet
<1>6. ExistsBijection(1..n, ToSet(q))
  <2> HIDE DEF n
  <2> QED BY <1>3, <1>4, <1>5 DEF ExistsBijection, Bijection, Injection, Surjection, IsInjective
<1> QED BY <1>2, <1>6, FS_Bijection

\* What an added order's number is, and that a queue and a batch are lists of numbers.
LEMMA BatchShapes ==
    ASSUME BatchInv
    PROVE  /\ added \in Nat /\ MaxOrders \in Nat /\ added <= MaxOrders
           /\ \A o \in Orders : o \in Nat /\ o > 0
           /\ pending \in Seq(Orders) /\ DOMAIN pending = 1..Len(pending) /\ Len(pending) \in Nat
           /\ \A i \in DOMAIN pending : pending[i] \in Orders
           /\ \A f \in Flushers :
                /\ flusher[f] \in Flush /\ flusher[f].batch \in Seq(Orders) /\ flusher[f].asked \in Nat
                /\ DOMAIN flusher[f].batch = 1..Len(flusher[f].batch) /\ Len(flusher[f].batch) \in Nat
                /\ \A i \in DOMAIN flusher[f].batch : flusher[f].batch[i] \in Orders
<1>1. pending \in Seq(Orders) /\ added \in 0..MaxOrders /\ flusher \in [Flushers -> Flush]
      BY DEF BatchInv, BatchTypes
<1>2. \A f \in Flushers : flusher[f] \in Flush /\ flusher[f].batch \in Seq(Orders) /\ flusher[f].asked \in Nat
      BY <1>1 DEF Flush
<1>3. \A q \in Seq(Orders) : DOMAIN q = 1..Len(q) /\ Len(q) \in Nat /\ \A i \in DOMAIN q : q[i] \in Orders
      OBVIOUS
<1>4. added \in Nat /\ MaxOrders \in Nat /\ added <= MaxOrders /\ \A o \in Orders : o \in Nat /\ o > 0
      BY <1>1, BatchAssumption DEF Orders
<1> QED BY <1>1, <1>2, <1>3, <1>4

\* A coroutine without a batch holds nothing.
LEMMA NoBatchHolds ==
    /\ NoBatch \in Flush /\ NoBatch.batch = <<>>
    /\ \A at \in {"idle", "submitting", "pausing"} :
         [NoBatch EXCEPT !.at = at] \in Flush /\ [NoBatch EXCEPT !.at = at].batch = <<>>
<1>1. NoBatch \in Flush /\ NoBatch.batch = <<>>
      BY DEF NoBatch, Flush
<1>2. \A b \in Flush, at \in {"idle", "submitting", "pausing"} :
        [b EXCEPT !.at = at] \in Flush /\ [b EXCEPT !.at = at].batch = b.batch
      BY DEF Flush
<1> QED BY <1>1, <1>2

\* A step that only ends what a coroutine was doing keeps orders apart.
LEMMA EndKeeps ==
    ASSUME BatchInv, NEW f \in Flushers, NEW b \in Flush, b.batch = <<>>,
           flusher' = [flusher EXCEPT ![f] = b],
           UNCHANGED <<client, pending, added, totals, cleared, reported, live>>
    PROVE  BatchInv'
<1>1. BatchTypes /\ Lined /\ Apart /\ Sent /\ Counted
      BY DEF BatchInv
<1>2. \A g \in Flushers : \/ flusher'[g] = flusher[g]
                          \/ flusher'[g].batch = <<>> /\ DOMAIN flusher'[g].batch = {}
      BY <1>1 DEF BatchTypes
<1>3. BatchTypes'
      BY <1>1 DEF BatchTypes
<1>4. Lined' /\ Apart'
  <2>1. \A g \in Flushers : \A o : Holds(flusher'[g].batch, o) => Holds(flusher[g].batch, o)
        BY <1>2 DEF Holds
  <2>2. \A g \in Flushers : Rising(flusher'[g].batch)
        BY <1>1, <1>2 DEF Rising, Lined
  <2>3. Lined'
        BY <1>1, <2>1, <2>2 DEF Lined
  <2> QED BY <1>1, <2>1, <2>3 DEF Apart
<1>5. Sent'
      BY <1>1, <1>2 DEF Sent
<1>6. Counted'
      BY <1>1 DEF Counted
<1> QED BY <1>3, <1>4, <1>5, <1>6 DEF BatchInv

\* A new order is the greatest number, and queued last (add).
LEMMA QueueKeeps == ASSUME BatchInv, AddOrder PROVE BatchInv'
<1> DEFINE n == Len(pending)
           x == added + 1
<1>1. BatchTypes /\ Lined /\ Apart /\ Sent /\ Counted
      BY DEF BatchInv
<1>2. /\ added < MaxOrders /\ added' = x /\ pending' = Append(pending, x)
      /\ UNCHANGED <<client, flusher, totals, cleared, reported, live>>
      BY DEF AddOrder
<1>3. x \in Orders /\ x > added
      BY <1>2, BatchShapes DEF Orders
<1>4. /\ pending \in Seq(Orders) /\ n \in Nat /\ DOMAIN pending = 1..n
      /\ pending' \in Seq(Orders) /\ DOMAIN pending' = 1..(n + 1)
      /\ pending'[n + 1] = x /\ \A i \in 1..n : pending'[i] = pending[i]
      BY <1>2, <1>3, BatchShapes
<1> HIDE DEF n
<1>5. \A o : Holds(pending', o) <=> Holds(pending, o) \/ o = x
      BY <1>4 DEF Holds
<1>6. BatchTypes'
      BY <1>1, <1>2, <1>3, <1>4 DEF BatchTypes, Orders
<1>7. \A i \in 1..n : pending[i] \in Orders /\ pending[i] <= added
      BY <1>1, <1>4, BatchShapes DEF Lined, Holds
<1>8. Rising(pending')
  <2> SUFFICES ASSUME NEW i \in DOMAIN pending', NEW j \in DOMAIN pending', i < j
               PROVE  pending'[i] < pending'[j]
      BY DEF Rising
  <2>1. i \in 1..n
        BY <1>4
  <2>2. CASE j = n + 1
        BY <1>3, <1>4, <1>7, <2>1, <2>2, BatchShapes
  <2>3. CASE j \in 1..n
        BY <1>1, <1>4, <2>1, <2>3 DEF Lined, Rising
  <2> QED BY <1>4, <2>2, <2>3
<1> HIDE DEF x
<1>9. \A o \in Orders : o <= added => o <= x /\ o # x
      BY <1>3, BatchShapes
<1>10. Lined'
      BY <1>1, <1>2, <1>3, <1>5, <1>8, <1>9, BatchShapes DEF Lined
<1>11. Apart'
  <2>1. x \notin cleared \cup reported /\ \A f \in Flushers : ~ Holds(flusher[f].batch, x)
        BY <1>1, <1>3, <1>9 DEF Lined
  <2> QED BY <1>1, <1>2, <1>5, <2>1 DEF Apart
<1>12. Sent'
  <2>1. live[x] = 0
        BY <1>1, <1>3 DEF Sent
  <2>2. \A o \in Orders : o > x => o > added
        BY <1>3, BatchShapes
  <2>3. \A o \in Orders : o > x \/ Holds(pending', o) \/ o \in cleared => live[o] = 0
        BY <1>1, <1>5, <2>1, <2>2 DEF Sent
  <2> QED BY <1>1, <1>2, <2>3 DEF Sent
<1>13. Counted'
      BY <1>1, <1>2 DEF Counted
<1> QED BY <1>6, <1>10, <1>11, <1>12, <1>13 DEF BatchInv

\* What is pending is forgotten, unsent (clear).
LEMMA ClearKeeps == ASSUME BatchInv, ClearPending PROVE BatchInv'
<1>1. BatchTypes /\ Lined /\ Apart /\ Sent /\ Counted
      BY DEF BatchInv
<1>2. /\ cleared' = cleared \cup ToSet(pending) /\ pending' = <<>> /\ DOMAIN pending' = {}
      /\ UNCHANGED <<client, added, flusher, totals, reported, live>>
      BY DEF ClearPending
<1>3. \A o : (o \in ToSet(pending)) <=> Holds(pending, o)
      BY DEF ToSet, Holds
<1>4. ToSet(pending) \subseteq Orders /\ \A o : ~ Holds(pending', o)
      BY <1>2, BatchShapes DEF ToSet, Holds
<1>5. BatchTypes'
      BY <1>1, <1>2, <1>4 DEF BatchTypes
<1>6. Lined'
      BY <1>1, <1>2, <1>3, <1>4 DEF Lined, Rising
<1>7. Apart' /\ Sent' /\ Counted'
      BY <1>1, <1>2, <1>3, <1>4 DEF Apart, Sent, Counted
<1> QED BY <1>5, <1>6, <1>7 DEF BatchInv

\* The head of the queue becomes the batch, before anything is awaited (flush).
LEMMA TakeBatchKeeps == ASSUME BatchInv, NEW f \in Flushers, TakeBatch(f) PROVE BatchInv'
<1> DEFINE n == Len(pending)
           m == IF n < BatchSize THEN n ELSE BatchSize
           b == FirstBatch
           taken == [NoBatch EXCEPT !.at = "submitting", !.batch = b]
<1>1. BatchTypes /\ Lined /\ Apart /\ Sent /\ Counted
      BY DEF BatchInv
<1>2. /\ flusher' = [flusher EXCEPT ![f] = taken] /\ pending' = Remaining
      /\ UNCHANGED <<client, added, totals, cleared, reported, live>>
      BY DEF TakeBatch
<1>3. /\ pending \in Seq(Orders) /\ n \in Nat /\ m \in 0..n /\ DOMAIN pending = 1..n
      BY BatchShapes, BatchAssumption
<1>4. /\ b \in Seq(Orders) /\ Len(b) = m /\ DOMAIN b = 1..m /\ \A i \in 1..m : b[i] = pending[i]
      BY <1>3 DEF FirstBatch
<1> HIDE DEF m
<1>5. /\ pending' \in Seq(Orders) /\ DOMAIN pending' = 1..(n - m)
      /\ \A i \in 1..(n - m) : pending'[i] = pending[m + i]
  <2>1. pending' = SubSeq(pending, m + 1, n)
        BY <1>2, <1>4 DEF Remaining
  <2> HIDE DEF b
  <2>2. m + 1 \in 1..(n + 1) /\ n \in Nat
        BY <1>3
  <2> QED BY <1>3, <2>1, <2>2
<1> HIDE DEF n, b
<1>6. /\ taken \in Flush /\ taken.batch = b /\ taken.asked = 0
      BY <1>4 DEF NoBatch, Flush
<1>7. /\ flusher'[f] = taken /\ \A g \in Flushers \ {f} : flusher'[g] = flusher[g]
      BY <1>1, <1>2 DEF BatchTypes
<1> HIDE DEF taken
<1>8. BatchTypes'
      BY <1>1, <1>2, <1>5, <1>6 DEF BatchTypes
<1>9. /\ \A o : Holds(b, o) => Holds(pending, o) /\ ~ Holds(pending', o)
      /\ \A o : Holds(pending', o) => Holds(pending, o)
  <2>1. \A i \in 1..m : i \in 1..n /\ b[i] = pending[i]
        BY <1>3, <1>4
  <2>2. \A i \in 1..(n - m) : m + i \in 1..n /\ pending'[i] = pending[m + i]
        BY <1>3, <1>5
  <2>3. \A i \in 1..m, j \in 1..(n - m) : i < m + j
        BY <1>3
  <2>4. \A i \in 1..m, j \in 1..(n - m) : pending[i] < pending[m + j]
        BY <1>1, <1>3, <2>1, <2>2, <2>3 DEF Lined, Rising
  <2>5. \A i \in 1..m, j \in 1..(n - m) : pending[i] # pending[m + j]
    <3> SUFFICES ASSUME NEW i \in 1..m, NEW j \in 1..(n - m)
                 PROVE  pending[i] # pending[m + j]
        OBVIOUS
    <3>1. pending[i] \in Nat /\ pending[m + j] \in Nat
          BY <1>3, <2>1, <2>2, BatchShapes
    <3>2. pending[i] < pending[m + j]
          BY <2>4
    <3> QED BY <3>1, <3>2
  <2>6. ASSUME NEW o, Holds(b, o) PROVE Holds(pending, o) /\ ~ Holds(pending', o)
    <3>1. PICK i \in 1..m : b[i] = o
          BY <1>4, <2>6 DEF Holds
    <3>2. Holds(pending, o)
          BY <1>3, <2>1, <3>1 DEF Holds
    <3>3. ASSUME NEW j \in 1..(n - m), pending'[j] = o PROVE FALSE
          BY <2>1, <2>2, <2>5, <3>1, <3>3
    <3>4. ~ Holds(pending', o)
          BY <1>5, <3>3 DEF Holds
    <3> QED BY <3>2, <3>4
  <2>7. ASSUME NEW o, Holds(pending', o) PROVE Holds(pending, o)
    <3>1. PICK j \in 1..(n - m) : pending'[j] = o
          BY <1>5, <2>7 DEF Holds
    <3> QED BY <1>3, <2>2, <3>1 DEF Holds
  <2> QED BY <2>6, <2>7
<1>10. Rising(b) /\ Rising(pending')
  <2>1. Rising(b)
        BY <1>1, <1>3, <1>4 DEF Lined, Rising
  <2>2. Rising(pending')
    <3> SUFFICES ASSUME NEW i \in 1..(n - m), NEW j \in 1..(n - m), i < j
                 PROVE  pending'[i] < pending'[j]
        BY <1>5 DEF Rising
    <3>1. m + i \in 1..n /\ m + j \in 1..n /\ m + i < m + j
          BY <1>3
    <3> QED BY <1>1, <1>3, <1>5, <3>1 DEF Lined, Rising
  <2> QED BY <2>1, <2>2
<1>11. Lined'
  <2>1. \A g \in Flushers : Rising(flusher'[g].batch)
        BY <1>1, <1>6, <1>7, <1>10 DEF Lined
  <2>2. \A o \in Orders : Holds(pending', o) \/ (\E g \in Flushers : Holds(flusher'[g].batch, o))
          => o <= added
        BY <1>1, <1>6, <1>7, <1>9 DEF Lined
  <2> QED BY <1>1, <1>2, <1>10, <2>1, <2>2 DEF Lined
<1>12. Apart'
      BY <1>1, <1>2, <1>6, <1>7, <1>9 DEF Apart
<1>13. Sent'
  <2>1. \A i \in DOMAIN b : live[b[i]] = 0
        BY <1>1, <1>3, <1>4, <1>9, BatchShapes DEF Sent, Holds
  <2> QED BY <1>1, <1>2, <1>6, <1>7, <1>9, <2>1 DEF Sent
<1>14. Counted'
      BY <1>1, <1>2 DEF Counted
<1> QED BY <1>8, <1>11, <1>12, <1>13, <1>14 DEF BatchInv

\* The exchange takes orders it was not asked for before, from one batch (_submit_batch).
LEMMA PostKeeps ==
    ASSUME BatchInv, NEW f \in Flushers, NEW accepted \in SUBSET Orders,
           NEW n \in Nat, NEW ids \in SUBSET Orders,
           live' = Took(accepted), flusher' = [flusher EXCEPT ![f].asked = n, ![f].ids = ids],
           UNCHANGED <<client, pending, added, totals, cleared, reported>>,
           \A o \in accepted : \E i \in DOMAIN flusher[f].batch :
             i > flusher[f].asked /\ i <= n /\ flusher[f].batch[i] = o,
           flusher[f].asked <= n
    PROVE  BatchInv'
<1>1. BatchTypes /\ Lined /\ Apart /\ Sent /\ Counted
      BY DEF BatchInv
<1>2. /\ \A o \in accepted : live[o] = 0 /\ Holds(flusher[f].batch, o)
      BY <1>1 DEF Sent, Holds
<1>3. /\ live' \in [Orders -> Nat]
      /\ \A o \in Orders \ accepted : live'[o] = live[o]
      /\ \A o \in accepted : live'[o] = 1
      BY <1>1, <1>2 DEF Took, BatchTypes
<1>4. /\ flusher' \in [Flushers -> Flush]
      /\ \A g \in Flushers : flusher'[g].batch = flusher[g].batch
      /\ \A g \in Flushers \ {f} : flusher'[g] = flusher[g]
      /\ flusher'[f].asked = n
  <2> DEFINE b == [flusher[f] EXCEPT !.asked = n, !.ids = ids]
  <2>1. flusher[f] \in Flush /\ flusher \in [Flushers -> Flush]
        BY <1>1 DEF BatchTypes
  <2>2. b \in Flush /\ b.batch = flusher[f].batch /\ b.asked = n
        BY <2>1 DEF Flush
  <2>3. flusher' = [flusher EXCEPT ![f] = b]
        BY <2>1
  <2> HIDE DEF b
  <2>4. flusher' \in [Flushers -> Flush]
        BY <2>1, <2>2, <2>3
  <2>5. flusher'[f] = b /\ \A g \in Flushers \ {f} : flusher'[g] = flusher[g]
        BY <2>1, <2>3
  <2> QED BY <2>2, <2>4, <2>5
<1>5. BatchTypes'
      BY <1>1, <1>3, <1>4 DEF BatchTypes
<1>6. Lined' /\ Apart' /\ Counted'
      BY <1>1, <1>4 DEF Lined, Apart, Counted
<1>7. Sent'
  <2>1. \A o \in Orders : live'[o] <= 1
        BY <1>1, <1>3 DEF Sent
  <2>2. \A o \in accepted : ~ Holds(pending, o) /\ o \notin cleared /\ ~ (o > added)
    <3>1. \A o \in accepted : ~ Holds(pending, o) /\ o \notin cleared /\ o <= added
          BY <1>1, <1>2 DEF Apart, Lined
    <3>2. \A o \in accepted : o \in Nat
          BY BatchShapes
    <3> QED BY <3>1, <3>2, BatchShapes
  <2>3. \A o \in Orders : o > added \/ Holds(pending, o) \/ o \in cleared => live'[o] = 0
        BY <1>1, <1>3, <2>2 DEF Sent
  <2>4. ASSUME NEW g \in Flushers, NEW i \in DOMAIN flusher[g].batch, i > flusher'[g].asked
        PROVE  live'[flusher[g].batch[i]] = 0
    <3> DEFINE o == flusher[g].batch[i]
    <3>1. o \in Orders /\ Holds(flusher[g].batch, o) /\ i \in Nat
          BY BatchShapes DEF Holds
    <3>2. CASE g # f
      <4>1. o \notin accepted
            BY <1>1, <1>2, <3>1, <3>2 DEF Apart
      <4> QED BY <1>1, <1>3, <1>4, <2>4, <3>1, <3>2, <4>1 DEF Sent
    <3>3. CASE g = f
      <4>1. i > n /\ i > flusher[f].asked
            BY <1>4, <2>4, <3>1, <3>3, BatchShapes
      <4>2. ASSUME o \in accepted PROVE FALSE
        <5>1. PICK j \in DOMAIN flusher[f].batch : j <= n /\ flusher[f].batch[j] = o
              BY <4>2
        <5>2. j \in Nat /\ j < i
          <6>1. j \in Nat
                BY <5>1, BatchShapes
          <6> QED BY <3>1, <4>1, <5>1, <6>1
        <5>3. flusher[f].batch[j] < flusher[f].batch[i]
              BY <1>1, <3>3, <5>1, <5>2 DEF Lined, Rising
        <5> QED BY <3>1, <3>3, <5>1, <5>3, BatchShapes
      <4> QED BY <1>1, <1>3, <3>1, <3>3, <4>1, <4>2 DEF Sent
    <3> QED BY <3>2, <3>3
  <2> QED BY <1>4, <2>1, <2>3, <2>4 DEF Sent
<1> QED BY <1>5, <1>6, <1>7 DEF BatchInv

\* The batch is answered for: its totals, once for each of its orders (_submit_batch).
LEMMA ReportKeeps == ASSUME BatchInv, NEW f \in Flushers, ReportBatch(f) PROVE BatchInv'
<1> DEFINE b == flusher[f].batch
           k == IF client = "dry_run" THEN Len(b) ELSE Cardinality(flusher[f].ids)
           ended == [NoBatch EXCEPT !.at = IF pending = <<>> THEN "idle" ELSE "pausing"]
<1>1. BatchTypes /\ Lined /\ Apart /\ Sent /\ Counted
      BY DEF BatchInv
<1>2. /\ totals' = [submitted |-> totals.submitted + Len(b), succeeded |-> totals.succeeded + k,
                    failed |-> totals.failed + Len(b) - k]
      /\ reported' = reported \cup ToSet(b) /\ flusher' = [flusher EXCEPT ![f] = ended]
      /\ UNCHANGED <<client, pending, added, cleared, live>>
      BY DEF ReportBatch
<1>3. IsFiniteSet(Orders)
      BY BatchAssumption, FS_Interval DEF Orders
<1>4. /\ Len(b) \in Nat /\ k \in Int
      /\ totals.submitted \in Int /\ totals.succeeded \in Int /\ totals.failed \in Int
  <2>1. Len(b) \in Nat /\ flusher[f].ids \in SUBSET Orders
        BY BatchShapes DEF Flush
  <2>2. Cardinality(flusher[f].ids) \in Nat
        BY <1>3, <2>1, FS_Subset, FS_CardinalityType
  <2> QED BY <1>1, <2>1, <2>2 DEF BatchTypes
<1>5. ended \in Flush /\ ended.batch = <<>>
      BY NoBatchHolds
<1>6. /\ b \in Seq(Orders) /\ \A o : (o \in ToSet(b)) <=> Holds(b, o)
      BY BatchShapes DEF ToSet, Holds
<1>7. ToSet(b) \subseteq Orders
      BY BatchShapes DEF ToSet
<1> HIDE DEF k, ended
<1>8. \A g \in Flushers : \/ g # f /\ flusher'[g] = flusher[g]
                          \/ g = f /\ flusher'[g].batch = <<>> /\ DOMAIN flusher'[g].batch = {}
      BY <1>1, <1>2, <1>5 DEF BatchTypes
<1>9. BatchTypes'
  <2>1. totals' \in [submitted : Int, succeeded : Int, failed : Int]
        BY <1>2, <1>4
  <2> QED BY <1>1, <1>2, <1>5, <1>7, <2>1 DEF BatchTypes
<1>10. /\ \A g \in Flushers : \A o : Holds(flusher'[g].batch, o) => g # f /\ Holds(flusher[g].batch, o)
       /\ \A g \in Flushers : Rising(flusher'[g].batch)
      BY <1>1, <1>8 DEF Holds, Rising, Lined
<1>11. Lined'
      BY <1>1, <1>2, <1>6, <1>10 DEF Lined
<1>12. Apart'
      BY <1>1, <1>2, <1>6, <1>10 DEF Apart
<1>13. Sent'
      BY <1>1, <1>2, <1>8 DEF Sent
<1>14. Counted'
  <2>1. IsFiniteSet(ToSet(b)) /\ Cardinality(ToSet(b)) = Len(b)
        BY <1>1, <1>6, RisingCardinality DEF Lined
  <2>2. IsFiniteSet(reported)
        BY <1>1, <1>3, FS_Subset DEF BatchTypes
  <2>3. reported \cap ToSet(b) = {}
        BY <1>1, <1>6, <1>7 DEF Apart
  <2>4. Cardinality(reported \cup ToSet(b))
          = Cardinality(reported) + Cardinality(ToSet(b)) - Cardinality(reported \cap ToSet(b))
        BY <2>1, <2>2, FS_Union
  <2>5. Cardinality(reported \cap ToSet(b)) = 0 /\ Cardinality(reported) \in Nat
        BY <2>2, <2>3, FS_EmptySet, FS_CardinalityType
  <2>6. Cardinality(reported') = Cardinality(reported) + Len(b)
        BY <1>2, <1>4, <2>1, <2>4, <2>5
  <2>7. totals'.submitted = totals.submitted + Len(b) /\ totals'.succeeded = totals.succeeded + k
        /\ totals'.failed = totals.failed + Len(b) - k
        BY <1>2
  <2> HIDE DEF b
  <2> QED BY <1>1, <1>4, <2>5, <2>6, <2>7 DEF Counted
<1> QED BY <1>9, <1>11, <1>12, <1>13, <1>14 DEF BatchInv

\* Every addition, clearing, flush, answer, timeout and cancellation keeps orders apart.
LEMMA BatchStep == BatchInv /\ [BatchNext]_batchVars => BatchInv'
<1> SUFFICES ASSUME BatchInv, [BatchNext]_batchVars PROVE BatchInv'
    OBVIOUS
<1>1. ASSUME NEW f \in Flushers, PostBatch(f) PROVE BatchInv'
  <2> DEFINE b == flusher[f].batch
  <2>1. PICK accepted \in SUBSET ToSet(b), answered \in BOOLEAN :
          /\ live' = Took(accepted)
          /\ flusher' = [flusher EXCEPT ![f].asked = Len(b), ![f].ids = IF answered THEN accepted ELSE {}]
        BY <1>1 DEF PostBatch
  <2>2. flusher[f].asked = 0 /\ UNCHANGED <<client, pending, added, totals, cleared, reported>>
        BY <1>1 DEF PostBatch
  <2>3. /\ Len(b) \in Nat /\ DOMAIN b = 1..Len(b) /\ ToSet(b) \subseteq Orders
        BY BatchShapes DEF ToSet
  <2>4. \A o \in accepted : \E i \in DOMAIN b : i > 0 /\ i <= Len(b) /\ b[i] = o
        BY <2>1, <2>3 DEF ToSet
  <2> DEFINE ids == IF answered THEN accepted ELSE {}
  <2>5. accepted \in SUBSET Orders /\ ids \in SUBSET Orders
        BY <2>3
  <2>6. flusher' = [flusher EXCEPT ![f].asked = Len(b), ![f].ids = ids]
        BY <2>1
  <2> DEFINE n == Len(b)
  <2>7. /\ n \in Nat /\ flusher[f].asked <= n
        /\ \A o \in accepted : \E i \in DOMAIN flusher[f].batch :
             i > flusher[f].asked /\ i <= n /\ flusher[f].batch[i] = o
        BY <2>2, <2>3, <2>4
  <2>8. live' = Took(accepted) /\ flusher' = [flusher EXCEPT ![f].asked = n, ![f].ids = ids]
        BY <2>1, <2>6
  <2> HIDE DEF ids, n
  <2> QED BY <2>2, <2>5, <2>7, <2>8, PostKeeps
<1>2. ASSUME NEW f \in Flushers, PostNext(f) PROVE BatchInv'
  <2> DEFINE b == flusher[f].batch
             n == flusher[f].asked + 1
             o == b[n]
  <2>1. PICK accepted \in SUBSET {o}, answered \in BOOLEAN :
          /\ live' = Took(accepted)
          /\ flusher' = [flusher EXCEPT ![f].asked = @ + 1,
                                        ![f].ids = IF answered THEN @ \cup accepted ELSE @]
        BY <1>2 DEF PostNext
  <2>2. flusher[f].asked < Len(b) /\ UNCHANGED <<client, pending, added, totals, cleared, reported>>
        BY <1>2 DEF PostNext
  <2>3. /\ n \in Nat /\ n \in DOMAIN b /\ o \in Orders /\ n > flusher[f].asked
        /\ flusher[f].ids \in SUBSET Orders
        BY <2>2, BatchShapes DEF Flush
  <2> DEFINE ids == IF answered THEN flusher[f].ids \cup accepted ELSE flusher[f].ids
  <2>4. accepted \in SUBSET Orders /\ ids \in SUBSET Orders
        BY <2>3
  <2>5. flusher' = [flusher EXCEPT ![f].asked = n, ![f].ids = ids]
        BY <2>1
  <2>6. \A x \in accepted : \E i \in DOMAIN b : i > flusher[f].asked /\ i <= n /\ b[i] = x
    <3>1. n > flusher[f].asked /\ n <= n /\ n \in DOMAIN b
          BY <2>3
    <3> QED BY <3>1
  <2>7. n \in Nat /\ flusher[f].asked <= n
        BY <2>3, BatchShapes
  <2>8. /\ live' = Took(accepted)
        /\ UNCHANGED <<client, pending, added, totals, cleared, reported>>
        BY <2>1, <2>2
  <2>9. \A x \in accepted : \E i \in DOMAIN flusher[f].batch :
          i > flusher[f].asked /\ i <= n /\ flusher[f].batch[i] = x
        BY <2>6
  <2> HIDE DEF ids, n, o
  <2> QED BY <2>4, <2>5, <2>7, <2>8, <2>9, PostKeeps
<1>3. ASSUME NEW f \in Flushers, EndFlush(f) PROVE BatchInv'
      BY <1>3, NoBatchHolds, EndKeeps DEF EndFlush
<1>4. ASSUME NEW f \in Flushers, CancelFlush(f) PROVE BatchInv'
      BY <1>4, NoBatchHolds, EndKeeps DEF CancelFlush
<1>5. CASE UNCHANGED batchVars
      BY <1>5 DEF batchVars, BatchInv, BatchTypes, Lined, Apart, Sent, Counted
<1> QED BY <1>1, <1>2, <1>3, <1>4, <1>5, QueueKeeps, ClearKeeps, TakeBatchKeeps, ReportKeeps DEF BatchNext

\* For any number of coroutines, batch size and orders: the exchange takes no order twice, nor
\* one that is pending or was cleared, and each reported order is counted once (flush,
\* flush_if_full, add, clear, _submit_batch).
THEOREM BatchesSendOnce == BatchSpec => []NoOrderIsSentTwice
<1>1. BatchInv => NoOrderIsSentTwice
  <2> SUFFICES ASSUME BatchInv PROVE NoOrderIsSentTwice
      OBVIOUS
  <2>1. \A o \in ToSet(pending) : o \in Orders /\ Holds(pending, o)
        BY BatchShapes DEF ToSet, Holds
  <2>2. cleared \subseteq Orders
        BY DEF BatchInv, BatchTypes
  <2> QED BY <2>1, <2>2 DEF BatchInv, Sent, Counted, NoOrderIsSentTwice
<1> QED BY <1>1, BatchInitially, BatchStep, PTL DEF BatchSpec

-----------------------------------------------------------------------------
(* What each component keeps of its declared types beside its invariant.   *)

\* A level of a message has a least price, if it has any.
LEMMA LeastPrice ==
  ASSUME NEW u, u \subseteq Nat, u # {}
  PROVE  \E m \in u : \A x \in u : m <= x
<1> SUFFICES ASSUME \A m \in u : \E x \in u : x < m PROVE FALSE
  OBVIOUS
<1> DEFINE T == {n \in Nat : \A x \in u : n <= x}
<1>1. 0 \in T
  OBVIOUS
<1>2. \A n \in Nat : n \in T => n + 1 \in T
  <2> SUFFICES ASSUME NEW n \in T, NEW x \in u PROVE n + 1 <= x
    OBVIOUS
  <2>1. PICK y \in u : y < x
    OBVIOUS
  <2> QED
    BY <2>1
<1> HIDE DEF T
<1>3. \A n \in Nat : n \in T
  BY <1>1, <1>2, CountingUp
<1>4. PICK m \in u : TRUE
  OBVIOUS
<1>5. m + 1 \in T
  BY <1>3, <1>4
<1> QED
  BY <1>4, <1>5 DEF T

\* _parse_levels: a side of a message can be put in order.
LEMMA LevelsAreSorted ==
  ASSUME NEW levels \in SUBSET Prices
  PROVE  ParseLevels(levels) \in Seq(1..99)
<1> DEFINE Down(s) == \A i, j \in DOMAIN s : i < j => s[i] > s[j]
           L == levels \ {0}
           T == {u \in SUBSET L : \E s \in [1..Cardinality(u) -> u] : Down(s)}
<1>1. L \subseteq 1..99
  BY WsAssumption
<1>2. IsFiniteSet(L)
  <2>1. 1 \in Int /\ 99 \in Int
    OBVIOUS
  <2>2. IsFiniteSet(1..99)
    BY <2>1, FS_Interval
  <2> QED
    BY <1>1, <2>2, FS_Subset
<1> HIDE DEF L
<1>3. ASSUME NEW u \in SUBSET L, \A x \in u : u \ {x} \in T PROVE u \in T
  <2>0. IsFiniteSet(u) /\ Cardinality(u) \in Nat
    BY <1>2, FS_Subset, FS_CardinalityType
  <2>1. CASE u = {}
    <3>1. Cardinality(u) = 0 /\ 1..0 = {}
      BY <2>1, FS_EmptySet
    <3> DEFINE s == [i \in {} |-> 0]
    <3>2. s \in [1..Cardinality(u) -> u] /\ DOMAIN s = {}
      BY <3>1
    <3> QED
      BY <3>2
  <2>2. CASE u # {}
    <3>1. PICK m \in u : \A x \in u : m <= x
      <4>1. u \subseteq Nat
        BY <1>1
      <4> QED
        BY <2>2, <4>1, LeastPrice
    <3>2. PICK s \in [1..Cardinality(u \ {m}) -> u \ {m}] : Down(s)
      BY <1>3, <3>1
    <3> DEFINE n == Cardinality(u \ {m})
    <3>3. n = Cardinality(u) - 1
      BY <2>0, <3>1, FS_RemoveElement
    <3>4. n \in Nat /\ Cardinality(u) = n + 1
      <4>1. IsFiniteSet(u \ {m})
        BY <2>0, FS_RemoveElement
      <4>2. n \in Nat
        BY <4>1, FS_CardinalityType
      <4> QED
        BY <2>0, <3>3, <4>2
    <3> DEFINE r == [i \in 1..n + 1 |-> IF i <= n THEN s[i] ELSE m]
    <3>5. s \in [1..n -> u \ {m}]
      BY <3>2
    <3> HIDE DEF n
    <3>9. \A i \in 1..n + 1 : i <= n => i \in 1..n
      BY <3>4
    <3>10. \A i \in 1..n : s[i] \in u /\ s[i] # m
      BY <3>5
    <3>6. r \in [1..n + 1 -> u]
      <4>1. \A i \in 1..n + 1 : i <= n => s[i] \in u
        BY <3>9, <3>10
      <4> QED
        BY <3>1, <4>1
    <3>7. \A i, j \in 1..n + 1 : i < j => r[i] > r[j]
      <4> SUFFICES ASSUME NEW i \in 1..n + 1, NEW j \in 1..n + 1, i < j PROVE r[i] > r[j]
        OBVIOUS
      <4>1. i \in 1..n /\ r[i] = s[i] /\ s[i] \in u /\ s[i] # m /\ s[i] \in Int /\ m \in Int
        <5>1. i \in 1..n
          BY <3>4
        <5>2. r[i] = s[i]
          BY <3>4, <5>1
        <5>3. \A x \in u : x \in Int
          BY <1>1
        <5> QED
          BY <3>1, <3>10, <5>1, <5>2, <5>3
      <4>2. CASE j <= n
        <5>1. j \in 1..n /\ r[j] = s[j]
          BY <3>4, <4>2
        <5> QED
          BY <3>2, <3>5, <4>1, <5>1
      <4>3. CASE ~ (j <= n)
        <5>1. r[j] = m
          BY <4>3
        <5> QED
          BY <3>1, <4>1, <5>1
      <4> QED
        BY <4>2, <4>3
    <3>8. Down(r) /\ r \in [1..Cardinality(u) -> u]
      BY <3>4, <3>6, <3>7
    <3> QED
      BY <3>8
  <2> QED
    BY <2>1, <2>2
<1>4. L \in T
  <2> HIDE DEF T
  <2>1. \A u \in SUBSET L : u \in T
    BY <1>2, <1>3, SetBySet
  <2> QED
    BY <2>1
<1>5. HighestFirst(L) \in [1..Cardinality(L) -> L]
  BY <1>4 DEF HighestFirst
<1>6. HighestFirst(L) \in [1..Cardinality(L) -> 1..99]
  BY <1>1, <1>5
<1>7. Cardinality(L) \in Nat
  BY <1>2, FS_CardinalityType
<1>8. HighestFirst(L) \in Seq(1..99)
  <2> DEFINE n == Cardinality(L)
             s == HighestFirst(L)
             S == 1..99
  <2>1. n \in Nat /\ s \in [1..n -> S]
    BY <1>6, <1>7
  <2> HIDE DEF n, s, S
  <2>2. s \in Seq(S)
    BY <2>1
  <2> QED
    BY <2>2 DEF s, S
<1> QED
  BY <1>8 DEF ParseLevels, L

\* The client starts disconnected, with the first delay (OrderBookWebSocket.__init__).
LEMMA WsTypedInitially == WsInit => WsTypeOK
<1> SUFFICES ASSUME WsInit PROVE WsTypeOK
  OBVIOUS
<1>1. snapshots = <<>> /\ DOMAIN snapshots = {} /\ 1 \in 1..MaxDelay
  BY WsAssumption DEF WsInit
<1> QED
  BY <1>1 DEF WsInit, WsTypeOK

\* The back-off stays within its maximum, books are kept of known tokens and are sequences of prices.
LEMMA WsTypedStep == WsTypeOK /\ [WsNext]_wsVars => WsTypeOK'
<1> SUFFICES ASSUME WsTypeOK, [WsNext]_wsVars PROVE WsTypeOK'
  OBVIOUS
<1>1. CASE StartClient \/ StopClient \/ Connected \/ ConnectFails \/ Listen \/ Drop
           \/ StopListening \/ HandlerRaises \/ Retry \/ UNCHANGED wsVars
  <2> USE WsAssumption DEF WsTypeOK
  <2>1. ASSUME running' \in BOOLEAN, wsOpen' \in BOOLEAN,
               task' \in {"none", "connecting", "resubscribing", "listening", "backoff"},
               delay' \in 1..MaxDelay, resend' \subseteq Tokens, served' \subseteq Tokens,
               sendFailed' \subseteq Tokens, UNCHANGED <<subscribed, snapshots>>
        PROVE  WsTypeOK'
    BY <2>1
  <2>2. CASE StartClient
    BY <2>1, <2>2 DEF StartClient
  <2>3. CASE StopClient
    BY <2>1, <2>3 DEF StopClient
  <2>4. CASE Connected
    <3>1. 1 \in 1..MaxDelay
      OBVIOUS
    <3> QED
      BY <2>1, <2>4, <3>1 DEF Connected
  <2>5. CASE ConnectFails
    BY <2>1, <2>5 DEF ConnectFails
  <2>6. CASE Listen
    BY <2>1, <2>6 DEF Listen
  <2>7. CASE Drop
    BY <2>1, <2>7 DEF Drop
  <2>8. CASE StopListening
    BY <2>1, <2>8 DEF StopListening
  <2>9. CASE Retry
    <3>1. delay' \in 1..MaxDelay
      BY <2>9 DEF Retry
    <3> QED
      BY <2>1, <2>9, <3>1 DEF Retry
  <2>10. CASE HandlerRaises
    BY <2>1, <2>10 DEF HandlerRaises
  <2>11. CASE UNCHANGED wsVars
    BY <2>1, <2>11 DEF wsVars
  <2> QED
    BY <1>1, <2>2, <2>3, <2>4, <2>5, <2>6, <2>7, <2>8, <2>9, <2>10, <2>11
<1>2. ASSUME NEW t \in Tokens, SubscribeToken(t) PROVE WsTypeOK'
  BY <1>2 DEF WsTypeOK, SubscribeToken, Send
<1>3. ASSUME NEW t \in Tokens, UnsubscribeToken(t) PROVE WsTypeOK'
  BY <1>3 DEF WsTypeOK, UnsubscribeToken
<1>4. ASSUME NEW t \in Tokens, Resubscribe(t) PROVE WsTypeOK'
  BY <1>4 DEF WsTypeOK, Resubscribe, Send
<1>5. ASSUME NEW t \in Tokens, NEW bids \in SUBSET Prices, NEW asks \in SUBSET Prices,
             HandleMessage(t, bids, asks)
      PROVE  WsTypeOK'
  <2> DEFINE b == [bids |-> ParseLevels(bids), asks |-> ParseLevels(asks)]
  <2>1. b \in Books
    BY LevelsAreSorted DEF Books
  <2> HIDE DEF b
  <2>2. /\ snapshots' = [u \in DOMAIN snapshots \cup {t} |-> IF u = t THEN b ELSE snapshots[u]]
        /\ UNCHANGED <<running, task, resend, wsOpen, delay, subscribed, served, sendFailed>>
    BY <1>5 DEF HandleMessage, b
  <2> QED
    BY <2>1, <2>2 DEF WsTypeOK
<1> QED
  BY <1>1, <1>2, <1>3, <1>4, <1>5 DEF WsNext

\* An empty cache and nobody listing have their types (GammaClient.__init__).
LEMMA GammaTypedInitially == now = 0 /\ GammaInit => GammaTypeOK
<1> SUFFICES ASSUME now = 0, GammaInit PROVE GammaTypeOK
  OBVIOUS
<1>1. /\ Pages \in Nat /\ 0 \in 0..MaxListings /\ 0 \in 0..Horizon
  BY GammaAssumption, ClockAssumption
<1>2. /\ pageCache = [p \in 1..Pages |-> None] /\ listCache = None
      /\ reader = [r \in Readers |-> Resting]
      /\ listings = 0 /\ answer = [pages |-> <<>>, took |-> 0, at |-> 0]
  BY DEF GammaInit
<1>3. \A r \in Readers : reader[r].at = "idle" /\ reader[r].pages = <<>>
  BY <1>2 DEF Resting
<1>4. <<>> \in Seq(Page) /\ Len(<<>>) = 0
  OBVIOUS
<1> QED
  BY <1>1, <1>2, <1>3, <1>4 DEF GammaTypeOK

\* Pages, lists and answers are of their types at every step of a reader and of the clock.
LEMMA GammaTypedStep ==
  ASSUME GammaInv, GammaInv', GammaTypeOK, [GammaNext]_<<gammaVars, now>>
  PROVE  GammaTypeOK'
<1>1. /\ Pages \in Nat /\ TTL \in Nat /\ Horizon \in Nat /\ MaxListings \in Nat
      /\ now \in 0..Horizon /\ DOMAIN pageCache = 1..Pages
  BY GammaAssumption, ClockAssumption DEF GammaInv
<1>2. /\ reader \in [Readers -> [at : {"idle", "paging", "requesting"}, pages : Seq(Page),
                                 attempt : Nat, began : Int]]
      /\ \A r \in Readers : reader[r].at # "idle" => Len(reader[r].pages) < Pages
  BY DEF GammaInv
<1>3. /\ reader' \in [Readers -> [at : {"idle", "paging", "requesting"}, pages : Seq(Page),
                                  attempt : Nat, began : Int]]
      /\ \A r \in Readers : reader'[r].at # "idle" => Len(reader'[r].pages) < Pages
      /\ DOMAIN pageCache' = 1..Pages
      /\ listCache' # None => listCache'.pages \in Seq(Page)
  BY DEF GammaInv, FreshSince
<1>4. \A page \in Page : [page |-> page, expires |-> now + TTL] \in [page : Page, expires : 0..Horizon + TTL]
  BY <1>1
<1>5. ASSUME \A p \in 1..Pages :
               \/ pageCache'[p] = pageCache[p] \/ pageCache'[p] = None
               \/ \E page \in Page : pageCache'[p] = [page |-> page, expires |-> now + TTL],
             \A r \in Readers : reader'[r] = reader[r] \/ reader'[r] = Resting \/ reader'[r].at # "idle",
             listings' \in 0..MaxListings,
             answer' = answer \/ (answer'.at = now /\ answer'.pages \in Seq(Page))
      PROVE  GammaTypeOK'
  <2>1. \A p \in 1..Pages : pageCache'[p] = None \/ pageCache'[p] \in [page : Page, expires : 0..Horizon + TTL]
    BY <1>4, <1>5 DEF GammaTypeOK
  <2>2. \A r \in Readers : reader'[r].at \in {"idle", "paging", "requesting"} /\ Len(reader'[r].pages) <= Pages
    <3> SUFFICES ASSUME NEW r \in Readers
                 PROVE  reader'[r].at \in {"idle", "paging", "requesting"} /\ Len(reader'[r].pages) <= Pages
      OBVIOUS
    <3>1. reader'[r].at \in {"idle", "paging", "requesting"} /\ Len(reader'[r].pages) \in Nat
      BY <1>3
    <3>2. CASE reader'[r] = reader[r]
      BY <3>1, <3>2 DEF GammaTypeOK
    <3>3. CASE reader'[r] = Resting
      BY <1>1, <3>1, <3>3 DEF Resting
    <3>4. CASE reader'[r].at # "idle"
      BY <1>1, <1>3, <3>1, <3>4
    <3> QED
      BY <1>5, <3>2, <3>3, <3>4
  <2>3. answer'.pages \in Seq(Page) /\ answer'.at \in 0..Horizon
    BY <1>1, <1>5 DEF GammaTypeOK
  <2> QED
    BY <1>3, <1>5, <2>1, <2>2, <2>3 DEF GammaTypeOK
<1>6. listings \in 0..MaxListings
  BY DEF GammaTypeOK
<1>7. ASSUME NEW r \in Readers, NEW list \in Seq(Page), Finish(r, list)
      PROVE  /\ \A s \in Readers : reader'[s] = reader[s] \/ reader'[s] = Resting
             /\ answer'.at = now /\ answer'.pages \in Seq(Page)
  BY <1>2, <1>7 DEF Finish
<1>8. ASSUME NEW r \in Readers, reader[r].at # "idle", NEW page \in Page, Extend(r, page)
      PROVE  /\ \A s \in Readers : reader'[s] = reader[s] \/ reader'[s] = Resting \/ reader'[s].at # "idle"
             /\ answer' = answer \/ (answer'.at = now /\ answer'.pages \in Seq(Page))
  <2>1. Append(reader[r].pages, page) \in Seq(Page)
    BY <1>2
  <2>2. CASE page.short
    <3>1. Finish(r, Append(reader[r].pages, page))
      BY <1>8, <2>2 DEF Extend
    <3> QED
      BY <1>7, <2>1, <3>1
  <2>3. CASE ~ page.short
    BY <1>2, <1>8, <2>3 DEF Extend
  <2> QED
    BY <2>2, <2>3
<1>9. ASSUME NEW r \in Readers, ServeCached(r) PROVE GammaTypeOK'
  <2>1. listCache.pages \in Seq(Page)
    BY <1>9 DEF ServeCached, Hit, GammaInv, FreshSince
  <2>2. listings' \in 0..MaxListings
    BY <1>1, <1>6, <1>9 DEF ServeCached
  <2>3. /\ pageCache' = pageCache /\ reader' = reader
        /\ answer'.at = now /\ answer'.pages \in Seq(Page)
    BY <1>9, <2>1 DEF ServeCached
  <2> QED
    BY <1>5, <2>2, <2>3
<1>10. ASSUME NEW r \in Readers, BeginListing(r) PROVE GammaTypeOK'
  <2>1. listings' \in 0..MaxListings
    BY <1>1, <1>6, <1>10 DEF BeginListing
  <2>2. \A s \in Readers : reader'[s] = reader[s] \/ reader'[s].at # "idle"
    BY <1>2, <1>10 DEF BeginListing, Resting
  <2>3. pageCache' = pageCache /\ answer' = answer
    BY <1>10 DEF BeginListing
  <2> QED
    BY <1>5, <2>1, <2>2, <2>3
<1>11. ASSUME NEW r \in Readers, TakePage(r) PROVE GammaTypeOK'
  <2> DEFINE entry == pageCache[NextPage(r)]
  <2>1. reader[r].at # "idle" /\ listings' = listings
    BY <1>11 DEF TakePage
  <2>2. NextPage(r) \in 1..Pages
    BY <1>1, <1>2, <2>1 DEF NextPage
  <2>3. CASE Hit(entry)
    <3>1. Extend(r, entry.page) /\ pageCache' = pageCache
      BY <1>11, <2>3 DEF TakePage
    <3>2. entry.page \in Page
      BY <2>2, <2>3 DEF Hit, GammaInv
    <3> QED
      BY <1>5, <1>6, <1>8, <2>1, <3>1, <3>2
  <2>4. CASE ~ Hit(entry)
    <3>1. /\ pageCache' = [pageCache EXCEPT ![NextPage(r)] = None] /\ answer' = answer
          /\ reader' = [reader EXCEPT ![r].at = "requesting", ![r].attempt = 1]
      BY <1>11, <2>4 DEF TakePage
    <3>2. \A s \in Readers : reader'[s] = reader[s] \/ reader'[s].at # "idle"
      BY <1>2, <3>1
    <3>3. \A p \in 1..Pages : pageCache'[p] = pageCache[p] \/ pageCache'[p] = None
      BY <1>1, <3>1
    <3> QED
      BY <1>5, <1>6, <2>1, <3>1, <3>2, <3>3
  <2> QED
    BY <2>3, <2>4
<1>12. ASSUME NEW r \in Readers, RequestOk(r) PROVE GammaTypeOK'
  <2>1. reader[r].at # "idle" /\ listings' = listings
    BY <1>12 DEF RequestOk
  <2>2. PICK short \in BOOLEAN :
          LET page == [at |-> now, short |-> short] IN
          /\ pageCache' = [pageCache EXCEPT ![NextPage(r)] = [page |-> page, expires |-> now + TTL]]
          /\ Extend(r, page)
    BY <1>12 DEF RequestOk
  <2> DEFINE page == [at |-> now, short |-> short]
  <2>3. page \in Page
    BY <1>1 DEF Page
  <2>4. pageCache' = [pageCache EXCEPT ![NextPage(r)] = [page |-> page, expires |-> now + TTL]]
        /\ Extend(r, page)
    BY <2>2
  <2> HIDE DEF page
  <2>5. \A p \in 1..Pages : \/ pageCache'[p] = pageCache[p]
                            \/ pageCache'[p] = [page |-> page, expires |-> now + TTL]
    BY <1>1, <2>4
  <2> QED
    BY <1>5, <1>6, <1>8, <2>1, <2>3, <2>4, <2>5
<1>13. ASSUME NEW r \in Readers, RequestAgain(r) \/ RequestExhausted(r) \/ RequestTimesOut(r)
       PROVE  GammaTypeOK'
  <2>1. CASE RequestAgain(r)
    <3>1. \A s \in Readers : reader'[s] = reader[s] \/ reader'[s].at # "idle"
      BY <1>2, <2>1 DEF RequestAgain
    <3> QED
      BY <1>5, <1>6, <2>1, <3>1 DEF RequestAgain
  <2>2. CASE RequestExhausted(r)
    <3>1. reader[r].pages \in Seq(Page) /\ Finish(r, reader[r].pages)
      BY <1>2, <2>2 DEF RequestExhausted
    <3> QED
      BY <1>5, <1>6, <1>7, <2>2, <3>1 DEF RequestExhausted
  <2>3. CASE RequestTimesOut(r)
    <3>1. \A s \in Readers : reader'[s] = reader[s] \/ reader'[s] = Resting
      BY <1>2, <2>3 DEF RequestTimesOut
    <3> QED
      BY <1>5, <1>6, <2>3, <3>1 DEF RequestTimesOut
  <2> QED
    BY <1>13, <2>1, <2>2, <2>3
<1>14. CASE ClearCache
  BY <1>5, <1>6, <1>14 DEF ClearCache
<1>15. CASE GammaTick \/ UNCHANGED <<gammaVars, now>>
  BY <1>5, <1>6, <1>15 DEF GammaTick, gammaVars
<1> QED
  BY <1>9, <1>10, <1>11, <1>12, <1>13, <1>14, <1>15 DEF GammaNext

\* No more requests are granted than the bound of the run.
Bounded == granted \in 0..MaxGrants

\* A limiter has granted nothing yet (TokenBucketRateLimiter.__init__).
LEMMA GrantsInitially == LimiterInit => Bounded
BY LimiterAssumption DEF LimiterInit, Bounded

\* Each grant of acquire is counted once, under the bound.
LEMMA GrantsStep ==
  ASSUME Bounded, [LimiterNext]_<<limiterVars, now>>
  PROVE  Bounded'
<1> USE LimiterAssumption DEF Bounded
<1>1. CASE Grant \/ Wake
  <2>1. granted < MaxGrants /\ granted' = granted + 1
    BY <1>1 DEF Grant, Wake
  <2> QED
    BY <2>1
<1>2. CASE (\E r \in Requesters : Queue(r)) \/ Sleep \/ LimiterTick \/ (\E i \in 1..Len(line) : CancelRequest(i))
  BY <1>2 DEF Queue, Sleep, LimiterTick, limiterVars, CancelRequest
<1>3. CASE UNCHANGED <<limiterVars, now>>
  BY <1>3 DEF limiterVars
<1> QED
  BY <1>1, <1>2, <1>3 DEF LimiterNext

\* The sleep of a holder ends at most one period after the clock (acquire).
LEMMA LimiterTyped == LimiterInv /\ Bounded => LimiterTypeOK
<1> SUFFICES ASSUME LimiterInv, Bounded PROVE LimiterTypeOK
  OBVIOUS
<1>1. /\ bucket \in [tokens : 0..Burst * Period, last : 0..Horizon] /\ bucket.last <= now
      /\ now \in 0..Horizon /\ wakeAt \in Int /\ Period \in Nat /\ Horizon \in Nat /\ Burst * Period \in Nat
      /\ line \in Seq(Requesters)
  BY LimiterAssumption, ClockAssumption, Products DEF LimiterInv
<1>2. wakeAt # -1 => bucket.tokens < Period /\ wakeAt = bucket.last + Period - bucket.tokens
  BY DEF LimiterInv
<1>3. bucket.tokens \in Nat /\ bucket.last \in 0..Horizon
  BY <1>1
<1>4. wakeAt \in -1..Horizon + Period
  BY <1>1, <1>2, <1>3
<1> QED
  BY <1>1, <1>4 DEF LimiterTypeOK, Bounded

\* The queue of the bus keeps its size, and what it refused or cut are its events.
Refused == Len(queue) <= QueueSize /\ dropped \subseteq Events /\ cut \subseteq Events

\* The bus has refused nothing yet (EventBus.__init__).
LEMMA RefusedInitially == BusInit => Refused
BY BusAssumption DEF BusInit, Refused

\* publish refuses what does not fit, stop cuts what the loop had in hand.
LEMMA RefusedStep ==
  ASSUME BusInv, Refused, [BusNext]_busVars
  PROVE  Refused'
<1>1. /\ queue \in Seq(Events) /\ published \in 0..MaxEvents /\ QueueSize \in Nat /\ MaxEvents \in Nat
      /\ Len(queue) \in Nat
      /\ dispatch \in [Dispatchers -> [event : 0..MaxEvents, left : SUBSET Handlers]]
  BY BusAssumption DEF BusInv, BusTypes
<1>2. CASE Publish
  <2>1. published < MaxEvents /\ published' = published + 1 /\ cut' = cut
    BY <1>2 DEF Publish
  <2>2. published' \in Events
    BY <1>1, <2>1 DEF Events
  <2>3. CASE Len(queue) < QueueSize
    <3>1. queue' = Append(queue, published') /\ dropped' = dropped
      BY <1>2, <2>3 DEF Publish
    <3>2. Len(queue') = Len(queue) + 1
      BY <1>1, <2>2, <3>1
    <3> QED
      BY <1>1, <2>1, <2>3, <3>1, <3>2 DEF Refused
  <2>4. CASE ~ (Len(queue) < QueueSize)
    BY <1>2, <2>1, <2>2, <2>4 DEF Publish, Refused
  <2> QED
    BY <2>3, <2>4
<1>3. CASE Stop
  <2>1. dispatch["loop"].event \in 0..MaxEvents
    BY <1>1 DEF Dispatchers
  <2>2. cut' = cut \cup ({dispatch["loop"].event} \ {0}) /\ UNCHANGED <<queue, dropped>>
    BY <1>3 DEF Stop
  <2>3. \A e \in 0..MaxEvents : e # 0 => e \in Events
    BY <1>1 DEF Events
  <2>4. cut' \subseteq Events
    BY <2>1, <2>2, <2>3 DEF Refused
  <2> QED
    BY <2>2, <2>4 DEF Refused
<1>4. ASSUME NEW d \in Dispatchers, Take(d) PROVE Refused'
  <2>1. queue # <<>> /\ queue' = Tail(queue) /\ UNCHANGED <<dropped, cut>>
    BY <1>4 DEF Take
  <2>2. Len(queue') = Len(queue) - 1
    BY <1>1, <2>1
  <2> QED
    BY <1>1, <2>1, <2>2 DEF Refused
<1>5. ASSUME NEW d \in Dispatchers, Drained(d) \/ \E h \in Handlers : HandlerDone(d, h) PROVE Refused'
  BY <1>5 DEF Drained, HandlerDone, Refused
<1>6. CASE (\E h \in Handlers : Subscribe(h) \/ Unsubscribe(h)) \/ Start \/ Process \/ UNCHANGED busVars
  BY <1>6 DEF Subscribe, Unsubscribe, Start, Process, Activate, busVars, Refused
<1> QED
  BY <1>2, <1>3, <1>4, <1>5, <1>6 DEF BusNext

\* What is dispatched and what is refused are events of their types.
LEMMA BusTyped == BusInv /\ Refused => BusTypeOK
BY DEF BusInv, BusTypes, QueueOrder, Refused, BusTypeOK

\* The states of an order and its trail are of their types (OrderStateMachine).
LEMMA LifecycleTyped == LifecycleInv => LifecycleTypeOK
BY DEF LifecycleInv, Explains, Earned, LifecycleTypeOK

\* No batch is longer than allowed, and ids are of orders of the batch that was asked for.
Batched(e) == Len(e.batch) <= BatchSize /\ e.asked <= Len(e.batch) /\ e.ids \subseteq ToSet(e.batch)

BatchBounds ==
    /\ \A f \in Flushers : Batched(flusher[f])
    /\ totals \in [submitted : Nat, succeeded : Nat, failed : Nat]
    /\ lost \subseteq Orders

\* A coroutine that has no batch has no ids (NoBatch stands for the locals of flush).
LEMMA RestingIsBatched == ASSUME NEW at PROVE Batched([NoBatch EXCEPT !.at = at]) /\ Batched(NoBatch)
<1>1. Len(<<>>) = 0 /\ BatchSize \in Nat
  BY BatchAssumption
<1> QED
  BY <1>1 DEF Batched, NoBatch

\* Nothing was submitted yet (BatchOrderManager.__init__).
LEMMA BoundsInitially == BatchInit => BatchBounds
<1> SUFFICES ASSUME BatchInit PROVE BatchBounds
  OBVIOUS
<1>1. \A f \in Flushers : flusher[f] = NoBatch
  BY DEF BatchInit
<1> QED
  BY <1>1, RestingIsBatched DEF BatchInit, BatchBounds

\* flush takes max_batch_size orders at most; _submit_batch counts as many successes as ids, or all.
LEMMA BoundsStep ==
  ASSUME BatchInv, BatchBounds, [BatchNext]_batchVars
  PROVE  BatchBounds'
<1>1. /\ flusher \in [Flushers -> Flush] /\ BatchSize \in Nat
      /\ \A f \in Flushers : Batched(flusher[f]) /\ flusher[f] \in Flush
      /\ totals \in [submitted : Nat, succeeded : Nat, failed : Nat] /\ lost \subseteq Orders
  BY BatchAssumption DEF BatchInv, BatchTypes, BatchBounds
<1>2. \A f \in Flushers :
        /\ flusher[f].batch \in Seq(Orders) /\ Len(flusher[f].batch) \in Nat
        /\ ToSet(flusher[f].batch) \subseteq Orders /\ flusher[f].asked \in Nat
  BY <1>1 DEF Flush, ToSet
<1>3. ASSUME NEW f \in Flushers, NEW e, Batched(e), flusher' = [flusher EXCEPT ![f] = e]
      PROVE  \A g \in Flushers : Batched(flusher'[g])
  BY <1>1, <1>3
<1>4. CASE AddOrder \/ ClearPending
  BY <1>4 DEF AddOrder, ClearPending, BatchBounds
<1>5. ASSUME NEW f \in Flushers, TakeBatch(f) PROVE BatchBounds'
  <2> DEFINE b == FirstBatch
             e == [NoBatch EXCEPT !.at = "submitting", !.batch = b]
  <2>1. flusher' = [flusher EXCEPT ![f] = e] /\ UNCHANGED <<totals, lost>>
    BY <1>5 DEF TakeBatch
  <2>2. Len(b) <= BatchSize /\ Len(b) \in Nat
    <3> DEFINE n == Len(pending)
               m == IF n < BatchSize THEN n ELSE BatchSize
    <3>1. pending \in Seq(Orders) /\ n \in Nat
      BY DEF BatchInv, BatchTypes
    <3>2. m \in 0..n /\ m <= BatchSize
      BY <1>1, <3>1
    <3>3. b = SubSeq(pending, 1, m)
      BY DEF FirstBatch
    <3> HIDE DEF m, b
    <3>4. Len(b) = m
      BY <3>1, <3>2, <3>3
    <3> QED
      BY <3>1, <3>2, <3>4
  <2> HIDE DEF b
  <2>3. e.batch = b /\ e.asked = 0 /\ e.ids = {}
    BY DEF NoBatch
  <2>4. Batched(e)
    BY <2>2, <2>3 DEF Batched
  <2> HIDE DEF e
  <2> QED
    BY <1>3, <2>1, <2>4 DEF BatchBounds
<1>6. ASSUME NEW f \in Flushers, EndFlush(f) \/ CancelFlush(f) PROVE BatchBounds'
  <2>1. flusher' = [flusher EXCEPT ![f] = NoBatch] /\ totals' = totals
    BY <1>6 DEF EndFlush, CancelFlush
  <2>2. lost' \subseteq Orders
    BY <1>1, <1>2, <1>6 DEF EndFlush, CancelFlush
  <2> QED
    BY <1>1, <1>3, <2>1, <2>2, RestingIsBatched DEF BatchBounds
<1>7. ASSUME NEW f \in Flushers, NEW n \in Nat, NEW ids, n <= Len(flusher[f].batch),
             ids \subseteq ToSet(flusher[f].batch),
             flusher' = [flusher EXCEPT ![f].asked = n, ![f].ids = ids], UNCHANGED <<totals, lost>>
      PROVE  BatchBounds'
  <2> DEFINE e == [flusher[f] EXCEPT !.asked = n, !.ids = ids]
  <2>1. flusher' = [flusher EXCEPT ![f] = e]
    BY <1>1, <1>7
  <2>2. e.batch = flusher[f].batch /\ e.asked = n /\ e.ids = ids
    BY <1>1 DEF Flush
  <2>3. Batched(e)
    BY <1>1, <1>7, <2>2 DEF Batched
  <2> HIDE DEF e
  <2> QED
    BY <1>1, <1>3, <1>7, <2>1, <2>3 DEF BatchBounds
<1>8. ASSUME NEW f \in Flushers, PostBatch(f) PROVE BatchBounds'
  <2> DEFINE b == flusher[f].batch
  <2>1. PICK accepted \in SUBSET ToSet(b), answered \in BOOLEAN :
          flusher' = [flusher EXCEPT ![f].asked = Len(b), ![f].ids = IF answered THEN accepted ELSE {}]
    BY <1>8 DEF PostBatch
  <2> DEFINE n == Len(b)
             ids == IF answered THEN accepted ELSE {}
  <2>2. /\ n \in Nat /\ n <= Len(b) /\ ids \subseteq ToSet(b)
        /\ flusher' = [flusher EXCEPT ![f].asked = n, ![f].ids = ids]
    BY <1>2, <2>1
  <2>3. UNCHANGED <<totals, lost>>
    BY <1>8 DEF PostBatch
  <2> HIDE DEF n, ids
  <2> QED
    BY <1>7, <2>2, <2>3
<1>9. ASSUME NEW f \in Flushers, PostNext(f) PROVE BatchBounds'
  <2> DEFINE b == flusher[f].batch
             n == flusher[f].asked + 1
  <2>1. PICK accepted \in SUBSET {b[n]}, answered \in BOOLEAN :
          flusher' = [flusher EXCEPT ![f].asked = @ + 1,
                                     ![f].ids = IF answered THEN @ \cup accepted ELSE @]
    BY <1>9 DEF PostNext
  <2> DEFINE ids == IF answered THEN flusher[f].ids \cup accepted ELSE flusher[f].ids
  <2>2. n \in Nat /\ n <= Len(b) /\ n \in DOMAIN b
    BY <1>2, <1>9 DEF PostNext
  <2>3. b[n] \in ToSet(b) /\ flusher[f].ids \subseteq ToSet(b)
    BY <1>1, <2>2 DEF ToSet, Batched
  <2>4. ids \subseteq ToSet(b) /\ flusher' = [flusher EXCEPT ![f].asked = n, ![f].ids = ids]
    BY <2>1, <2>3
  <2>5. UNCHANGED <<totals, lost>>
    BY <1>9 DEF PostNext
  <2> HIDE DEF n, ids
  <2> QED
    BY <1>7, <2>2, <2>4, <2>5
<1>10. ASSUME NEW f \in Flushers, ReportBatch(f) PROVE BatchBounds'
  <2> DEFINE b == flusher[f].batch
             k == IF client = "dry_run" THEN Len(b) ELSE Cardinality(flusher[f].ids)
             at == IF pending = <<>> THEN "idle" ELSE "pausing"
  <2>1. /\ totals' = [submitted |-> totals.submitted + Len(b), succeeded |-> totals.succeeded + k,
                      failed |-> totals.failed + Len(b) - k]
        /\ flusher' = [flusher EXCEPT ![f] = [NoBatch EXCEPT !.at = at]] /\ lost' = lost
    BY <1>10 DEF ReportBatch
  <2>2. Cardinality(flusher[f].ids) \in Nat /\ Cardinality(flusher[f].ids) <= Len(b)
    <3>1. IsFiniteSet(ToSet(b)) /\ Cardinality(ToSet(b)) = Len(b)
      BY <1>2, RisingCardinality DEF BatchInv, Lined
    <3>2. flusher[f].ids \subseteq ToSet(b)
      BY <1>1 DEF Batched
    <3>3. IsFiniteSet(flusher[f].ids) /\ Cardinality(flusher[f].ids) <= Len(b)
      BY <3>1, <3>2, FS_Subset
    <3> QED
      BY <3>3, FS_CardinalityType
  <2>3. Len(b) \in Nat /\ k \in Nat /\ k <= Len(b)
    BY <1>2, <2>2
  <2> HIDE DEF k, b, at
  <2>4. totals' \in [submitted : Nat, succeeded : Nat, failed : Nat]
    <3>1. totals.submitted \in Nat /\ totals.succeeded \in Nat /\ totals.failed \in Nat
      BY <1>1
    <3>2. totals.failed + Len(b) - k \in Nat
      BY <2>3, <3>1
    <3> QED
      BY <2>1, <2>3, <3>1, <3>2
  <2>5. \A g \in Flushers : Batched(flusher'[g])
    <3> DEFINE e == [NoBatch EXCEPT !.at = at]
    <3>1. Batched(e) /\ flusher' = [flusher EXCEPT ![f] = e]
      BY <2>1, RestingIsBatched
    <3> HIDE DEF e
    <3> QED
      BY <1>3, <3>1
  <2> QED
    BY <1>1, <2>1, <2>4, <2>5 DEF BatchBounds
<1>11. CASE UNCHANGED batchVars
  BY <1>11 DEF batchVars, BatchBounds
<1> QED
  BY <1>4, <1>5, <1>6, <1>8, <1>9, <1>10, <1>11 DEF BatchNext

\* Queue, batches and totals are of their types.
LEMMA BatchTyped == BatchInv /\ BatchBounds => BatchTypeOK
<1> SUFFICES ASSUME BatchInv, BatchBounds PROVE BatchTypeOK
  OBVIOUS
<1>1. \A f \in Flushers :
        /\ flusher[f] \in Flush /\ Batched(flusher[f])
        /\ ToSet(flusher[f].batch) \subseteq Orders
  BY DEF BatchInv, BatchTypes, BatchBounds, Flush, ToSet
<1>2. \A f \in Flushers :
        /\ flusher[f].at \in {"idle", "submitting", "pausing"}
        /\ flusher[f].batch \in Seq(Orders) /\ Len(flusher[f].batch) <= BatchSize
        /\ flusher[f].asked \in 0..Len(flusher[f].batch) /\ flusher[f].ids \subseteq Orders
  BY <1>1 DEF Flush, Batched
<1> QED
  BY <1>2 DEF BatchInv, BatchTypes, BatchBounds, BatchTypeOK

-----------------------------------------------------------------------------
(* MCUnits: the components side by side.                                   *)

UnitsInv ==
    /\ which \in Units
    /\ RetryInv /\ CallInv /\ PidInv /\ JobInv /\ WalletInv /\ AlertInv /\ TrailInv
    /\ PaperInv /\ LifecycleInv /\ LearnInv /\ SlippageInv
    /\ LimiterInv /\ Bounded
    /\ BusInv /\ Refused
    /\ WsTypeOK
    /\ GammaInv /\ GammaTypeOK
    /\ TwapTypeOK
    /\ BatchInv /\ BatchBounds

\* The unit that moves takes a step of its own; another sees the clock move, or nothing.
LEMMA Motions ==
  ASSUME which \in Units, [Next]_vars
  PROVE  /\ which' \in Units
         /\ [RetryNext]_<<retryVars, now>> /\ [CallNext]_<<callVars, now>>
         /\ [LimiterNext]_<<limiterVars, now>> /\ [JobNext]_<<jobVars, now>>
         /\ [AlertNext]_<<alertVars, now>> /\ [GammaNext]_<<gammaVars, now>>
         /\ [PidNext]_pidVars /\ [WalletNext]_walletVars /\ [BusNext]_busVars /\ [WsNext]_wsVars
         /\ [TwapNext]_twapVars /\ [TrailNext]_trailVars /\ [BatchNext]_batchVars
         /\ [PaperNext]_paperVars /\ [LifecycleNext]_lifecycleVars /\ [LearnNext]_learnVars
         /\ [SlippageNext]_slippageVars
<1>1. CASE UNCHANGED vars
  BY <1>1 DEF vars
<1>2. CASE Next
  <2>1. which' = which /\ Moves /\ (which \notin Clocked => now' = now)
    BY <1>2 DEF Next
  <2>2. \A u \in Units : u # which => Frozen(u)
    BY <1>2 DEF Next
  <2>3. /\ which = "retry" => RetryNext
        /\ which = "call" => CallNext
        /\ which = "limiter" => LimiterNext
        /\ which = "job" => JobNext
        /\ which = "alert" => AlertNext
        /\ which = "gamma" => GammaNext
    BY <2>1, Zenon DEF Moves
  <2>4. /\ which = "pid" => PidNext
        /\ which = "wallet" => WalletNext
        /\ which = "bus" => BusNext
        /\ which = "ws" => WsNext
        /\ which = "twap" => TwapNext
        /\ which = "trail" => TrailNext
    BY <2>1, Zenon DEF Moves
  <2>5. /\ which = "batch" => BatchNext
        /\ which = "paper" => PaperNext
        /\ which = "lifecycle" => LifecycleNext
        /\ which = "learn" => LearnNext
        /\ which = "slippage" => SlippageNext
    BY <2>1, Zenon DEF Moves
  <2>6. now' = now \/ Tick
    <3>1. CASE which = "retry"
      BY <2>3, <3>1 DEF RetryNext, Admit, Succeed, FailAttempt, Abandon, ResetBreaker, RetryTick
    <3>2. CASE which = "call"
      BY <2>3, <3>2 DEF CallNext, Enter, Report, ResetCircuit, CallTick
    <3>3. CASE which = "limiter"
      BY <2>3, <3>3 DEF LimiterNext, Queue, Grant, Sleep, Wake, LimiterTick, CancelRequest
    <3>4. CASE which = "job"
      BY <2>3, <3>4 DEF JobNext, RefitRegime, StartRetrain, FinishRetrain, RestartAgent, JobTick
    <3>5. CASE which = "alert"
      BY <2>3, <3>5 DEF AlertNext, AddAlert, RemoveAlert, CancelAlert, Check, AlertTick
    <3>6. CASE which = "gamma"
      BY <2>3, <3>6 DEF GammaNext, ServeCached, BeginListing, TakePage, RequestOk, RequestAgain,
                        RequestExhausted, RequestTimesOut, ClearCache, GammaTick
    <3>7. CASE which \notin Clocked
      BY <2>1, <3>7
    <3> QED
      BY <3>1, <3>2, <3>3, <3>4, <3>5, <3>6, <3>7 DEF Clocked
  <2>7. /\ which # "retry" => UNCHANGED retryVars
        /\ which # "call" => UNCHANGED callVars
        /\ which # "limiter" => UNCHANGED limiterVars
        /\ which # "job" => UNCHANGED jobVars
        /\ which # "alert" => UNCHANGED alertVars
        /\ which # "gamma" => UNCHANGED gammaVars
    BY <2>2 DEF Frozen, Units, Clocked
  <2>8. /\ which # "pid" => UNCHANGED pidVars
        /\ which # "wallet" => UNCHANGED walletVars
        /\ which # "bus" => UNCHANGED busVars
        /\ which # "ws" => UNCHANGED wsVars
        /\ which # "twap" => UNCHANGED twapVars
        /\ which # "trail" => UNCHANGED trailVars
    BY <2>2 DEF Frozen, Units, Clocked
  <2>9. /\ which # "batch" => UNCHANGED batchVars
        /\ which # "paper" => UNCHANGED paperVars
        /\ which # "lifecycle" => UNCHANGED lifecycleVars
        /\ which # "learn" => UNCHANGED learnVars
        /\ which # "slippage" => UNCHANGED slippageVars
    BY <2>2 DEF Frozen, Units, Clocked
  <2>10. [RetryNext]_<<retryVars, now>> /\ [CallNext]_<<callVars, now>>
    BY <2>3, <2>6, <2>7 DEF RetryNext, RetryTick, CallNext, CallTick
  <2>11. [LimiterNext]_<<limiterVars, now>> /\ [JobNext]_<<jobVars, now>>
    BY <2>3, <2>6, <2>7 DEF LimiterNext, LimiterTick, JobNext, JobTick
  <2>12. [AlertNext]_<<alertVars, now>> /\ [GammaNext]_<<gammaVars, now>>
    BY <2>3, <2>6, <2>7 DEF AlertNext, AlertTick, GammaNext, GammaTick
  <2>13. [PidNext]_pidVars /\ [WalletNext]_walletVars /\ [BusNext]_busVars /\ [WsNext]_wsVars
         /\ [TwapNext]_twapVars /\ [TrailNext]_trailVars
    BY <2>4, <2>8
  <2>14. [BatchNext]_batchVars /\ [PaperNext]_paperVars /\ [LifecycleNext]_lifecycleVars
         /\ [LearnNext]_learnVars /\ [SlippageNext]_slippageVars
    BY <2>5, <2>9
  <2> QED
    BY <2>1, <2>10, <2>11, <2>12, <2>13, <2>14
<1> QED
  BY <1>1, <1>2

\* Every component as it is constructed.
LEMMA UnitsInitially == Init => UnitsInv
<1> SUFFICES ASSUME Init PROVE UnitsInv
  OBVIOUS
<1>1. /\ which \in Units /\ now = 0
      /\ RetryInit /\ CallInit /\ LimiterInit /\ PidInit /\ JobInit /\ WalletInit /\ BusInit
      /\ WsInit /\ AlertInit /\ GammaInit /\ TrailInit /\ BatchInit /\ PaperInit
      /\ LifecycleInit /\ LearnInit /\ SlippageInit /\ TwapInit
  BY DEF Init
<1>2. RetryInv /\ CallInv /\ PidInv /\ JobInv /\ WalletInv /\ AlertInv /\ TrailInv
  BY <1>1, RetryInitially, CallInitially, PidInitially, JobInitially, WalletInitially,
     AlertInitially, TrailInitially
<1>3. LifecycleInv /\ LearnInv /\ SlippageInv /\ TwapTypeOK /\ WsTypeOK
  BY <1>1, LifecycleInitially, LearnInitially, SlippageInitially, TwapInitially, WsTypedInitially
<1>4. LimiterInv /\ Bounded /\ BusInv /\ Refused /\ GammaInv /\ GammaTypeOK /\ BatchInv /\ BatchBounds
  BY <1>1, LimiterInitially, GrantsInitially, BusInitially, RefusedInitially, GammaInitially,
     GammaTypedInitially, BatchInitially, BoundsInitially
<1>5. PaperInv
  BY <1>1, PaperInitially
<1> QED
  BY <1>1, <1>2, <1>3, <1>4, <1>5 DEF UnitsInv

\* A step of one component, or of the clock some share, keeps what each has.
LEMMA UnitsStep == UnitsInv /\ [Next]_vars => UnitsInv'
<1> SUFFICES ASSUME UnitsInv, [Next]_vars PROVE UnitsInv'
  OBVIOUS
<1>1. which \in Units
  BY DEF UnitsInv
<1>2. RetryInv' /\ CallInv' /\ JobInv' /\ AlertInv'
  BY <1>1, Motions, RetryStep, CallStep, JobStep, AlertStep DEF UnitsInv
<1>3. PidInv' /\ WalletInv' /\ TrailInv' /\ PaperInv'
  BY <1>1, Motions, PidStep, WalletStep, TrailStep, PaperStep DEF UnitsInv
<1>4. LifecycleInv' /\ LearnInv' /\ SlippageInv' /\ TwapTypeOK' /\ WsTypeOK'
  BY <1>1, Motions, LifecycleStep, LearnStep, SlippageStep, TwapStep, WsTypedStep DEF UnitsInv
<1>5. LimiterInv' /\ Bounded' /\ BusInv' /\ Refused'
  BY <1>1, Motions, LimiterStep, GrantsStep, BusStep, RefusedStep DEF UnitsInv
<1>6. GammaInv'
  BY <1>1, Motions, GammaStep DEF UnitsInv
<1>7. GammaTypeOK'
  BY <1>1, <1>6, Motions, GammaTypedStep DEF UnitsInv
<1>8. BatchInv' /\ BatchBounds'
  BY <1>1, Motions, BatchStep, BoundsStep DEF UnitsInv
<1>9. which' \in Units
  BY <1>1, Motions
<1> QED
  BY <1>2, <1>3, <1>4, <1>5, <1>6, <1>7, <1>8, <1>9 DEF UnitsInv

\* The state of every component is what its module declares: queues within their sizes, a back-off
\* within its maximum, a sleep that ends a period from now at most, batches no longer than allowed,
\* slices that add up to the order, whichever of them moves.
THEOREM UnitsTyped == Spec => []UnitsTypeOK
<1>1. UnitsInv => UnitsTypeOK
  <2> SUFFICES ASSUME UnitsInv PROVE UnitsTypeOK
    OBVIOUS
  <2>1. RetryTypeOK /\ CallTypeOK /\ PidTypeOK /\ JobTypeOK /\ AlertTypeOK /\ TrailTypeOK
    BY DEF UnitsInv, RetryInv, CallInv, PidInv, JobInv, AlertInv, TrailInv
  <2>2. WalletTypeOK /\ PaperTypeOK /\ LearnTypeOK /\ SlippageTypeOK
    BY DEF UnitsInv, WalletInv, PaperInv, LearnInv, SlippageInv
  <2>3. LimiterTypeOK /\ BusTypeOK /\ BatchTypeOK /\ LifecycleTypeOK
    BY LimiterTyped, BusTyped, BatchTyped, LifecycleTyped DEF UnitsInv
  <2> QED
    BY <2>1, <2>2, <2>3 DEF UnitsInv, UnitsTypeOK
<1> QED
  BY <1>1, UnitsInitially, UnitsStep, PTL DEF Spec

=============================================================================
