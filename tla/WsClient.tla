------------------------------ MODULE WsClient ------------------------------
(***************************************************************************)
(* data/ws_client.py: the connection loop of the order-book stream, the    *)
(* subscriptions of its users and the snapshots built from its messages.   *)
(* The server is external: it serves the tokens whose subscribe message    *)
(* reached it over the present connection.  Prices are in cents.           *)
(***************************************************************************)
EXTENDS Integers, FiniteSets, Sequences

CONSTANTS Tokens,    \* token ids
          Prices,    \* prices a level of a message may carry (0 is not a price)
          MaxDelay   \* max_reconnect_delay, in units of the first delay

ASSUME WsAssumption == Prices \subseteq 0..99 /\ MaxDelay \in Nat \ {0}

VARIABLES running,     \* _running
          task,        \* what _connection_loop is at
          resend,      \* tokens _connect_and_listen still has to resubscribe
          wsOpen,      \* _ws is set and not closed; it may be a socket the loop has left
          delay,       \* _reconnect_delay
          subscribed,  \* _subscribed_tokens
          snapshots,   \* _snapshots: token to book, for the tokens that have one
          served,      \* external: tokens the server streams on this connection
          sendFailed   \* tokens whose subscribe message failed on this connection

wsVars == <<running, task, resend, wsOpen, delay, subscribed, snapshots, served, sendFailed>>

Books == [bids : Seq(1..99), asks : Seq(1..99)]

WsTypeOK ==
    /\ running \in BOOLEAN /\ wsOpen \in BOOLEAN
    /\ task \in {"none", "connecting", "resubscribing", "listening", "backoff"}
    /\ delay \in 1..MaxDelay
    /\ resend \subseteq Tokens /\ subscribed \subseteq Tokens
    /\ served \subseteq Tokens /\ sendFailed \subseteq Tokens
    /\ DOMAIN snapshots \subseteq Tokens
    /\ \A t \in DOMAIN snapshots : snapshots[t] \in Books

WsInit ==
    /\ running = FALSE /\ task = "none" /\ resend = {} /\ wsOpen = FALSE /\ delay = 1
    /\ subscribed = {} /\ snapshots = <<>> /\ served = {} /\ sendFailed = {}

StartClient ==
    /\ ~running /\ task = "none"
    /\ running' = TRUE /\ task' = "connecting"
    /\ UNCHANGED <<resend, wsOpen, delay, subscribed, snapshots, served, sendFailed>>

\* stop(): close the socket, cancel the task, close the session.
StopClient ==
    /\ running
    /\ running' = FALSE /\ task' = "none" /\ resend' = {}
    /\ wsOpen' = FALSE /\ served' = {} /\ sendFailed' = {}
    /\ UNCHANGED <<delay, subscribed, snapshots>>

\* _send_subscribe on an open socket: it reaches the server, or fails, which is logged only.
Send(t) ==
    \/ served' = served \cup {t} /\ UNCHANGED sendFailed
    \/ sendFailed' = sendFailed \cup {t} /\ UNCHANGED served

\* subscribe(): record the token, and send at once if a socket is open.
SubscribeToken(t) ==
    /\ t \notin subscribed
    /\ subscribed' = subscribed \cup {t}
    /\ IF wsOpen THEN Send(t) ELSE UNCHANGED <<served, sendFailed>>
    /\ UNCHANGED <<running, task, resend, wsOpen, delay, snapshots>>

\* unsubscribe(): local only, the server goes on streaming.
UnsubscribeToken(t) ==
    /\ t \in subscribed
    /\ subscribed' = subscribed \ {t}
    /\ snapshots' = [u \in DOMAIN snapshots \ {t} |-> snapshots[u]]
    /\ UNCHANGED <<running, task, resend, wsOpen, delay, served, sendFailed>>

\* Mutant of Connected: only tokens nobody has a book of are asked for again.
ConnectedForgetsBooks ==
    /\ task = "connecting"
    /\ wsOpen' = TRUE /\ served' = {} /\ sendFailed' = {}
    /\ delay' = 1
    /\ task' = "resubscribing" /\ resend' = subscribed \ DOMAIN snapshots
    /\ UNCHANGED <<running, subscribed, snapshots>>

\* ws_connect returned, _ws is the new socket (an old one, left open by HandlerRaises, is
\* not read any more): the delay is reset and the tokens copied, before anything else runs.
Connected ==
    /\ task = "connecting"
    /\ wsOpen' = TRUE /\ served' = {} /\ sendFailed' = {}
    /\ delay' = 1
    /\ task' = "resubscribing" /\ resend' = subscribed
    /\ UNCHANGED <<running, subscribed, snapshots>>

ConnectFails ==
    /\ task = "connecting"
    /\ task' = "backoff"
    /\ UNCHANGED <<running, resend, wsOpen, delay, subscribed, snapshots, served, sendFailed>>

Resubscribe(t) ==
    /\ task = "resubscribing" /\ t \in resend
    /\ resend' = resend \ {t}
    /\ IF wsOpen THEN Send(t) ELSE UNCHANGED <<served, sendFailed>>
    /\ UNCHANGED <<running, task, wsOpen, delay, subscribed, snapshots>>

Listen ==
    /\ task = "resubscribing" /\ resend = {}
    /\ task' = "listening"
    /\ UNCHANGED <<running, resend, wsOpen, delay, subscribed, snapshots, served, sendFailed>>

\* The connection drops; a failed send only happens on one that is about to.
Drop ==
    /\ wsOpen
    /\ wsOpen' = FALSE /\ served' = {} /\ sendFailed' = {}
    /\ UNCHANGED <<running, task, resend, delay, subscribed, snapshots>>

\* The message loop ends on a closed socket, and the connection loop backs off.
StopListening ==
    /\ task = "listening" /\ ~wsOpen
    /\ task' = "backoff"
    /\ UNCHANGED <<running, resend, wsOpen, delay, subscribed, snapshots, served, sendFailed>>

\* After the sleep the delay doubles, up to its maximum.
Retry ==
    /\ task = "backoff"
    /\ delay' = IF 2 * delay > MaxDelay THEN MaxDelay ELSE 2 * delay
    /\ task' = "connecting"
    /\ UNCHANGED <<running, resend, wsOpen, subscribed, snapshots, served, sendFailed>>

\* _parse_levels: levels without a price or a size are dropped, the others sorted with the
\* highest price first, bids and asks alike.
HighestFirst(levels) ==
    CHOOSE s \in [1..Cardinality(levels) -> levels] : \A i, j \in DOMAIN s : i < j => s[i] > s[j]
ParseLevels(levels) == HighestFirst(levels \ {0})

\* OrderBookSnapshot.best_bid and best_ask: the first level of each side.
BestBid(book) == IF book.bids = <<>> THEN 0 ELSE book.bids[1]
BestAsk(book) == IF book.asks = <<>> THEN 100 ELSE book.asks[1]

\* _handle_message: a message without a usable level changes nothing; otherwise the book is
\* replaced, whether or not the token is still subscribed (and published on the event bus,
\* see EventBus).
HandleMessage(t, bids, asks) ==
    /\ task = "listening" /\ running /\ t \in served
    /\ ParseLevels(bids) # <<>> \/ ParseLevels(asks) # <<>>
    /\ snapshots' = [u \in DOMAIN snapshots \cup {t} |->
          IF u = t THEN [bids |-> ParseLevels(bids), asks |-> ParseLevels(asks)] ELSE snapshots[u]]
    /\ UNCHANGED <<running, task, resend, wsOpen, delay, subscribed, served, sendFailed>>

\* A message that is not a record, or a level that is not, raises in _handle_message or
\* _parse_levels: _connection_loop catches it and backs off, and nobody closes the socket.
HandlerRaises ==
    /\ task = "listening" /\ running /\ wsOpen
    /\ task' = "backoff"
    /\ UNCHANGED <<running, resend, wsOpen, delay, subscribed, snapshots, served, sendFailed>>

WsNext ==
    \/ StartClient \/ StopClient \/ Connected \/ ConnectFails \/ Listen \/ Drop
    \/ StopListening \/ HandlerRaises \/ Retry
    \/ \E t \in Tokens :
          \/ SubscribeToken(t) \/ UnsubscribeToken(t) \/ Resubscribe(t)
          \/ \E bids, asks \in SUBSET Prices : HandleMessage(t, bids, asks)

\* The task is scheduled (asyncio), a socket with a failed send is on its way down, and the
\* network lets a connection, and a message on an open one, through now and then.
WsFairness ==
    /\ WF_wsVars(Listen) /\ WF_wsVars(StopListening) /\ WF_wsVars(Retry)
    /\ WF_wsVars(sendFailed # {} /\ Drop)
    /\ SF_wsVars(Connected)
    /\ \A t \in Tokens :
          WF_wsVars(Resubscribe(t)) /\ SF_wsVars(Resubscribe(t) /\ t \in served')

WsSpec == WsInit /\ [][WsNext]_wsVars /\ WsFairness

-----------------------------------------------------------------------------
\* Safety.  Once the resubscription of a connection is through, every token somebody
\* subscribed to, before, during or after it, is one the server streams, save those whose
\* send failed; nothing is forgotten when subscribe() meets a reconnection.
SubscriptionsReachServer ==
    wsOpen /\ task = "listening" => subscribed \subseteq served \cup sendFailed

\* Liveness.  A subscription is eventually served unless it is withdrawn or the client is
\* stopped, over a connection the loop attends to, through any number of drops, failed sends,
\* failed connections and messages that raise.
Attended == task \in {"resubscribing", "listening"}

SubscriptionsAreServed ==
    \A t \in Tokens :
        (running /\ t \in subscribed) ~> ((t \in served /\ Attended) \/ t \notin subscribed \/ ~running)

\* What types.py says of a snapshot ("asks: Ask levels sorted best (lowest) first"): the best
\* ask is the lowest.  _parse_levels sorts both sides in descending order.
BestAskIsLowest ==
    \A t \in DOMAIN snapshots :
        \A i \in DOMAIN snapshots[t].asks : BestAsk(snapshots[t]) <= snapshots[t].asks[i]
=============================================================================
