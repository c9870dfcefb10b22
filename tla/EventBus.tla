------------------------------ MODULE EventBus ------------------------------
(***************************************************************************)
(* events/bus.py: publishers, the background loop of start(), process()    *)
(* callers (main.py drains the bus at the end of a cycle) and stop().      *)
(* Events are numbered in the order they are published; one topic; the     *)
(* event and error counters, read by `stats` only, are left out.           *)
(***************************************************************************)
EXTENDS Integers, SequencesExt

CONSTANTS Handlers,   \* subscriptions: a callback given to subscribe() twice is two of them
          QueueSize,  \* max_queue_size
          MaxEvents   \* bound: events published in a run

ASSUME BusAssumption == QueueSize \in Nat \ {0} /\ MaxEvents \in Nat

Dispatchers == {"loop", "process", "stop"}  \* who takes events off the queue
Idle == [event |-> 0, left |-> {}]

VARIABLES queue,       \* _queue
          published,   \* events published, the dropped ones included
          dropped,     \* those the full queue refused
          subscribers, \* handlers subscribed to the topic
          active,      \* dispatchers that run: the task, a process() call, the drain of stop();
                       \* bound: one call of each at a time
          dispatch,    \* per dispatcher, its event and the handlers gather still waits for
          target,      \* history: the handlers each event taken off the queue was dispatched to
          seen,        \* history: per handler, the events it finished, in order
          cut,         \* history: events whose dispatch stop() cancelled
          overlapped   \* history: two dispatchers had an event at once

busVars == <<queue, published, dropped, subscribers, active, dispatch, target, seen, cut, overlapped>>

Events == 1..MaxEvents

BusTypeOK ==
    /\ queue \in Seq(Events) /\ Len(queue) <= QueueSize
    /\ published \in 0..MaxEvents /\ dropped \subseteq Events /\ cut \subseteq Events
    /\ subscribers \subseteq Handlers /\ active \subseteq Dispatchers
    /\ dispatch \in [Dispatchers -> [event : 0..MaxEvents, left : SUBSET Handlers]]
    /\ DOMAIN target \subseteq Events /\ \A e \in DOMAIN target : target[e] \subseteq Handlers
    /\ seen \in [Handlers -> Seq(Events)]
    /\ overlapped \in BOOLEAN

BusInit ==
    /\ queue = <<>> /\ published = 0 /\ dropped = {} /\ subscribers = {} /\ active = {}
    /\ dispatch = [d \in Dispatchers |-> Idle]
    /\ target = <<>> /\ seen = [h \in Handlers |-> <<>>]
    /\ cut = {} /\ overlapped = FALSE

\* subscribe() appends to the handlers of the topic, unsubscribe() takes one entry out.
Subscribe(h) ==
    /\ h \notin subscribers
    /\ subscribers' = subscribers \cup {h}
    /\ UNCHANGED <<queue, published, dropped, active, dispatch, target, seen, cut, overlapped>>

Unsubscribe(h) ==
    /\ h \in subscribers
    /\ subscribers' = subscribers \ {h}
    /\ UNCHANGED <<queue, published, dropped, active, dispatch, target, seen, cut, overlapped>>

\* Mutant of Publish: a full queue makes room by forgetting its oldest event.
PublishOverOldest ==
    /\ published < MaxEvents
    /\ published' = published + 1
    /\ queue' = Append(IF Len(queue) < QueueSize THEN queue ELSE Tail(queue), published')
    /\ UNCHANGED <<dropped, subscribers, active, dispatch, target, seen, cut, overlapped>>

\* put_nowait: a full queue drops the newest event.
Publish ==
    /\ published < MaxEvents
    /\ published' = published + 1
    /\ IF Len(queue) < QueueSize
          THEN queue' = Append(queue, published') /\ UNCHANGED dropped
          ELSE dropped' = dropped \cup {published'} /\ UNCHANGED queue
    /\ UNCHANGED <<subscribers, active, dispatch, target, seen, cut, overlapped>>

Activate(d) ==
    /\ d \notin active
    /\ active' = active \cup {d}
    /\ UNCHANGED <<queue, published, dropped, subscribers, dispatch, target, seen, cut, overlapped>>

\* start() does nothing while running, and may come while stop() still drains; a process()
\* call begins.
Start   == Activate("loop")
Process == Activate("process")

\* stop() cancels the task and awaits it: a gather in progress is cancelled with its
\* handlers, whatever they had left to do is not done.  Then it drains.
Stop ==
    /\ "stop" \notin active
    /\ active' = (active \ {"loop"}) \cup {"stop"}
    /\ dispatch' = [dispatch EXCEPT !["loop"] = Idle]
    /\ cut' = cut \cup ({dispatch["loop"].event} \ {0})
    /\ UNCHANGED <<queue, published, dropped, subscribers, target, seen, overlapped>>

\* get / get_nowait and _dispatch up to the gather over a copy of the handlers.
Take(d) ==
    /\ d \in active /\ dispatch[d] = Idle /\ queue # <<>>
    /\ queue' = Tail(queue)
    /\ target' = [e \in DOMAIN target \cup {Head(queue)} |-> IF e = Head(queue) THEN subscribers ELSE target[e]]
    /\ dispatch' = [dispatch EXCEPT ![d] =
          IF subscribers = {} THEN Idle ELSE [event |-> Head(queue), left |-> subscribers]]
    /\ overlapped' = (overlapped \/ \E o \in active \ {d} : dispatch[o] # Idle)
    /\ UNCHANGED <<published, dropped, subscribers, active, seen, cut>>

\* A handler returns or raises (_safe_call and return_exceptions keep the others going);
\* the last one lets the dispatcher take its next event.
HandlerDone(d, h) ==
    /\ h \in dispatch[d].left
    /\ seen' = [seen EXCEPT ![h] = Append(@, dispatch[d].event)]
    /\ dispatch' = [dispatch EXCEPT ![d] =
          IF @.left = {h} THEN Idle ELSE [dispatch[d] EXCEPT !.left = @ \ {h}]]
    /\ UNCHANGED <<queue, published, dropped, subscribers, active, target, cut, overlapped>>

\* process() and the drain of stop() return on an empty queue.
Drained(d) ==
    /\ d \in active \ {"loop"} /\ dispatch[d] = Idle /\ queue = <<>>
    /\ active' = active \ {d}
    /\ UNCHANGED <<queue, published, dropped, subscribers, dispatch, target, seen, cut, overlapped>>

BusNext ==
    \/ \E h \in Handlers : Subscribe(h) \/ Unsubscribe(h)
    \/ Publish \/ Start \/ Process \/ Stop
    \/ \E d \in Dispatchers : Take(d) \/ Drained(d) \/ \E h \in Handlers : HandlerDone(d, h)

BusSpec == BusInit /\ [][BusNext]_busVars

-----------------------------------------------------------------------------
InFlight(e, h) == \E d \in Dispatchers : dispatch[d].event = e /\ h \in dispatch[d].left

\* An event that was accepted is still queued, or each handler it was dispatched to
\* has it: finished once, or still running, or lost to a stop() that cancelled its dispatch.
\* Failing handlers, subscriptions that change meanwhile, a full queue and process() next to
\* the background loop lose nothing and repeat nothing.
AcceptedReachesEveryHandler ==
    \A e \in 1..published :
        \/ e \in dropped
        \/ Contains(queue, e)
        \/ /\ e \in DOMAIN target
           /\ \A h \in target[e] : e \in cut \/ InFlight(e, h) \/ Contains(seen[h], e)

\* A handler finishes events in the order they were published and none twice, as long as only
\* one dispatcher had an event at a time.
HandledInOrder ==
    ~overlapped => \A h \in Handlers : \A i, j \in DOMAIN seen[h] : i < j => seen[h][i] < seen[h][j]

\* Safety.  What the bus promises its subscribers: every accepted event reaches every handler
\* it was dispatched to, and, where one dispatcher is at work, as in main.py, which drains
\* the bus itself and never starts the loop, in order and once.
DeliversInOrder == AcceptedReachesEveryHandler /\ HandledInOrder
=============================================================================
