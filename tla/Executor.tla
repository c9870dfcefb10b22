------------------------------ MODULE Executor ------------------------------
(***************************************************************************)
(* The order executor (execution/executor.py, class OrderExecutor): entry  *)
(* orders placed in paper or live mode, their take-profit / stop-loss      *)
(* bracket (an OCO pair of GTT orders), reconciliation, cancellation and   *)
(* expiry, and SELL orders of close_position.                              *)
(*                                                                         *)
(* The executor runs on one asyncio event loop.  Two tasks use it: the     *)
(* trading cycle, and the shutdown hook that a signal starts next to it.   *)
(* A task gives the loop up only where the code awaits; `loop` names the   *)
(* task that holds it in the middle of a synchronous stretch, so the steps *)
(* of one stretch are separate actions here and still indivisible for the  *)
(* other task.  The exchange (`venue`), the database, the kill-switch file *)
(* and the clock are the environment: they move while the loop waits.      *)
(*                                                                         *)
(* Kept: every status, size, bracket state, id list, lock and await.       *)
(* Abstracted: prices (a limit or trigger is met or not, nondeterminist-   *)
(* ically), amounts (units of the smallest fill), dates (an order is past  *)
(* its age limit or its GTT, a dedup entry is past its window, or not).    *)
(***************************************************************************)
EXTENDS Integers, Sequences

CONSTANTS
  Roots,          \* ids of the orders place_order and close_position create
  Keys,           \* (market_id, direction) pairs: what deduplication compares
  NoRoot, NoKey,  \* null values of the two
  Cycle, Shutdown,\* the tasks: the trading cycle, the shutdown hook
  Sizes,          \* order sizes a caller asks for
  SplitAbove, ChunkTarget, MaxChunks,  \* split_orders_above, 20 USDC, 15
  Live,           \* ~dry_run: orders go to the exchange
  EnableBrackets, PaperFillOnPlace,    \* the settings of these names
  PartialDivisor, \* 1 / paper_partial_fill_ratio; 1 when partial fills are off
  CycleOps,       \* the operations the cycle calls in this instance
  Faults,         \* failing calls in this instance: "post", "no_id", "cancel", "fetch", "db"
  VenueEnds,      \* how the venue may end an order on its own: "cancelled", "expired"
  Events          \* of the environment: "kill", "signal", "crash", "restart", "window", "age", "gtt"

Legs == {"take_profit", "stop_loss"}
OpenStatuses == {"placed", "partially_filled"}
FINAL_ORDER_STATUSES == {"filled", "cancelled", "expired"}
BracketStates == {"inactive", "pending_fill", "armed", "closed", "expired", "cancelled"}
Tasks == {Cycle, Shutdown}
Free == NoRoot  \* nobody holds the lock, or the loop

CeilDiv(a, b) == (a + b - 1) \div b

Least(a, b) == IF a <= b THEN a ELSE b

\* The number of exchange orders an entry of this size is split into.
NChunks(size) == IF size > SplitAbove THEN Least(CeilDiv(size, ChunkTarget), MaxChunks) ELSE 1

Chunks == 1..MaxChunks
Slots == {"root"} \cup Legs
Ids == Roots \X Slots

ASSUME ExecutorAssumption ==
  /\ Sizes \subseteq Nat \ {0}
  /\ MaxChunks \in Nat \ {0}
  /\ ChunkTarget \in Nat \ {0}
  /\ SplitAbove \in Nat
  /\ PartialDivisor \in Nat \ {0}
  /\ \A s \in Sizes : s % NChunks(s) = 0 /\ s % PartialDivisor = 0
  /\ {Live, EnableBrackets, PaperFillOnPlace} \subseteq BOOLEAN
  /\ NoRoot \notin Roots /\ NoKey \notin Keys
  /\ Cycle # Shutdown /\ Free \notin Tasks
  /\ CycleOps \subseteq {"place", "reconcile", "cancel_all", "cancel_one", "cancel_expired", "close"}
  /\ VenueEnds \subseteq {"cancelled", "expired"}

VARIABLES
  ord,      \* self.orders by root, each with the state of its two bracket legs
  orders,   \* the keys of the dict self.orders, in insertion order
  used,     \* every root id ever drawn (uuid4 never repeats)
  recent,   \* self._recent_placements: the keys inside the dedup window
  task,     \* the local state of each task's call
  lock,     \* the holder of self._order_lock
  loop,     \* the task in the middle of a synchronous stretch
  venue,    \* the exchange's order for each chunk of each root
  vcancel,  \* cancel requests sent and not executed yet
  intents,  \* the rows of the table submitted_orders
  killed,   \* the kill-switch file exists
  proc,     \* the process: "up", "stopping" and "closing" (shutdown), "down"
  mishap    \* history: roots a fault, the venue or the shutdown interfered with

memory == <<ord, orders, recent>>
outside == <<venue, vcancel, intents, killed, proc>>
vars == <<ord, orders, used, recent, task, lock, loop, venue, vcancel,
          intents, killed, proc, mishap>>

-----------------------------------------------------------------------------
(* Orders: the record of one root with its legs, and what the executor's   *)
(* helpers make of it.                                                     *)

OrderRec ==
  [kind: {"none", "entry", "exit"}, key: Keys \cup {NoKey},
   status: {"none"} \cup OpenStatuses \cup FINAL_ORDER_STATUSES,
   size: Nat, filled: Nat, bracket: BracketStates, eids: SUBSET Chunks,
   leg: [Legs -> {"none", "armed"} \cup FINAL_ORDER_STATUSES],
   legSize: [Legs -> Nat], aged: BOOLEAN, due: BOOLEAN]

NoOrder ==
  [kind |-> "none", key |-> NoKey, status |-> "none", size |-> 0, filled |-> 0,
   bracket |-> "inactive", eids |-> {}, leg |-> [l \in Legs |-> "none"],
   legSize |-> [l \in Legs |-> 0], aged |-> FALSE, due |-> FALSE]

NewOrder(kind, key, size) ==
  [NoOrder EXCEPT !.kind = kind, !.key = key, !.status = "placed", !.size = size]

HasLegs(o) == o.leg["take_profit"] # "none"

\* _apply_fill on a root: the fill is clipped to what remains.
ApplyFill(o, amount) ==
  LET fill == Least(amount, o.size - o.filled) IN
  IF fill <= 0 THEN o
  ELSE [o EXCEPT !.filled = @ + fill,
                 !.status = IF o.filled + fill = o.size THEN "filled" ELSE "partially_filled"]

\* Mutant of ActiveSize: a leg takes the size ordered, not the size bought.
ActiveSizeOrdered(o) == o.size

ActiveSize(o) == IF o.filled > 0 THEN o.filled ELSE o.size

\* _sync_child_sizes: armed legs take the size bought so far.
SyncChildSizes(o) ==
  [o EXCEPT !.legSize = [l \in Legs |-> IF o.leg[l] = "armed" THEN ActiveSize(o) ELSE o.legSize[l]]]

\* Mutant of ArmBracketOrders: a refresh without _sync_child_sizes.
ArmWithoutSync(o) ==
  IF o.kind # "entry" THEN o
  ELSE IF HasLegs(o) THEN [o EXCEPT !.bracket = "armed"]
  ELSE [o EXCEPT !.bracket = "armed", !.leg = [l \in Legs |-> "armed"],
                 !.legSize = [l \in Legs |-> ActiveSize(o)]]

\* _arm_bracket_orders: create the OCO pair once, refresh it afterwards.
ArmBracketOrders(o) ==
  IF o.kind # "entry" THEN o
  ELSE IF HasLegs(o) THEN SyncChildSizes([o EXCEPT !.bracket = "armed"])
  ELSE [o EXCEPT !.bracket = "armed",
                 !.leg = [l \in Legs |-> "armed"],
                 !.legSize = [l \in Legs |-> ActiveSize(o)]]

\* The last part of the visit of an entry: arm what a fill left without legs.
ArmIfMissing(o) ==
  IF /\ o.bracket \in {"pending_fill", "armed"} /\ o.filled > 0
     /\ EnableBrackets /\ ~HasLegs(o)
  THEN ArmBracketOrders(o) ELSE o

\* Mutant of TriggerLeg: the sibling is forgotten.
TriggerLegAlone(o, l) == [o EXCEPT !.bracket = "closed", !.leg[l] = "filled"]

\* A triggered leg fills, its parent's bracket closes, its armed sibling is cancelled.
TriggerLeg(o, l) ==
  [o EXCEPT !.bracket = "closed",
            !.leg = [k \in Legs |-> IF k = l THEN "filled"
                                    ELSE IF o.leg[k] = "armed" THEN "cancelled" ELSE o.leg[k]]]

\* A leg past its GTT, found by reconcile: the parent is told.
ExpireLeg(o, l) == [o EXCEPT !.bracket = "expired", !.leg[l] = "expired"]

\* The same, found by cancel_expired_orders: the parent is not told.
ExpireLegOnly(o, l) == [o EXCEPT !.leg[l] = "expired"]

\* Mutant of CancelLeg: the other spelling, which the code compares with elsewhere.
CancelLegMisspelt(o, l) == [o EXCEPT !.leg[l] = "canceled"]

CancelLeg(o, l) == [o EXCEPT !.leg[l] = "cancelled"]

\* Mutant of CancelLocal: only the first child of the entry is cancelled.
CancelLocalOneLeg(o) ==
  [o EXCEPT !.status = "cancelled", !.bracket = "cancelled",
            !.leg["take_profit"] = IF @ = "armed" THEN "cancelled" ELSE @]

\* cancel_order without the exchange: an entry takes its unfinished legs along.
CancelLocal(o) ==
  IF o.kind = "entry"
  THEN [o EXCEPT !.status = "cancelled", !.bracket = "cancelled",
                 !.leg = [l \in Legs |-> IF o.leg[l] = "armed" THEN "cancelled" ELSE o.leg[l]]]
  ELSE [o EXCEPT !.status = "cancelled"]

\* Mutant of CancelLive: the live cancel takes the first child along.
CancelLiveOneLeg(o) == CancelLocalOneLeg(o)

\* cancel_order after the exchange answered: the legs are left alone.
CancelLive(o) == [o EXCEPT !.status = "cancelled", !.bracket = "cancelled"]

\* A paper fill: part of the order, and the bracket follows a change of status.
PaperFill(o) ==
  LET f == ApplyFill(o, Least(o.size - o.filled, o.size \div PartialDivisor)) IN
  IF f.status # o.status /\ EnableBrackets THEN ArmBracketOrders(f) ELSE f

\* Mutant of ApplyRows: the venue's total is taken for a new fill.
ApplyRowsWithoutDelta(o, seen, sum) ==
  LET f == ApplyFill(o, sum) IN
  IF f.filled > 0 /\ EnableBrackets THEN ArmBracketOrders(f) ELSE f

\* _reconcile_live_entry once the rows are in: `seen` are their statuses, `sum` their fills.
ApplyRows(o, seen, sum) ==
  LET f == ApplyFill(o, sum - o.filled)
      e == IF f.status \in {"filled", "partially_filled"} THEN f
           ELSE IF "cancelled" \in seen THEN [f EXCEPT !.status = "cancelled"]
           ELSE IF "expired" \in seen THEN [f EXCEPT !.status = "expired"] ELSE f
  IN IF seen = {} THEN o
     ELSE IF e.filled > 0 /\ EnableBrackets THEN ArmBracketOrders(e) ELSE e

-----------------------------------------------------------------------------
(* Task states and what moves them.                                        *)

Ops == {"none", "place", "close", "reconcile", "cancel_all", "cancel_expired"}
PCs == {"idle", "run", "preflight", "posting", "pause", "fetching", "cancelling"}
VenueStates == {"none", "sent", "live", "matched", "cancelled", "expired", "rejected"}

TaskRec ==
  [pc: PCs, op: Ops, root: Roots \cup {NoRoot}, todo: Seq(Ids), books: SUBSET Keys, left: SUBSET Chunks,
   chunk: 0..MaxChunks, n: 1..MaxChunks, got: SUBSET Chunks, seen: SUBSET VenueStates, sum: Nat]

VenueRec == [st: VenueStates, filled: Nat, size: Nat]

IdleTask ==
  [pc |-> "idle", op |-> "none", root |-> NoRoot, todo |-> <<>>, books |-> {}, left |-> {},
   chunk |-> 0, n |-> 1, got |-> {}, seen |-> {}, sum |-> 0]

NoVenueOrder == [st |-> "none", filled |-> 0, size |-> 0]

Init ==
  /\ ord = [r \in Roots |-> NoOrder]
  /\ orders = <<>>
  /\ used = {}
  /\ recent = {}
  /\ task = [t \in Tasks |-> IdleTask]
  /\ lock = Free
  /\ loop = Free
  /\ venue = [x \in Roots \X Chunks |-> NoVenueOrder]
  /\ vcancel = {}
  /\ intents = {}
  /\ killed = FALSE
  /\ proc = "up"
  /\ mishap = {}

\* The dict entries a change of r's record adds: the root itself, or its two legs.
NewIds(r, old, new) ==
  (IF old.status = "none" THEN << <<r, "root">> >> ELSE <<>>)
  \o (IF HasLegs(new) /\ ~HasLegs(old)
      THEN << <<r, "take_profit">>, <<r, "stop_loss">> >> ELSE <<>>)

SetOrder(r, o) ==
  /\ ord' = [ord EXCEPT ![r] = o]
  /\ orders' = orders \o NewIds(r, ord[r], o)

SetTask(t, s) == task' = [task EXCEPT ![t] = s]

\* Mutant of Return: an exit path that does not release the lock.
ReturnLocked(t) ==
  /\ SetTask(t, IdleTask)
  /\ loop' = Free
  /\ UNCHANGED lock

\* The call returns: the loop is free, and so is the lock if this call held it.
Return(t) ==
  /\ SetTask(t, IdleTask)
  /\ loop' = Free
  /\ lock' = IF lock = t THEN Free ELSE lock

\* The cycle may start a call when the loop reaches it.
MayCall(t, op) ==
  /\ t = Cycle /\ op \in CycleOps
  /\ task[t].pc = "idle" /\ loop = Free /\ proc # "down"

At(t, pc) == task[t].pc = pc /\ loop \in {Free, t}

\* Inside a loop over a snapshot of self.orders, at its next element.
Visiting(t, op) == At(t, "run") /\ task[t].op = op /\ task[t].todo # <<>>
Visited(t) == Head(task[t].todo)
Continue(t) ==
  /\ SetTask(t, [task[t] EXCEPT !.pc = "run", !.todo = Tail(@), !.root = NoRoot,
                                !.left = {}, !.chunk = 0, !.seen = {}, !.sum = 0])
  /\ loop' = t

\* c is the first id of the list S (ids are appended in chunk order).
First(S, c) == c \in S /\ \A d \in S : c <= d

-----------------------------------------------------------------------------
(* place_order and close_position.                                         *)

\* Validation, deduplication and creation up to the first await; the whole call in
\* paper mode.  A rejected order (kill switch, duplicate, bad price or size,
\* slippage) changes nothing.
Admits(t, r, k) ==
  /\ MayCall(t, "place") /\ lock = Free
  /\ ~killed /\ k \notin recent /\ r \notin used

PlacePaper(t, r, k, s) ==
  /\ ~Live /\ Admits(t, r, k)
  /\ LET o == NewOrder("entry", k, s)
         f == IF PaperFillOnPlace THEN ApplyFill(o, s) ELSE o
     IN SetOrder(r, IF PaperFillOnPlace /\ EnableBrackets THEN ArmBracketOrders(f) ELSE f)
  /\ used' = used \cup {r}
  /\ recent' = recent \cup {k}
  /\ UNCHANGED <<task, lock, loop, outside, mishap>>

\* The live call stores the intent under a fresh client_order_id (a failing write is
\* ignored), then awaits the balance and gas checks with the lock held.
PlaceLive(t, r, k, s) ==
  /\ Live /\ Admits(t, r, k)
  /\ SetOrder(r, NewOrder("entry", k, s))
  /\ used' = used \cup {r}
  /\ recent' = recent \cup {k}
  /\ \/ intents' = intents \cup {[root |-> r, key |-> k, fresh |-> TRUE]}
     \/ "db" \in Faults /\ UNCHANGED intents
  /\ SetTask(t, [IdleTask EXCEPT !.pc = "preflight", !.op = "place", !.root = r, !.n = NChunks(s)])
  /\ lock' = t
  /\ UNCHANGED <<loop, venue, vcancel, killed, proc, mishap>>

\* create_and_post_order leaves in a worker thread for chunk c of t's order.
Send(t, c) ==
  LET r == task[t].root IN
  /\ venue' = [venue EXCEPT ![<<r, c>>] =
                 [st |-> "sent", filled |-> 0, size |-> ord[r].size \div task[t].n]]
  /\ SetTask(t, [task[t] EXCEPT !.pc = "posting", !.chunk = c])
  /\ UNCHANGED <<vcancel, intents, killed, proc>>

\* Balance and gas suffice: the first chunk goes out.
PreflightOk(t) ==
  /\ At(t, "preflight")
  /\ Send(t, 1)
  /\ UNCHANGED <<memory, used, lock, loop, mishap>>

\* InsufficientBalanceError or the gas price's RuntimeError: the order is cancelled.
PreflightFail(t) ==
  /\ At(t, "preflight")
  /\ SetOrder(task[t].root, [ord[task[t].root] EXCEPT !.status = "cancelled"])
  /\ Return(t)
  /\ UNCHANGED <<used, recent, outside, mishap>>

\* The venue's answer, with or without an order id in it.
Answered(t, named) ==
  LET x == <<task[t].root, task[t].chunk>>
      rejected == venue[x].st = "rejected"
  IN /\ At(t, "posting") /\ venue[x].st # "sent"
     /\ IF named THEN ~rejected ELSE rejected \/ "no_id" \in Faults
     /\ mishap' = IF named \/ rejected THEN mishap ELSE mishap \cup {x[1]}

GotIds(t, named) == task[t].got \cup (IF named THEN {task[t].chunk} ELSE {})

\* More chunks to go: sleep two seconds first.
PostReplyMore(t, named) ==
  /\ Answered(t, named)
  /\ task[t].chunk < task[t].n
  /\ SetTask(t, [task[t] EXCEPT !.pc = "pause", !.got = GotIds(t, named)])
  /\ UNCHANGED <<memory, used, lock, loop, outside>>

NextChunk(t) ==
  /\ At(t, "pause")
  /\ Send(t, task[t].chunk + 1)
  /\ UNCHANGED <<memory, used, lock, loop, mishap>>

\* Mutant of WithIds: the id list is overwritten by each chunk.
WithLastId(o, got) ==
  [o EXCEPT !.eids = {c \in got : \A d \in got : d <= c},
            !.bracket = IF EnableBrackets /\ o.kind = "entry" THEN "pending_fill" ELSE @]

\* Only now does the order learn its exchange ids; its bracket waits for a fill.
WithIds(o, got) ==
  [o EXCEPT !.eids = got,
            !.bracket = IF EnableBrackets /\ o.kind = "entry" THEN "pending_fill" ELSE @]

PostReplyLast(t, named) ==
  /\ Answered(t, named)
  /\ task[t].chunk = task[t].n
  /\ SetOrder(task[t].root, WithIds(ord[task[t].root], GotIds(t, named)))
  /\ Return(t)
  /\ UNCHANGED <<used, recent, outside>>

\* Timeout, network error or any exception: the order is cancelled locally, the ids of
\* its earlier chunks are dropped, and the worker thread may still deliver this one.
PostFail(t) ==
  /\ At(t, "posting")
  /\ "post" \in Faults \/ venue[<<task[t].root, task[t].chunk>>].st = "rejected"
  /\ SetOrder(task[t].root, [ord[task[t].root] EXCEPT !.status = "cancelled"])
  /\ mishap' = mishap \cup {task[t].root}
  /\ Return(t)
  /\ UNCHANGED <<used, recent, outside>>

\* close_position: no lock, no kill-switch or duplicate check.
CloseCall(t, r, s) ==
  /\ MayCall(t, "close") /\ r \notin used
  /\ LET o == NewOrder("exit", NoKey, s) IN
     SetOrder(r, IF Live THEN o ELSE ApplyFill(o, s))
  /\ used' = used \cup {r}
  /\ IF Live
     THEN /\ venue' = [venue EXCEPT ![<<r, 1>>] = [st |-> "sent", filled |-> 0, size |-> s]]
          /\ SetTask(t, [IdleTask EXCEPT !.pc = "posting", !.op = "close", !.root = r, !.chunk = 1])
     ELSE UNCHANGED <<venue, task>>
  /\ UNCHANGED <<recent, lock, loop, vcancel, intents, killed, proc, mishap>>

-----------------------------------------------------------------------------
(* cancel_order, cancel_all_open_orders and cancel_expired_orders: loops   *)
(* over a snapshot of self.orders that take no lock.                       *)

StatusOf(id) == IF id[2] = "root" THEN ord[id[1]].status ELSE ord[id[1]].leg[id[2]]

\* Mutant of Open: no test for a final status.
OpenOrDone(status) == status # "none"

Open(status) == status \in OpenStatuses \cup {"armed"}

Scan(t, op, snapshot, books) ==
  /\ SetTask(t, [IdleTask EXCEPT !.pc = "run", !.op = op, !.todo = snapshot, !.books = books])
  /\ loop' = t

CancelAllCall(t) ==
  /\ MayCall(t, "cancel_all")
  /\ Scan(t, "cancel_all", orders, {})
  /\ UNCHANGED <<memory, used, lock, outside, mishap>>

CancelExpiredCall(t) ==
  /\ MayCall(t, "cancel_expired")
  /\ Scan(t, "cancel_expired", orders, {})
  /\ UNCHANGED <<memory, used, lock, outside, mishap>>

\* cancel_order of one root: a snapshot of that root alone.
CancelOneCall(t, r) ==
  /\ MayCall(t, "cancel_one") /\ ord[r].status # "none"
  /\ Scan(t, "cancel_all", << <<r, "root">> >>, {})
  /\ UNCHANGED <<memory, used, lock, outside, mishap>>

\* Does this element get as far as cancel_order?
ToCancel(t, id) ==
  CASE task[t].op = "cancel_all" -> Open(StatusOf(id))
    [] task[t].op = "cancel_expired" ->
         id[2] = "root" /\ StatusOf(id) \in OpenStatuses /\ ord[id[1]].aged
    [] OTHER -> FALSE

\* An armed leg past its GTT (cancel_expired_orders only).
ToExpire(t, id) ==
  task[t].op = "cancel_expired" /\ id[2] \in Legs /\ StatusOf(id) = "armed" /\ ord[id[1]].due

Scanning(t) == Visiting(t, "cancel_all") \/ Visiting(t, "cancel_expired")

ScanSkip(t) ==
  /\ Scanning(t)
  /\ ~ToCancel(t, Visited(t)) /\ ~ToExpire(t, Visited(t))
  /\ Continue(t)
  /\ UNCHANGED <<memory, used, lock, outside, mishap>>

ScanExpire(t) ==
  /\ Scanning(t) /\ ToExpire(t, Visited(t))
  /\ LET id == Visited(t) IN SetOrder(id[1], ExpireLegOnly(ord[id[1]], id[2]))
  /\ Continue(t)
  /\ UNCHANGED <<used, recent, lock, outside, mishap>>

\* A leg, a SELL order or any paper order is cancelled in memory only.
ScanCancelLocal(t) ==
  /\ Scanning(t) /\ ToCancel(t, Visited(t))
  /\ LET r == Visited(t)[1]  slot == Visited(t)[2] IN
     /\ ~Live \/ slot # "root" \/ ord[r].kind # "entry"
     /\ SetOrder(r, IF slot = "root" THEN CancelLocal(ord[r]) ELSE CancelLeg(ord[r], slot))
  /\ Continue(t)
  /\ UNCHANGED <<used, recent, lock, outside, mishap>>

LiveEntryToCancel(t, r) ==
  /\ Scanning(t) /\ ToCancel(t, Visited(t)) /\ Live
  /\ Visited(t) = <<r, "root">> /\ ord[r].kind = "entry"

\* A live entry with no exchange id yet: nothing to send, so it is cancelled at once.
ScanCancelNoIds(t) ==
  \E r \in Roots :
    /\ LiveEntryToCancel(t, r) /\ ord[r].eids = {}
    /\ SetOrder(r, CancelLive(ord[r]))
    /\ mishap' = mishap \cup {r}
    /\ Continue(t)
    /\ UNCHANGED <<used, recent, lock, outside>>

\* clob.cancel leaves for the first id of `ids`.
SendCancel(t, r, ids) ==
  \E c \in Chunks :
    /\ First(ids, c)
    /\ vcancel' = vcancel \cup {<<r, c>>}
    /\ SetTask(t, [task[t] EXCEPT !.pc = "cancelling", !.root = r, !.chunk = c, !.left = ids \ {c}])
    /\ loop' = Free
    /\ UNCHANGED <<memory, used, lock, venue, intents, killed, proc, mishap>>

ScanCancelLive(t) ==
  \E r \in Roots : LiveEntryToCancel(t, r) /\ SendCancel(t, r, ord[r].eids)

CancelReply(t) == At(t, "cancelling") /\ <<task[t].root, task[t].chunk>> \notin vcancel

\* clob.cancel returned for the id sent last; the next id goes out.
CancelReplyMore(t) == CancelReply(t) /\ SendCancel(t, task[t].root, task[t].left)

\* ... for the last id: the order is cancelled, whatever happened to it meanwhile.
CancelReplyLast(t) ==
  /\ CancelReply(t) /\ task[t].left = {}
  /\ SetOrder(task[t].root, CancelLive(ord[task[t].root]))
  /\ Continue(t)
  /\ UNCHANGED <<used, recent, lock, outside, mishap>>

\* Mutant of CancelFail: send it again until it is answered in time.
CancelRetry(t) ==
  /\ At(t, "cancelling") /\ "cancel" \in Faults
  /\ LET x == <<task[t].root, task[t].chunk>> IN
     /\ vcancel' = vcancel \cup {x}
     /\ mishap' = mishap \cup {x[1]}
  /\ UNCHANGED <<memory, used, task, lock, loop, venue, intents, killed, proc>>

\* Timeout or error: cancel_order returns False and the order stays as it is.
CancelFail(t) ==
  /\ At(t, "cancelling") /\ "cancel" \in Faults
  /\ mishap' = mishap \cup {task[t].root}
  /\ Continue(t)
  /\ UNCHANGED <<memory, used, lock, outside>>

\* The loop is through.  When it was the shutdown hook's, the next hooks run.
ScanDone(t) ==
  /\ At(t, "run") /\ task[t].op \in {"cancel_all", "cancel_expired"} /\ task[t].todo = <<>>
  /\ Return(t)
  /\ proc' = IF t = Shutdown THEN "closing" ELSE proc
  /\ UNCHANGED <<memory, used, venue, vcancel, intents, killed, mishap>>

-----------------------------------------------------------------------------
(* reconcile_orders: a loop over a snapshot of self.orders, under the lock. *)

\* The caller passes the books of the markets it scanned.
ReconcileCall(t) ==
  /\ MayCall(t, "reconcile") /\ lock = Free
  /\ \E books \in SUBSET Keys : Scan(t, "reconcile", orders, books)
  /\ lock' = t
  /\ UNCHANGED <<memory, used, outside, mishap>>

VisitRoot(t, r) == Visiting(t, "reconcile") /\ Visited(t) = <<r, "root">>

\* Mutant of OpenEntry: finished entries are reconciled too.
AnyEntry(r) == ord[r].kind = "entry"

OpenEntry(r) == ord[r].kind = "entry" /\ ord[r].status \notin FINAL_ORDER_STATUSES

HasBook(t, r) == ord[r].key \in task[t].books

VisitArmedLeg(t, r, l) ==
  /\ Visiting(t, "reconcile") /\ Visited(t) = <<r, l>>
  /\ ord[r].leg[l] = "armed" /\ HasBook(t, r)

\* Finished entries, SELL orders, unarmed legs; without a book, paper entries and armed
\* legs too; and a leg whose trigger price has not come.
VisitSkip(t) ==
  /\ Visiting(t, "reconcile")
  /\ LET r == Visited(t)[1] IN
     IF Visited(t)[2] = "root"
     THEN ~OpenEntry(r) \/ (~Live /\ ~HasBook(t, r))
     ELSE StatusOf(Visited(t)) = "armed" /\ HasBook(t, r) => ~ord[r].due
  /\ Continue(t)
  /\ UNCHANGED <<memory, used, lock, outside, mishap>>

\* An open paper entry with a book: the limit is met, or not.
VisitPaperEntry(t, r) ==
  /\ ~Live /\ VisitRoot(t, r) /\ OpenEntry(r) /\ HasBook(t, r)
  /\ \E o \in {ord[r], PaperFill(ord[r])} : SetOrder(r, ArmIfMissing(o))
  /\ Continue(t)
  /\ UNCHANGED <<used, recent, lock, outside, mishap>>

VisitLegExpired(t, r, l) ==
  /\ VisitArmedLeg(t, r, l) /\ ord[r].due
  /\ SetOrder(r, ExpireLeg(ord[r], l))
  /\ Continue(t)
  /\ UNCHANGED <<used, recent, lock, outside, mishap>>

\* The trigger price is met: in paper and in live mode the fill is a local one.
VisitLegTriggered(t, r, l) ==
  /\ VisitArmedLeg(t, r, l) /\ ~ord[r].due
  /\ SetOrder(r, TriggerLeg(ord[r], l))
  /\ Continue(t)
  /\ UNCHANGED <<used, recent, lock, outside, mishap>>

\* What the rows say is applied to the order as it is by now.
Apply(t, r, seen, sum) ==
  /\ SetOrder(r, ArmIfMissing(ApplyRows(ord[r], seen, sum)))
  /\ Continue(t)
  /\ UNCHANGED <<used, recent, lock, outside, mishap>>

\* The status request for the first id of `ids` leaves.
Fetch(t, r, ids, seen, sum) ==
  \E c \in Chunks :
    /\ First(ids, c)
    /\ SetTask(t, [task[t] EXCEPT !.pc = "fetching", !.root = r, !.chunk = c, !.left = ids \ {c},
                                  !.seen = seen, !.sum = sum])
    /\ loop' = Free
    /\ UNCHANGED <<memory, used, lock, outside, mishap>>

\* An open live entry: the venue is asked about each of its ids in turn.
VisitLiveEntry(t, r) ==
  /\ Live /\ VisitRoot(t, r) /\ OpenEntry(r)
  /\ \/ Fetch(t, r, ord[r].eids, {}, 0)
     \/ ord[r].eids = {} /\ Apply(t, r, {}, 0)

Fetched(t, seen, sum) ==
  \/ Fetch(t, task[t].root, task[t].left, seen, sum)
  \/ task[t].left = {} /\ Apply(t, task[t].root, seen, sum)

FetchReply(t) ==
  /\ At(t, "fetching")
  /\ LET row == venue[<<task[t].root, task[t].chunk>>] IN
     Fetched(t, task[t].seen \cup {row.st}, task[t].sum + row.filled)

\* Timeout, error or an answer that does not parse: no row for this id.
FetchFail(t) ==
  /\ At(t, "fetching") /\ "fetch" \in Faults
  /\ Fetched(t, task[t].seen, task[t].sum)

ReconcileDone(t) ==
  /\ At(t, "run") /\ task[t].op = "reconcile" /\ task[t].todo = <<>>
  /\ Return(t)
  /\ UNCHANGED <<memory, used, outside, mishap>>

-----------------------------------------------------------------------------
(* The environment.  It moves while the loop waits.                        *)

VenueAnswers(x, states) ==
  \E s \in states :
    /\ venue' = [venue EXCEPT ![x].st = s]
    /\ UNCHANGED <<memory, used, task, lock, loop, vcancel, intents, killed, proc>>

\* A request in flight is accepted or refused, also when the caller gave up on it.
VenueReceive(x) ==
  /\ loop = Free /\ venue[x].st = "sent"
  /\ VenueAnswers(x, {"live", "rejected"})
  /\ UNCHANGED mishap

VenueFill(x) ==
  /\ loop = Free /\ venue[x].st = "live"
  /\ venue' = [venue EXCEPT ![x].filled = @ + 1,
                            ![x].st = IF venue[x].filled + 1 = venue[x].size THEN "matched" ELSE @]
  /\ UNCHANGED <<memory, used, task, lock, loop, vcancel, intents, killed, proc, mishap>>

\* The venue ends an order on its own.
VenueEnd(x) ==
  /\ loop = Free /\ venue[x].st = "live"
  /\ VenueAnswers(x, VenueEnds)
  /\ mishap' = mishap \cup {x[1]}

\* A cancel request arrives: a live order is cancelled, any other stays what it is.
VenueCancel(x) ==
  /\ loop = Free /\ x \in vcancel
  /\ vcancel' = vcancel \ {x}
  /\ venue' = [venue EXCEPT ![x].st = IF @ = "live" THEN "cancelled" ELSE @]
  /\ UNCHANGED <<memory, used, task, lock, loop, intents, killed, proc, mishap>>

\* KillSwitch.activate and deactivate, or the operator's echo and rm of the file.
KillSwitchFlip ==
  /\ "kill" \in Events /\ loop = Free
  /\ killed' = ~killed
  /\ UNCHANGED <<memory, used, task, lock, loop, venue, vcancel, intents, proc, mishap>>

\* The dedup window of a key passes.
WindowPasses(k) ==
  /\ "window" \in Events /\ loop = Free
  /\ recent' = recent \ {k}
  /\ intents' = {IF i.key = k THEN [i EXCEPT !.fresh = FALSE] ELSE i : i \in intents}
  /\ UNCHANGED <<ord, orders, used, task, lock, loop, venue, vcancel, killed, proc, mishap>>

\* An open order grows older than order_expiry_minutes.
OrderAges(r) ==
  /\ "age" \in Events /\ loop = Free /\ ord[r].status \in OpenStatuses /\ ~ord[r].aged
  /\ ord' = [ord EXCEPT ![r].aged = TRUE]
  /\ UNCHANGED <<orders, used, recent, task, lock, loop, outside, mishap>>

\* The GTT date of a bracket passes; both legs carry the same one.
GttPasses(r) ==
  /\ "gtt" \in Events /\ loop = Free /\ ~ord[r].due
  /\ \E l \in Legs : ord[r].leg[l] = "armed"
  /\ ord' = [ord EXCEPT ![r].due = TRUE]
  /\ UNCHANGED <<orders, used, recent, task, lock, loop, outside, mishap>>

\* SIGINT or SIGTERM: the first hook cancels the open orders, next to the cycle.
Signal ==
  /\ "signal" \in Events /\ loop = Free /\ proc = "up"
  /\ Scan(Shutdown, "cancel_all", orders, {})
  /\ proc' = "stopping"
  /\ UNCHANGED <<memory, used, lock, venue, vcancel, intents, killed, mishap>>

\* The hook's time is up while it awaits the exchange: it is dropped.
HookTimeout ==
  /\ proc = "stopping" /\ At(Shutdown, "cancelling")
  /\ Return(Shutdown)
  /\ proc' = "closing"
  /\ mishap' = mishap \cup {task[Shutdown].root}
  /\ UNCHANGED <<memory, used, venue, vcancel, intents, killed>>

\* Everything the process remembers is gone: orders live in memory only.
LoseMemory ==
  /\ ord' = [r \in Roots |-> NoOrder]
  /\ orders' = <<>>
  /\ recent' = {}
  /\ task' = [t \in Tasks |-> IdleTask]
  /\ lock' = Free /\ loop' = Free
  /\ proc' = "down"
  /\ mishap' = mishap \cup used
  /\ UNCHANGED <<used, venue, vcancel, intents, killed>>

\* sys.exit(0) after the last hook.
Exit == proc = "closing" /\ loop = Free /\ LoseMemory

\* Power loss, kill -9, or a second signal (sys.exit(1)).
Crash == "crash" \in Events /\ proc # "down" /\ loop = Free /\ LoseMemory

Restart ==
  /\ "restart" \in Events /\ proc = "down"
  /\ proc' = "up"
  /\ UNCHANGED <<memory, used, task, lock, loop, venue, vcancel, intents, killed, mishap>>

-----------------------------------------------------------------------------
Call(t) ==
  \/ \E r \in Roots, k \in Keys, s \in Sizes : PlacePaper(t, r, k, s) \/ PlaceLive(t, r, k, s)
  \/ \E r \in Roots, s \in Sizes : CloseCall(t, r, s)
  \/ ReconcileCall(t)
  \/ CancelAllCall(t)
  \/ CancelExpiredCall(t)
  \/ \E r \in Roots : CancelOneCall(t, r)

\* The steps of a call under way.
Advance(t) ==
  \/ PreflightOk(t) \/ PreflightFail(t) \/ NextChunk(t) \/ PostFail(t)
  \/ \E named \in BOOLEAN : PostReplyMore(t, named) \/ PostReplyLast(t, named)
  \/ ScanSkip(t) \/ ScanExpire(t) \/ ScanCancelLocal(t) \/ ScanCancelNoIds(t)
  \/ ScanCancelLive(t) \/ CancelReplyMore(t) \/ CancelReplyLast(t) \/ CancelFail(t)
  \/ ScanDone(t)
  \/ VisitSkip(t)
  \/ \E r \in Roots : VisitPaperEntry(t, r) \/ VisitLiveEntry(t, r)
  \/ \E r \in Roots, l \in Legs : VisitLegExpired(t, r, l) \/ VisitLegTriggered(t, r, l)
  \/ FetchReply(t) \/ FetchFail(t) \/ ReconcileDone(t)

Venue == \E x \in Roots \X Chunks :
  VenueReceive(x) \/ VenueFill(x) \/ VenueEnd(x) \/ VenueCancel(x)

Environment ==
  \/ Venue
  \/ KillSwitchFlip
  \/ \E k \in Keys : WindowPasses(k)
  \/ \E r \in Roots : OrderAges(r) \/ GttPasses(r)
  \/ Signal \/ HookTimeout \/ Exit \/ Crash \/ Restart

Next == (\E t \in Tasks : Call(t) \/ Advance(t)) \/ Environment

Spec == Init /\ [][Next]_vars

-----------------------------------------------------------------------------
(* Properties.                                                             *)

\* The state is well formed: order records, the dict's keys, the calls, the venue's view.
TypeOK ==
  /\ ord \in [Roots -> OrderRec]
  /\ orders \in Seq(Ids)
  /\ used \in SUBSET Roots
  /\ recent \in SUBSET Keys
  /\ task \in [Tasks -> TaskRec]
  /\ lock \in Tasks \cup {Free}
  /\ loop \in Tasks \cup {Free}
  /\ venue \in [Roots \X Chunks -> VenueRec]
  /\ vcancel \in SUBSET (Roots \X Chunks)
  /\ intents \in SUBSET [root: Roots, key: Keys, fresh: BOOLEAN]
  /\ killed \in BOOLEAN
  /\ proc \in {"up", "stopping", "closing", "down"}
  /\ mishap \in SUBSET Roots

\* The fills of an order stay within its size and agree with its status, and its legs
\* exist together, only on an entry that bought something (lines 385-415, 431-540).
FillsAgree(o) ==
  /\ o.filled <= o.size
  /\ o.status = "filled" => o.filled = o.size /\ o.size > 0
  /\ o.status = "partially_filled" => 0 < o.filled /\ o.filled < o.size
  /\ HasLegs(o) => o.kind = "entry" /\ o.filled > 0
  /\ \A l \in Legs : o.leg[l] = "none" <=> ~HasLegs(o)

\* One cancels the other: once a leg has filled its sibling can neither fill nor wait to
\* (the OCO group, lines 1002-1025), in whatever order passes, cancels and expiry come.
OneExit(o) ==
  \A l, k \in Legs : l # k /\ o.leg[l] = "filled" => o.leg[k] \in {"cancelled", "expired"}

\* A leg never sells more than its entry bought (reduce_only, _sync_child_sizes).
ExitWithinPosition(o) ==
  HasLegs(o) => \A l \in Legs : 0 < o.legSize[l] /\ o.legSize[l] <= o.filled

OcoSound == \A r \in Roots : FillsAgree(ord[r]) /\ OneExit(ord[r]) /\ ExitWithinPosition(ord[r])

\* Whatever an entry bought got its bracket in the same stretch, and armed legs are
\* resized to every later fill: an armed leg sells exactly the position.
BracketCoversPosition ==
  EnableBrackets =>
    \A r \in Roots :
      ord[r].kind = "entry" /\ ord[r].filled > 0 =>
        /\ HasLegs(ord[r])
        /\ \A l \in Legs : ord[r].leg[l] = "armed" => ord[r].legSize[l] = ord[r].filled

\* Seen from another task, a stop-loss is never armed without its take-profit or the
\* other way round: every loop that ends one leg ends the other before it awaits.
LegsTogether ==
  loop = Free =>
    \A r \in Roots : ord[r].leg["take_profit"] = "armed" <=> ord[r].leg["stop_loss"] = "armed"

\* A finished order stays as it finished, until the process ends.  In live mode this is
\* so only while the cycle is alone: the shutdown hook cancels an entry whose rows the
\* cycle is fetching, and the rows then bring it back.
FinalIsFinal ==
  [][\A r \in Roots :
       ord[r].status \in FINAL_ORDER_STATUSES /\ proc' # "down" /\ (Live => proc = "up") =>
         ord'[r].status = ord[r].status /\ ord'[r].filled = ord[r].filled]_vars

VenueFilled(r) ==
  LET upTo[c \in 0..MaxChunks] == IF c = 0 THEN 0 ELSE upTo[c - 1] + venue[<<r, c>>].filled
  IN upTo[MaxChunks]

\* The fills a live order reports were made by the venue: rows read at different times,
\* around cancels and timeouts, never add up to more than the venue traded.
FillsAreReal == Live => \A r \in Roots : ord[r].filled <= VenueFilled(r)

\* A task is still about to learn, or to cancel, the chunk x.
InHand(x) ==
  \E t \in Tasks :
    /\ task[t].root = x[1]
    /\ \/ task[t].pc \in {"posting", "pause"} /\ task[t].op = "place"
          /\ x[2] \in task[t].got \cup {task[t].chunk}
       \/ task[t].pc = "cancelling" /\ x[2] \in task[t].left \cup {task[t].chunk}

\* A live order of the venue is known: its entry is open and holds its id, or a call
\* has it in hand; unless a venue call failed, the venue ended a chunk of the entry on
\* its own, the shutdown hit its placement, or the process went down.
NoOrphanWithoutCause ==
  \A x \in Roots \X Chunks :
    venue[x].st = "live" /\ x[1] \notin mishap /\ ord[x[1]].kind # "exit" =>
      \/ ord[x[1]].status \in OpenStatuses /\ x[2] \in ord[x[1]].eids
      \/ InHand(x)

\* What the executor promises of each entry: see BracketPosition.
LegSold(o, l) == IF o.leg[l] = "filled" THEN o.legSize[l] ELSE 0

Position == INSTANCE BracketPosition WITH
  Entries <- Roots,
  bought <- [r \in Roots |-> IF ord[r].kind = "entry" THEN ord[r].filled ELSE 0],
  sold <- [r \in Roots |-> LegSold(ord[r], "take_profit") + LegSold(ord[r], "stop_loss")]

PositionSpec == Position!Spec

-----------------------------------------------------------------------------
(* Liveness, under the fairness asyncio and the main loop give.            *)

\* Every await of a call is bounded by wait_for or sleep, and asyncio's ready queue is
\* first in, first out, so a call that can go on whenever the loop is free goes on;
\* run_cycle reconciles in every cycle that gets past the kill switch and the market scan
\* (the instance that assumes this has no kill switch and no failing fetch); a request
\* reaches the venue.  Strong fairness, because all of them are disabled while another
\* task holds the loop.
Fairness ==
  /\ \A t \in Tasks : SF_vars(Advance(t))
  /\ SF_vars(ReconcileCall(Cycle))
  /\ SF_vars(\E x \in Roots \X Chunks : VenueReceive(x))
  /\ SF_vars(\E x \in Roots \X Chunks : VenueCancel(x))

FairSpec == Spec /\ Fairness

\* No call keeps the lock or the loop for ever, whatever the venue does.
CallsReturn == \A t \in Tasks : task[t].pc # "idle" ~> task[t].pc = "idle"

\* A fill the venue made on an open entry is noticed and bracketed, unless the entry is
\* cancelled first or the process ends.
FillsGetProtected ==
  \A r \in Roots :
    (ord[r].status = "placed" /\ \E c \in ord[r].eids : venue[<<r, c>>].filled > 0)
      ~> (HasLegs(ord[r]) \/ ord[r].status \in {"cancelled", "expired"} \/ proc = "down")

-----------------------------------------------------------------------------
(* What the documentation says of the executor, checked against the code.  *)

\* kill_switch.py:3-4: with the switch on, all trading operations halt immediately.
NoPostWhileKilled ==
  [][\A x \in Roots \X Chunks :
       venue[x].st = "none" /\ venue'[x].st = "sent" => ~killed]_vars

\* shutdown.py:3: the shutdown cancels open orders.
CleanExitLeavesNothingLive ==
  proc = "down" => \A x \in Roots \X Chunks : venue[x].st # "live"

\* CHANGELOG.md:58: idempotent orders through submitted_orders: no second intent for a
\* market and direction while the first is inside its window.
NoDoubleIntent ==
  \A i, j \in intents : i.key = j.key /\ i.fresh /\ j.fresh => i = j

=============================================================================
