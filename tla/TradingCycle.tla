---------------------------- MODULE TradingCycle ----------------------------
(***************************************************************************)
(* The trading loop (main.py, PolymarketTradingAgent): run_forever calls   *)
(* run_cycle, which scans, reconciles orders, sizes and places new ones,   *)
(* recomputes the bankroll from the trades table, cancels expired orders   *)
(* and audits positions.  With it the parts whose state it moves: the      *)
(* trades table (tracking/tracker.py), the drawdown controller and the     *)
(* sizer (risk/), the position reconciler (tracking/reconciler.py), the    *)
(* kill switch and the shutdown hooks.                                     *)
(*                                                                         *)
(* The cycle is one task that awaits between the stages below (`pc`); a    *)
(* crash, a failing database or network call, the shutdown hooks, a human  *)
(* at the kill switch and midnight come in at any of them.  The executor   *)
(* is kept to what the cycle sees of it: the status, filled part and       *)
(* bracket of an order, and the lifecycle events of a pass (module         *)
(* Executor has the rest).  Money is in units; a size is divided by        *)
(* integer division, an entry fills by halves, prices appear only as the   *)
(* percentage an exit gains or loses.  Scan, sentiment and edge estimation *)
(* are an arbitrary choice of market and wanted size.                      *)
(***************************************************************************)
EXTENDS Integers, FiniteSets, Sequences, FiniteSetsExt

CONSTANTS
  NOrders,        \* bound: orders placed in a run
  MarketOf(_),    \* the market, which is also the category, of an order
  Wants,          \* sizes the Kelly formula asks for before the limits
  GrossPct,       \* what an exit gains or loses, in percent of the size
  Initial, MaxPositionPct, MaxPortfolioPct, MaxCategoryPct, MaxPositions,
  MaxPerCategory, MinPosition,          \* settings of the sizer
  ReducePct, StopPct, EmergencyPct,     \* settings of the drawdown controller
  DailyLimit,     \* daily_loss_limit_usdc
  FeePct,         \* taker_fee_rate
  TopN,           \* opportunities placed per cycle (5)
  MaxFailures,    \* max_consecutive_failures
  AutoClose,      \* auto_close_phantoms
  FillOnPlace,    \* paper_fill_on_place
  DryRunSettings, Flags,  \* dry_run in the settings file; "none", "--dry-run" or "--live"
  Disturbances,   \* what may come in: "fail", "stop", "flip", "midnight"
  Budget          \* bound: how many of them in a run

ASSUME CycleAssumption ==
  /\ NOrders \in Nat \ {0}
  /\ Wants \subseteq Nat
  /\ Initial \in Nat \ {0}
  /\ {MaxPositionPct, MaxPortfolioPct, MaxCategoryPct} \subseteq 0..100
  /\ {ReducePct, StopPct, EmergencyPct, DailyLimit, FeePct} \subseteq Nat /\ GrossPct \subseteq Int
  /\ 0 < ReducePct /\ ReducePct < StopPct /\ StopPct <= EmergencyPct
  /\ {AutoClose, FillOnPlace} \subseteq BOOLEAN
  /\ MinPosition \in Nat \ {0} /\ TopN \in Nat /\ MaxFailures \in Nat \ {0}
  /\ DryRunSettings \subseteq BOOLEAN /\ Flags \subseteq {"none", "--dry-run", "--live"}
  /\ Disturbances \subseteq {"fail", "stop", "flip", "midnight"} /\ Budget \in Nat

VARIABLES
  proc,       \* "up"; "stopping", "closed": shutdown hooks ran; "down"
  mode,       \* [executor, agent]: the two copies of the setting dry_run
  pc,         \* the stage of the cycle
  orders,     \* executor.orders, as the cycle sees it
  used,       \* how many order ids were drawn (uuid4 never repeats)
  turn,       \* how far the executor's pass, or the placing loop, has come
  events,     \* lifecycle events not applied to the table yet
  positions,  \* the list open_positions the cycle holds
  mult,       \* dd_mult, in percent
  bankroll,   \* self._bankroll, and sizer.bankroll
  peak, daily, dailyOld,  \* the drawdown controller; dailyOld: its date is past
  failures,   \* self._consecutive_failures
  rows,       \* the trades table
  killed,     \* the kill-switch file exists
  budget,     \* what is left of Budget
  history     \* for the properties only

local == <<turn, events, positions, mult>>
money == <<bankroll, peak, daily, dailyOld>>
outside == <<mode, killed, budget>>
vars == <<proc, mode, pc, orders, used, turn, events, positions, mult, bankroll,
          peak, daily, dailyOld, failures, rows, killed, budget, history>>

Orders == 1..NOrders
OpenEntry == {"placed", "partially_filled"}
Statuses == OpenEntry \cup {"none", "filled", "cancelled"}
Stages == {"idle", "scan", "reconcile", "apply", "close", "size", "halt",
           "place", "record", "account", "expire", "audit"}

-----------------------------------------------------------------------------
(* Orders, rows, money.                                                    *)

OrderRec == [st: Statuses, size: Nat, filled: Nat, paper: BOOLEAN,
             leg: {"none", "armed", "sold", "gone"}]
NoOrder == [st |-> "none", size |-> 0, filled |-> 0, paper |-> TRUE, leg |-> "none"]

\* entryFees and exitFees count how often each side was charged.
RowRec == [st: {"none", "open", "closed"}, size: Nat, filled: Nat, entry: Statuses,
           fee: Nat, entryFees: Nat, exitFees: Nat, pnl: Int]
NoRow == [st |-> "none", size |-> 0, filled |-> 0, entry |-> "none",
          fee |-> 0, entryFees |-> 0, exitFees |-> 0, pnl |-> 0]

LargerOf(a, b) == IF a >= b THEN a ELSE b
SmallestOf(S) == CHOOSE x \in S : \A y \in S : x <= y
FeeOn(size) == (size * FeePct) \div 100
Known(o) == orders[o].st # "none"
OpenRows == {o \in Orders : rows[o].st = "open"}
ClosedRows == {o \in Orders : rows[o].st = "closed"}
Total(amount, S) == MapThenSumSet(LAMBDA o : amount[o], S)
Capital(S) == Total([o \in Orders |-> rows[o].size], S)
Realised == Total([o \in Orders |-> rows[o].pnl], ClosedRows)

\* Or-default of the size: an unfilled trade counts with its full size.
Traded(r) == IF r.filled > 0 THEN r.filled ELSE r.size

\* The row of an order after sync_entry_order: its status stays what it is.
Synced(o) ==
  IF rows[o].st = "none" THEN rows[o]
  ELSE [rows[o] EXCEPT !.entry = orders[o].st, !.filled = orders[o].filled]

\* Mutant of Cancelled: a status the rest of the system does not know.
CancelledMisspelt(order) == [order EXCEPT !.st = "canceled"]

\* cancel_order of an entry; in paper mode its legs go with it.
Cancelled(order) ==
  [order EXCEPT !.st = "cancelled",
                !.leg = IF order.paper /\ @ = "armed" THEN "gone" ELSE @]

\* close_position: the row is found by its id and written whatever its status.
Closed(r, pct) ==
  [r EXCEPT !.st = "closed", !.pnl = (pct * Traded(r)) \div 100 - r.fee]

ChargeEntry(r, amount) == [r EXCEPT !.fee = @ + FeeOn(amount), !.entryFees = @ + 1]
ChargeExit(r) == [r EXCEPT !.fee = @ + FeeOn(Traded(r)), !.exitFees = @ + 1]

-----------------------------------------------------------------------------
(* Risk.                                                                   *)

DrawdownAtLeast(pct) == peak > 0 /\ 100 * (peak - bankroll) >= pct * peak
DailyLimitHit == daily <= -DailyLimit

\* Mutant of Multiplier: only the emergency tier is left, and no daily limit.
MultiplierUntilEmergency ==
  IF peak > 0 /\ DrawdownAtLeast(EmergencyPct) THEN 0 ELSE 100

\* get_multiplier, in percent.
Multiplier ==
  IF peak <= 0 THEN 100
  ELSE IF DailyLimitHit \/ DrawdownAtLeast(StopPct) THEN 0
  ELSE IF DrawdownAtLeast(ReducePct)
  THEN (100 * (StopPct * peak - 100 * (peak - bankroll))) \div ((StopPct - ReducePct) * peak)
  ELSE 100

\* Mutant of RecordTradePnl: the new day starts after the profit was added.
RecordTradePnlThenReset(pnl) ==
  IF pnl = 0 THEN UNCHANGED <<daily, dailyOld>>
  ELSE /\ daily' = (IF dailyOld THEN 0 ELSE daily + pnl)
       /\ dailyOld' = FALSE

\* record_trade_pnl: the date is looked at only here.
RecordTradePnl(pnl) ==
  IF pnl = 0 THEN UNCHANGED <<daily, dailyOld>>
  ELSE /\ daily' = (IF dailyOld THEN 0 ELSE daily) + pnl
       /\ dailyOld' = FALSE

\* calculate_position for the next order; the list of positions is the cycle's.
PositionSize(o, want) ==
  LET sameCategory == {p \in positions : MarketOf(p) = MarketOf(o)}
      limited == (SmallestOf({want, (bankroll * MaxPositionPct) \div 100,
                   LargerOf((bankroll * MaxPortfolioPct) \div 100 - Capital(positions), 0),
                   LargerOf((bankroll * MaxCategoryPct) \div 100 - Capital(sameCategory), 0)})
                  * mult) \div 100
  IN  IF \/ Cardinality(positions) >= MaxPositions
         \/ Cardinality(sameCategory) >= MaxPerCategory
         \/ limited < MinPosition
      THEN 0 ELSE limited

-----------------------------------------------------------------------------
(* The process.                                                            *)

\* cli: the agent's executor copies dry_run, then the flags change the dict.
ModeOf(setting, flag) ==
  [executor |-> setting,
   agent |-> CASE flag = "--dry-run" -> TRUE [] flag = "--live" -> FALSE [] OTHER -> setting]

NewHistory == [highest |-> Initial, disturbed |-> FALSE, emergency |-> FALSE,
               lost |-> {}, today |-> 0]

Init ==
  /\ proc = "up" /\ pc = "idle"
  /\ mode \in {ModeOf(s, f) : s \in DryRunSettings, f \in Flags}
  /\ orders = [o \in Orders |-> NoOrder] /\ used = 0
  /\ turn = 0 /\ events = <<>> /\ positions = {} /\ mult = 100
  /\ bankroll = Initial /\ peak = Initial /\ daily = 0 /\ dailyOld = FALSE
  /\ failures = 0
  /\ rows = [o \in Orders |-> NoRow]
  /\ killed = FALSE
  /\ budget = Budget
  /\ history = NewHistory

Running == proc # "down"
DbOpen == proc \in {"up", "stopping"}
At(stage) == Running /\ pc = stage
Spend(what) == what \in Disturbances /\ budget > 0 /\ budget' = budget - 1

\* The local variables of run_cycle are gone when it returns.
LocalsEnd == turn' = 0 /\ events' = <<>> /\ positions' = {} /\ mult' = 100

\* The orders whose event, or whose row, is still to be written.
Unwritten == {events[i][1] : i \in DOMAIN events} \cup (IF pc = "record" THEN {used} ELSE {})

-----------------------------------------------------------------------------
(* One cycle, up to sizing.                                                *)

\* The kill switch is read once, at the start; a cycle that meets it ends.
StartCycle ==
  /\ At("idle") /\ failures < MaxFailures /\ ~killed
  /\ pc' = "scan"
  /\ UNCHANGED <<proc, orders, used, local, money, failures, rows, outside, history>>

SkipCycle ==
  /\ At("idle") /\ failures < MaxFailures /\ killed
  /\ UNCHANGED vars

\* run_forever: too many failures, one hour of pause.
Pause ==
  /\ At("idle") /\ failures >= MaxFailures
  /\ failures' = 0
  /\ UNCHANGED <<proc, pc, orders, used, local, money, rows, outside, history>>

\* Anything raised inside the cycle; `finally` looks at the count.
Fail ==
  /\ Running /\ pc # "idle"
  /\ IF proc = "closed" THEN UNCHANGED budget ELSE Spend("fail")
  /\ failures' = failures + 1
  /\ killed' = (killed \/ failures' >= MaxFailures)
  /\ pc' = "idle" /\ LocalsEnd
  /\ history' = [history EXCEPT !.disturbed = TRUE, !.lost = @ \cup Unwritten]
  /\ UNCHANGED <<proc, mode, orders, used, money, rows>>

Scanned ==
  /\ At("scan")
  /\ pc' = "reconcile"
  /\ UNCHANGED <<proc, orders, used, local, money, failures, rows, outside, history>>

\* reconcile_orders visits the orders one by one and collects what happened.
Visit(o, order, evs) ==
  /\ At("reconcile") /\ o > turn
  /\ turn' = o
  /\ orders' = [orders EXCEPT ![o] = order]
  /\ events' = events \o evs
  /\ UNCHANGED <<proc, pc, used, positions, mult, money, failures, rows, outside, history>>

\* The first fill arms the legs, which this pass does not visit; legs armed before it are
\* visited after their entry, and may trigger or expire in the pass that fills more of it.
LegsAfterFill(leg) ==
  CASE leg = "none"  -> {"armed"}
    [] leg = "armed" -> {"armed", "sold", "gone"}
    [] OTHER         -> {leg}

EntryFills(o) ==
  LET order == orders[o] IN
  /\ order.st \in OpenEntry
  /\ \E amount \in {order.size \div 2, order.size - order.filled}, leg \in LegsAfterFill(order.leg) :
       LET bought == order.filled + amount
           sells == order.leg = "armed" /\ leg = "sold" IN
       /\ bought <= order.size
       /\ Visit(o, [order EXCEPT !.filled = bought, !.leg = leg,
                      !.st = IF bought = order.size THEN "filled" ELSE "partially_filled"],
                IF sells THEN <<<<o, "entry">>, <<o, "exit">>>> ELSE <<<<o, "entry">>>>)

\* An order with a fill is not asked whether the venue cancelled the rest of it.
VenueCancels(o) ==
  /\ orders[o].st = "placed" /\ ~orders[o].paper
  /\ Visit(o, [orders[o] EXCEPT !.st = "cancelled"], <<<<o, "entry">>>>)

LegTriggers(o) ==
  /\ orders[o].leg = "armed"
  /\ Visit(o, [orders[o] EXCEPT !.leg = "sold"], <<<<o, "exit">>>>)

LegExpires(o) ==
  /\ orders[o].leg = "armed"
  /\ Visit(o, [orders[o] EXCEPT !.leg = "gone"], <<>>)

Reconciled ==
  /\ At("reconcile")
  /\ pc' = "apply" /\ turn' = 0
  /\ UNCHANGED <<proc, orders, used, events, positions, mult, money, failures, rows, outside, history>>

\* Mutant of ApplyEntry: a fee with every fill, without the test for an earlier one.
ApplyEntryFeePerFill ==
  /\ At("apply") /\ DbOpen /\ events # <<>>
  /\ LET o == Head(events)[1]
         synced == Synced(o) IN
     /\ Head(events)[2] = "entry"
     /\ rows' = [rows EXCEPT ![o] =
          IF synced.st # "none" /\ ~orders[o].paper /\ orders[o].filled > 0
          THEN ChargeEntry(synced, Traded(synced)) ELSE synced]
  /\ events' = Tail(events)
  /\ UNCHANGED <<proc, pc, orders, used, turn, positions, mult, money, failures, outside, history>>

\* _reconcile_order_lifecycle, an entry's event: sync, and the fee once.
ApplyEntry ==
  /\ At("apply") /\ DbOpen /\ events # <<>>
  /\ LET o == Head(events)[1]
         synced == Synced(o) IN
     /\ Head(events)[2] = "entry"
     /\ rows' = [rows EXCEPT ![o] =
          IF /\ synced.st # "none" /\ ~orders[o].paper /\ orders[o].st = "filled"
             /\ synced.fee = 0
          THEN ChargeEntry(synced, Traded(synced)) ELSE synced]
  /\ events' = Tail(events)
  /\ UNCHANGED <<proc, pc, orders, used, turn, positions, mult, money, failures, outside, history>>

\* Mutant of ApplyExitFee: the exit of an entry that is still filling is skipped.
ApplyExitFeeOfFilled ==
  /\ At("apply") /\ DbOpen /\ events # <<>>
  /\ LET o == Head(events)[1] IN
     /\ Head(events)[2] = "exit"
     /\ IF orders[o].st # "filled"
        THEN events' = Tail(events) /\ UNCHANGED <<rows, pc>>
        ELSE /\ rows' = [rows EXCEPT ![o] = IF @.st = "none" THEN @ ELSE ChargeExit(@)]
             /\ pc' = "close" /\ UNCHANGED events
  /\ UNCHANGED <<proc, orders, used, turn, positions, mult, money, failures, outside, history>>

\* A leg's event: the exit fee is committed first ...
ApplyExitFee ==
  /\ At("apply") /\ DbOpen /\ events # <<>>
  /\ LET o == Head(events)[1] IN
     /\ Head(events)[2] = "exit"
     /\ rows' = [rows EXCEPT ![o] = IF @.st = "none" THEN @ ELSE ChargeExit(@)]
  /\ pc' = "close"
  /\ UNCHANGED <<proc, orders, used, local, money, failures, outside, history>>

\* ... then close_trade_for_order closes the row, and the drawdown hears of it.
ApplyClose ==
  /\ At("close") /\ DbOpen
  /\ LET o == Head(events)[1] IN
     \E pct \in GrossPct :
       LET row == IF rows[o].st = "none" THEN rows[o] ELSE Closed(rows[o], pct) IN
       /\ rows' = [rows EXCEPT ![o] = row]
       /\ RecordTradePnl(row.pnl)
       /\ history' = [history EXCEPT !.today = @ + row.pnl]
  /\ events' = Tail(events) /\ pc' = "apply"
  /\ UNCHANGED <<proc, orders, used, turn, positions, mult, bankroll, peak, failures, outside>>

\* Its transaction fails: rolled back, reported as a profit of zero, forgotten.
CloseRollsBack ==
  /\ At("close") /\ DbOpen /\ Spend("fail")
  /\ history' = [history EXCEPT !.lost = @ \cup {Head(events)[1]}]
  /\ events' = Tail(events) /\ pc' = "apply"
  /\ UNCHANGED <<proc, mode, orders, used, turn, positions, mult, money, failures, rows, killed>>

Applied ==
  /\ At("apply") /\ events = <<>>
  /\ pc' = "size"
  /\ UNCHANGED <<proc, orders, used, local, money, failures, rows, outside, history>>

-----------------------------------------------------------------------------
(* Sizing and placing.                                                     *)

\* The positions are read, the peak moves up, the multiplier is fixed.
EnterSizing ==
  /\ At("size") /\ DbOpen
  /\ positions' = OpenRows
  /\ peak' = LargerOf(peak, bankroll)
  /\ IF DrawdownAtLeast(EmergencyPct)
     THEN pc' = "halt" /\ UNCHANGED mult
     ELSE pc' = "place" /\ mult' = Multiplier
  /\ UNCHANGED <<proc, orders, used, turn, events, bankroll, daily, dailyOld, failures,
                 rows, outside, history>>

\* Emergency: open orders are cancelled (those the exchange lets go) ...
EmergencyCancel ==
  /\ At("halt") /\ turn = 0
  /\ \E S \in SUBSET {o \in Orders : orders[o].st \in OpenEntry} :
       /\ \A o \in Orders \ S : orders[o].st \in OpenEntry => ~orders[o].paper
       /\ orders' = [o \in Orders |-> IF o \in S THEN Cancelled(orders[o]) ELSE orders[o]]
  /\ turn' = 1
  /\ UNCHANGED <<proc, pc, used, events, positions, mult, money, failures, rows, outside, history>>

\* ... then the switch goes on and the cycle returns.
EmergencyHalt ==
  /\ At("halt") /\ turn = 1
  /\ killed' = TRUE
  /\ pc' = "idle" /\ LocalsEnd
  /\ history' = [history EXCEPT !.emergency = TRUE]
  /\ UNCHANGED <<proc, mode, orders, used, money, failures, rows, budget>>

\* place_order returned an order.  (A size of zero, a rejection or too much
\* slippage changes nothing: as if there were fewer opportunities.)
PlaceOrder ==
  /\ At("place") /\ turn < TopN /\ used < NOrders /\ ~killed
  /\ \E want \in Wants :
       LET o == used + 1
           size == PositionSize(o, want)
           placed == [NoOrder EXCEPT !.st = "placed", !.size = size, !.paper = mode.executor] IN
       /\ size > 0
       /\ orders' = [orders EXCEPT ![o] =
            IF placed.paper /\ FillOnPlace
            THEN [placed EXCEPT !.st = "filled", !.filled = size, !.leg = "armed"]
            ELSE placed]
  /\ used' = used + 1 /\ turn' = turn + 1 /\ pc' = "record"
  /\ UNCHANGED <<proc, events, positions, mult, money, failures, rows, outside, history>>

\* Mutant of Record: the list of positions is not read again.
RecordWithoutRefresh ==
  /\ At("record") /\ DbOpen
  /\ LET order == orders[used]
         row == [NoRow EXCEPT !.st = "open", !.size = order.size,
                   !.filled = order.filled, !.entry = order.st] IN
     /\ rows' = [rows EXCEPT ![used] =
          IF order.paper \/ order.st = "filled" THEN ChargeEntry(row, row.size) ELSE row]
     /\ bankroll' = IF order.st = "filled" THEN LargerOf(0, bankroll - order.size) ELSE bankroll
  /\ pc' = "place"
  /\ UNCHANGED <<proc, orders, used, turn, events, positions, mult, peak, daily, dailyOld,
                 failures, outside, history>>

\* record_trade, the fee, the deduction of an instant fill, and the refresh.
Record ==
  /\ At("record") /\ DbOpen
  /\ LET order == orders[used]
         row == [NoRow EXCEPT !.st = "open", !.size = order.size,
                   !.filled = order.filled, !.entry = order.st] IN
     /\ rows' = [rows EXCEPT ![used] =
          IF order.paper \/ order.st = "filled" THEN ChargeEntry(row, row.size) ELSE row]
     /\ bankroll' = IF order.st = "filled" THEN LargerOf(0, bankroll - order.size) ELSE bankroll
  /\ positions' = OpenRows \cup {used}
  /\ pc' = "place"
  /\ UNCHANGED <<proc, orders, used, turn, events, mult, peak, daily, dailyOld,
                 failures, outside, history>>

PlacingDone ==
  /\ At("place")
  /\ pc' = "account" /\ turn' = 0 /\ mult' = 100
  /\ UNCHANGED <<proc, orders, used, events, positions, money, failures, rows, outside, history>>

-----------------------------------------------------------------------------
(* The end of a cycle.                                                     *)

\* Bankroll = initial + realised profit - capital of the positions listed.
Account ==
  /\ At("account") /\ DbOpen
  /\ bankroll' = LargerOf(0, Initial + Realised - Capital(positions))
  /\ peak' = LargerOf(peak, bankroll')
  /\ history' = [history EXCEPT !.highest = LargerOf(@, bankroll')]
  /\ pc' = "expire" /\ positions' = {}
  /\ UNCHANGED <<proc, orders, used, turn, events, mult, daily, dailyOld, failures, rows, outside>>

\* cancel_expired_orders, and the rows of what it cancelled.
Expire ==
  /\ At("expire") /\ DbOpen
  /\ \E S \in SUBSET {o \in Orders : orders[o].st \in OpenEntry} :
       /\ orders' = [o \in Orders |-> IF o \in S THEN Cancelled(orders[o]) ELSE orders[o]]
       /\ rows' = [o \in Orders |->
            IF o \in S /\ rows[o].st # "none" THEN [rows[o] EXCEPT !.entry = "cancelled"] ELSE rows[o]]
  /\ pc' = "audit"
  /\ UNCHANGED <<proc, used, local, money, failures, outside, history>>

\* Mutant of Phantoms: every row without an order, closed ones too.
PhantomsOfAnyRow == {o \in Orders : rows[o].st # "none" /\ ~Known(o)}

\* _check_phantom_positions: open rows the executor knows neither the order
\* nor another live order of the market of.
Phantoms ==
  LET live == {MarketOf(o) : o \in {p \in Orders : Known(p) /\
                 (orders[p].st # "cancelled" \/ orders[p].leg \in {"armed", "sold"})}} IN
  {o \in OpenRows : ~Known(o) /\ MarketOf(o) \notin live}

\* The reconciler: phantoms are closed, the rest is reported.  It passes the YES price of the
\* entry as the exit price of the contract: no gain on a YES trade, any on a NO trade, and the
\* drawdown controller is not told.
Audit ==
  /\ At("audit") /\ DbOpen
  /\ \E pct \in [Phantoms -> GrossPct \cup {0}] :
       rows' = [o \in Orders |->
         IF AutoClose /\ o \in Phantoms THEN Closed(rows[o], pct[o]) ELSE rows[o]]
  /\ failures' = 0
  /\ pc' = "idle"
  /\ UNCHANGED <<proc, orders, used, local, money, outside, history>>

-----------------------------------------------------------------------------
(* What happens around the loop.                                           *)

Stop == Spend("stop")

\* The shutdown hooks run next to the cycle: open orders are cancelled ...
ShutdownCancel ==
  /\ proc = "up" /\ Stop
  /\ proc' = "stopping"
  /\ \E S \in SUBSET {o \in Orders : orders[o].st \in OpenEntry} :
       orders' = [o \in Orders |-> IF o \in S THEN Cancelled(orders[o]) ELSE orders[o]]
  /\ UNCHANGED <<mode, pc, used, local, money, failures, rows, killed, history>>

\* ... the tracker's connection closes: what the cycle writes now raises ...
ShutdownCloseTracker ==
  /\ proc = "stopping"
  /\ proc' = "closed"
  /\ UNCHANGED <<pc, orders, used, local, money, failures, rows, outside, history>>

Forget ==
  /\ proc' = "down" /\ pc' = "idle"
  /\ orders' = [o \in Orders |-> NoOrder]
  /\ LocalsEnd
  /\ bankroll' = Initial /\ peak' = Initial /\ daily' = 0 /\ dailyOld' = FALSE
  /\ failures' = 0
  /\ history' = [history EXCEPT !.disturbed = TRUE, !.emergency = FALSE, !.today = 0,
                   !.lost = @ \cup Unwritten \cup {o \in Orders : Known(o)}]
  /\ UNCHANGED <<used, rows, killed>>

\* ... and the process exits, whatever the cycle was doing.
Exit == proc = "closed" /\ Forget /\ UNCHANGED <<mode, budget>>

Crash == Running /\ Stop /\ Forget /\ UNCHANGED mode

\* __init__ and startup_checks: the trades table and the switch survive.  The
\* peak is the configured bankroll again, so the tier is never "stopped" and
\* reset_peak has nothing to reset.
Restart ==
  /\ proc = "down"
  /\ proc' = "up"
  /\ mode' \in {ModeOf(s, f) : s \in DryRunSettings, f \in Flags}
  /\ UNCHANGED <<pc, orders, used, local, money, failures, rows, killed, budget, history>>

\* A human runs `kill-switch on` or `kill-switch off`.
FlipSwitch ==
  /\ Spend("flip")
  /\ killed' = ~killed
  /\ history' = [history EXCEPT !.emergency = FALSE]
  /\ UNCHANGED <<proc, mode, pc, orders, used, local, money, failures, rows>>

Midnight ==
  /\ Spend("midnight")
  /\ dailyOld' = TRUE
  /\ history' = [history EXCEPT !.today = 0]
  /\ UNCHANGED <<proc, mode, pc, orders, used, local, bankroll, peak, daily, failures, rows, killed>>

Lifecycle ==
  \/ \E o \in Orders : EntryFills(o) \/ VenueCancels(o) \/ LegTriggers(o) \/ LegExpires(o)
  \/ Reconciled \/ ApplyEntry \/ ApplyExitFee \/ ApplyClose \/ CloseRollsBack \/ Applied

Trade == EnterSizing \/ EmergencyCancel \/ EmergencyHalt \/ PlaceOrder \/ Record \/ PlacingDone

RunCycle ==
  \/ StartCycle \/ SkipCycle \/ Pause \/ Scanned \/ Lifecycle \/ Trade
  \/ Account \/ Expire \/ Audit \/ Fail

Process == ShutdownCancel \/ ShutdownCloseTracker \/ Exit \/ Crash \/ Restart

Next == RunCycle \/ Process \/ FlipSwitch \/ Midnight

Spec == Init /\ [][Next]_vars

-----------------------------------------------------------------------------
(* Properties.                                                             *)

\* Every variable keeps its type, and the loop its stages.
TypeOK ==
  /\ proc \in {"up", "stopping", "closed", "down"} /\ pc \in Stages
  /\ mode \in [executor: BOOLEAN, agent: BOOLEAN]
  /\ orders \in [Orders -> OrderRec] /\ rows \in [Orders -> RowRec]
  /\ used \in 0..NOrders /\ turn \in Nat /\ mult \in 0..100
  /\ \A i \in DOMAIN events : events[i] \in Orders \X {"entry", "exit"}
  /\ positions \subseteq Orders
  /\ bankroll \in Nat /\ peak \in Nat /\ daily \in Int /\ failures \in 0..MaxFailures
  /\ {dailyOld, killed} \subseteq BOOLEAN

\* The table follows the executor: between passes, an order whose bracket sold
\* has a closed trade, and only such an order has one, unless its event was
\* lost to a failing call or the process forgot the order
\* (_reconcile_order_lifecycle applies events after the executor moved on).
BooksAgree ==
  \A o \in Orders \ (history.lost \cup Unwritten) :
    (orders[o].leg = "sold") <=> (rows[o].st = "closed")

\* Together the open trades never exceed the portfolio limit of the best
\* bankroll there was, although each is sized from a list of positions read
\* before the one placed last (calculate_position, step 8).
ExposureCapped ==
  100 * Capital(OpenRows) <= MaxPortfolioPct * history.highest

\* The bankroll is net of open capital, so placing alone looks like a drawdown;
\* still the emergency threshold is out of reach of a process that never failed
\* and never restarted: the reduction and stop tiers hold it back.
EmergencyNeedsDisturbance == history.emergency => history.disturbed

\* A trade is charged at most one entry fee and one exit fee, whatever fills,
\* cancels and failures it meets (record_fee adds to what is there).
FeesOncePerSide ==
  \A o \in Orders : rows[o].entryFees <= 1 /\ rows[o].exitFees <= 1

\* After a day's realised loss reached the limit, no trade is opened that day by the process
\* that saw the loss (daily_limit_hit); what a phantom loses, nobody sees.
DailyLossHalts ==
  [][\A o \in Orders : rows[o].st = "none" /\ rows'[o].st = "open"
        => history.today > -DailyLimit]_vars

\* The trades table implements the ledger: one trade per order, closed once,
\* its profit fixed from then on, through crashes and restarts.
Ledger == INSTANCE TradeLedger WITH
  trade <- [o \in Orders |-> rows[o].st],
  profit <- [o \in Orders |-> rows[o].pnl]

LedgerSpec == Ledger!Spec

\* What README.md:88 and settings.yaml:24 say of the emergency threshold:
\* everything is closed.
EmergencyClosesEverything ==
  history.emergency /\ pc = "idle" => OpenRows = {}

\* What README.md:117 says of `trade --dry-run`: paper trading.
DryRunIsPaper ==
  mode.agent => \A o \in Orders : Known(o) => orders[o].paper

=============================================================================
